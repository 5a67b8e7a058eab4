---------------------------- MODULE WorkerProofs ---------------------------
(***************************************************************************)
(* Proofs about the workers that write one row each: EmbeddingWorker, for   *)
(* any sets of rows and writers and any number of models, backfills and     *)
(* faults, and RenderJobs, for any calls, workers, attempts and mishaps.    *)
(***************************************************************************)
EXTENDS EmbeddingWorker, RenderJobs, TLAPS

Steps == {"idle", "writing", "pushed", "committed", "done", "failed"}

\* A text is committed by a writer that has come past its commit, on the row it
\* writes.
TextsAreCommitted ==
    /\ \A r \in Row : Active(r) => /\ pc[text[r]] \in {"committed", "done", "failed"}
                                   /\ on[text[r]] = r
    /\ \A w \in Writer : pc[w] # "idle" => on[w] \in Row

\* Every job of another text for a committed row has left its trace.
OldJobsDisturb ==
    \A r \in Row : Active(r) =>
        \A j \in queue \cup found :
            j.row = r /\ j.text # text[r] => text[r] \in disturbed

IInv ==
    /\ TypeOK /\ TextsAreCommitted
    /\ OldJobsDisturb /\ StaleNeedsAnOldJob /\ EmptyNeedsAFailedPush

-----------------------------------------------------------------------------
LEMMA InitIInv == Init => IInv
<1> SUFFICES ASSUME Init PROVE IInv
  OBVIOUS
<1> USE DEF Init
<1>1. \A r \in Row : ~Active(r)
  BY ConstantsAssumption DEF Init, Active
<1>2. 0 \in Models
  BY ConstantsAssumption DEF Models
<1>3. TypeOK
  BY <1>2 DEF TypeOK
<1>4. TextsAreCommitted
  BY <1>1 DEF TextsAreCommitted
<1>5. OldJobsDisturb /\ StaleNeedsAnOldJob /\ EmptyNeedsAFailedPush
  BY <1>1 DEF OldJobsDisturb, StaleNeedsAnOldJob, EmptyNeedsAFailedPush
<1> QED BY <1>3, <1>4, <1>5 DEF IInv

\* What a sender puts on the queue.
LEMMA SendAddsAJob ==
    ASSUME TypeOK, NEW w \in Writer, on[w] \in Row, Send(w)
    PROVE  /\ queue' \subseteq Job
           /\ queue \subseteq queue'
           /\ \E j \in queue' : j.row = on[w]
<1>1. PICK m \in 0..model :
        queue' = queue \cup {[row |-> on[w], text |-> w, model |-> m]}
  BY DEF Send
<1>2. m \in Models
  BY <1>1, ConstantsAssumption DEF TypeOK, Models
<1>3. [row |-> on[w], text |-> w, model |-> m] \in Job
  BY <1>2 DEF Job
<1> QED BY <1>1, <1>3 DEF TypeOK

\* How the guarded UPDATE changes the vectors.
LEMMA UpdateWrites ==
    ASSUME TypeOK, NEW j \in Job, Update(j)
    PROVE  /\ vector' \in [Row -> Vector \cup {None}]
           /\ \A r \in Row : r # j.row => vector'[r] = vector[r]
           /\ Guard(j) => vector'[j.row] = [text |-> j.text, model |-> j.model]
           /\ ~Guard(j) => vector' = vector
           /\ UNCHANGED <<text, writing, pc, on, found, model, scans>>
<1>1. vector \in [Row -> Vector \cup {None}] /\ j.row \in Row
  BY DEF TypeOK, Job
<1>2. [text |-> j.text, model |-> j.model] \in Vector
  BY DEF Job, Vector
<1> QED BY <1>1, <1>2 DEF Update, writers

-----------------------------------------------------------------------------
LEMMA TypeKept == IInv /\ [Next]_vars => TypeOK'
<1> SUFFICES ASSUME IInv, [Next]_vars PROVE TypeOK'
  OBVIOUS
<1> USE DEF IInv
<1>1. CASE UNCHANGED vars
  BY <1>1 DEF vars, TypeOK
<1>2. CASE Next
  <2>1. text' \in [Row -> Writer \cup {None, Retired}] => disturbed' \subseteq Writer
    BY <1>2 DEF Next, Disturb, TypeOK
  <2> USE DEF table, writers, sqs, Goto, Fault
  <2>2. ASSUME NEW w \in Writer, NEW r \in Row, Begin(w, r) PROVE TypeOK'
    <3>1. /\ writing' = [writing EXCEPT ![r] = w] /\ on' = [on EXCEPT ![w] = r]
          /\ pc' = [pc EXCEPT ![w] = "writing"]
      BY <2>2 DEF Begin
    <3>2. /\ writing' \in [Row -> Writer \cup {None}]
          /\ on' \in [Writer -> Row \cup {None}]
      BY <3>1 DEF TypeOK
    <3>3. pc' \in [Writer -> {"idle", "writing", "pushed", "committed", "done",
                             "failed"}]
      BY <3>1 DEF TypeOK
    <3> QED BY <2>1, <2>2, <3>2, <3>3 DEF Begin, TypeOK
  <2>3. ASSUME NEW w \in Writer, Finish(w) PROVE TypeOK'
    <3>1. CASE PushInside(w)
      <4>1. on[w] \in Row
        BY <3>1 DEF PushInside, TextsAreCommitted
      <4>2. queue' \subseteq Job
        BY <3>1, <4>1, SendAddsAJob DEF PushInside
      <4> QED BY <2>1, <3>1, <4>2 DEF PushInside, TypeOK
    <3>2. CASE PushAfter(w)
      <4>1. on[w] \in Row
        BY <3>2 DEF PushAfter, TextsAreCommitted
      <4>2. queue' \subseteq Job
        BY <3>2, <4>1, SendAddsAJob DEF PushAfter
      <4> QED BY <2>1, <3>2, <4>2 DEF PushAfter, TypeOK
    <3>3. CASE Commit(w)
      BY <2>1, <3>3 DEF Commit, TypeOK
    <3> QED BY <2>3, <3>1, <3>2, <3>3 DEF Finish
  <2>4. ASSUME NEW w \in Writer, Rollback(w) \/ PushFails(w) PROVE TypeOK'
    <3>1. CASE Rollback(w)
      <4>1. /\ writing' = [writing EXCEPT ![on[w]] = None]
            /\ pc' = [pc EXCEPT ![w] = "failed"]
            /\ faults' = faults + 1
        BY <3>1 DEF Rollback
      <4>2. writing' \in [Row -> Writer \cup {None}]
        BY <4>1 DEF TypeOK
      <4>3. pc' \in [Writer -> {"idle", "writing", "pushed", "committed",
                               "done", "failed"}]
        BY <4>1 DEF TypeOK
      <4> QED BY <2>1, <3>1, <4>1, <4>2, <4>3 DEF Rollback, TypeOK
    <3>2. CASE PushFails(w)
      BY <2>1, <3>2 DEF PushFails, TypeOK
    <3> QED BY <2>4, <3>1, <3>2
  <2>5. ASSUME NEW r \in Row, Retire(r) PROVE TypeOK'
    BY <2>1, <2>5 DEF Retire, TypeOK
  <2>6. ASSUME NEW j \in queue, Apply(j) \/ ApplyUnacked(j) PROVE TypeOK'
    <3>1. j \in Job
      BY DEF TypeOK
    <3>2. Update(j) /\ queue' \subseteq queue /\ faults' \in Nat
      BY <2>6 DEF Apply, ApplyUnacked, TypeOK
    <3>3. /\ vector' \in [Row -> Vector \cup {None}]
          /\ UNCHANGED <<text, writing, pc, on, found, model, scans>>
      BY <3>1, <3>2, UpdateWrites
    <3> QED BY <2>1, <3>2, <3>3 DEF TypeOK
  <2>7. CASE Upgrade
    <3>1. model' \in Models
      BY <2>7, ConstantsAssumption DEF Upgrade, TypeOK, Models
    <3> QED BY <2>1, <2>7, <3>1 DEF Upgrade, TypeOK
  <2>8. CASE Scan
    <3>1. found' \subseteq Job
      BY <2>8 DEF Scan, TypeOK, Job, Active
    <3> QED BY <2>1, <2>8, <3>1 DEF Scan, TypeOK
  <2>9. ASSUME NEW j \in found, SendFound(j) PROVE TypeOK'
    BY <2>1, <2>9 DEF SendFound, TypeOK
  <2>10. CASE ScanStops
    BY <2>1, <2>10 DEF ScanStops, TypeOK
  <2> QED
    BY <1>2, <2>2, <2>3, <2>4, <2>5, <2>6, <2>7, <2>8, <2>9, <2>10
       DEF Next, Write, Work, Backfill
<1> QED BY <1>1, <1>2
-----------------------------------------------------------------------------
LEMMA TextsKept == IInv /\ [Next]_vars => TextsAreCommitted'
<1> SUFFICES ASSUME IInv, [Next]_vars PROVE TextsAreCommitted'
  OBVIOUS
<1> USE DEF IInv
<1>1. CASE UNCHANGED vars
  BY <1>1 DEF vars, TextsAreCommitted, Active
<1>2. CASE Next
  <2> USE DEF table, writers, sqs, Goto
  <2>1. ASSUME NEW w \in Writer, NEW r \in Row, Begin(w, r)
        PROVE  TextsAreCommitted'
    <3>1. /\ pc[w] = "idle" /\ text' = text
          /\ \A v \in Writer : v # w => pc'[v] = pc[v] /\ on'[v] = on[v]
          /\ on'[w] = r
      BY <2>1 DEF Begin, TypeOK
    <3> QED BY <3>1 DEF TextsAreCommitted, Active
  <2>2. ASSUME NEW w \in Writer, Commit(w)
        PROVE  TextsAreCommitted'
    <3>1. /\ on' = on /\ on[w] \in Row
          /\ \A v \in Writer : v # w => pc'[v] = pc[v]
          /\ pc'[w] \in {"committed", "done"}
      BY <2>2 DEF Commit, TypeOK, TextsAreCommitted
    <3>2. \A r \in Row : text'[r] = IF r = on[w] THEN w ELSE text[r]
      BY <2>2, <3>1 DEF Commit, TypeOK
    <3>3. pc[w] # "idle"
      BY <2>2 DEF Commit
    <3> QED BY <3>1, <3>2, <3>3 DEF TextsAreCommitted, Active
  <2>3. ASSUME NEW w \in Writer,
               PushInside(w) \/ PushAfter(w) \/ Rollback(w) \/ PushFails(w)
        PROVE  TextsAreCommitted'
    <3>1. UNCHANGED <<text, on>> /\ pc[w] # "idle"
      BY <2>3 DEF PushInside, PushAfter, Rollback, PushFails
    <3>2. \A v \in Writer : v # w => pc'[v] = pc[v]
      BY <2>3 DEF PushInside, PushAfter, Rollback, PushFails, TypeOK
    <3>3. pc[w] \in {"committed", "done", "failed"} =>
              pc'[w] \in {"committed", "done", "failed"}
      BY <2>3 DEF PushInside, PushAfter, Rollback, PushFails, TypeOK
    <3> QED BY <3>1, <3>2, <3>3 DEF TextsAreCommitted, Active
  <2>4. ASSUME NEW r \in Row, Retire(r)
        PROVE  TextsAreCommitted'
    <3>1. UNCHANGED <<pc, on>>
      BY <2>4 DEF Retire
    <3>2. \A q \in Row : text'[q] = IF q = r THEN Retired ELSE text[q]
      BY <2>4 DEF Retire, TypeOK
    <3> QED BY <3>1, <3>2, ConstantsAssumption DEF TextsAreCommitted, Active
  <2>5. CASE Work \/ Backfill
    <3>1. UNCHANGED <<text, pc, on>>
      BY <2>5 DEF Work, Apply, ApplyUnacked, Update, Backfill, Upgrade, Scan,
                  SendFound, ScanStops
    <3> QED BY <3>1 DEF TextsAreCommitted, Active
  <2> QED BY <1>2, <2>1, <2>2, <2>3, <2>4, <2>5 DEF Next, Write, Finish
<1> QED BY <1>1, <1>2

\* Disturb records every job of another text as it comes to be.
LEMMA OldJobsKept == IInv /\ [Next]_vars => OldJobsDisturb'
<1>1. ASSUME IInv, UNCHANGED vars PROVE OldJobsDisturb'
  BY <1>1 DEF IInv, vars, OldJobsDisturb, Active
<1>2. ASSUME Disturb PROVE OldJobsDisturb'
  BY <1>2 DEF Disturb, OldJobsDisturb, Active
<1> QED BY <1>1, <1>2 DEF Next

LEMMA StaleKept == IInv /\ [Next]_vars => StaleNeedsAnOldJob'
<1> SUFFICES ASSUME IInv, [Next]_vars PROVE StaleNeedsAnOldJob'
  OBVIOUS
<1> USE DEF IInv
<1>1. CASE UNCHANGED vars
  BY <1>1 DEF vars, StaleNeedsAnOldJob, Active
<1>2. CASE Next
  <2>0. disturbed \subseteq disturbed'
    BY <1>2 DEF Next, Disturb
  <2> USE DEF table, writers, sqs
  <2>1. ASSUME NEW w \in Writer, Commit(w)
        PROVE  StaleNeedsAnOldJob'
    <3>1. on[w] \in Row
      BY <2>1 DEF Commit, TextsAreCommitted
    <3>2. \A r \in Row : /\ text'[r] = IF r = on[w] THEN w ELSE text[r]
                         /\ vector'[r] = IF r = on[w] THEN None ELSE vector[r]
      BY <2>1, <3>1 DEF Commit, TypeOK
    <3> QED BY <2>0, <3>2 DEF StaleNeedsAnOldJob, Active
  <2>2. ASSUME NEW r \in Row, Retire(r)
        PROVE  StaleNeedsAnOldJob'
    <3>1. vector' = vector
      BY <2>2 DEF Retire
    <3>2. \A q \in Row : text'[q] = IF q = r THEN Retired ELSE text[q]
      BY <2>2 DEF Retire, TypeOK
    <3> QED BY <2>0, <3>1, <3>2, ConstantsAssumption
            DEF StaleNeedsAnOldJob, Active
  <2>3. ASSUME NEW j \in queue, Apply(j) \/ ApplyUnacked(j)
        PROVE  StaleNeedsAnOldJob'
    <3>1. j \in Job /\ Update(j)
      BY <2>3 DEF Apply, ApplyUnacked, TypeOK
    <3>2. /\ \A r \in Row : r # j.row => vector'[r] = vector[r]
          /\ Guard(j) => vector'[j.row] = [text |-> j.text, model |-> j.model]
          /\ ~Guard(j) => vector' = vector
          /\ text' = text
      BY <3>1, UpdateWrites
    <3>3. Active(j.row) /\ j.text # text[j.row] => text[j.row] \in disturbed
      BY <3>1 DEF OldJobsDisturb, Job
    <3> QED BY <2>0, <3>2, <3>3 DEF StaleNeedsAnOldJob, Active
  <2>4. CASE UNCHANGED <<text, vector>>
    BY <2>0, <2>4 DEF StaleNeedsAnOldJob, Active
  <2>5. \/ \E w \in Writer : Commit(w)
        \/ \E r \in Row : Retire(r)
        \/ \E j \in queue : Apply(j) \/ ApplyUnacked(j)
        \/ UNCHANGED <<text, vector>>
    BY <1>2 DEF Next, Write, Finish, Work, Backfill, Begin, PushInside,
                PushAfter, Rollback, PushFails, Upgrade, Scan, SendFound,
                ScanStops
  <2> QED BY <2>1, <2>2, <2>3, <2>4, <2>5
<1> QED BY <1>1, <1>2

LEMMA EmptyKept == IInv /\ [Next]_vars => EmptyNeedsAFailedPush'
<1> SUFFICES ASSUME IInv, [Next]_vars PROVE EmptyNeedsAFailedPush'
  OBVIOUS
<1> USE DEF IInv
<1>1. CASE UNCHANGED vars
  BY <1>1 DEF vars, EmptyNeedsAFailedPush, Active, OnItsWay
<1>2. CASE Next
  <2> USE DEF table, writers, sqs, Goto
  <2>1. ASSUME NEW w \in Writer, NEW r \in Row, Begin(w, r)
        PROVE  EmptyNeedsAFailedPush'
    <3>1. UNCHANGED <<text, vector, queue>>
      BY <2>1 DEF Begin
    <3>2. \A v \in Writer : pc[v] # "idle" => pc'[v] = pc[v]
      BY <2>1 DEF Begin, TypeOK
    <3> QED BY <3>1, <3>2
            DEF EmptyNeedsAFailedPush, Active, OnItsWay, TextsAreCommitted
  <2>2. ASSUME NEW w \in Writer, Commit(w)
        PROVE  EmptyNeedsAFailedPush'
    <3>1. on[w] \in Row /\ UNCHANGED queue
      BY <2>2 DEF Commit, TextsAreCommitted
    <3>2. \A r \in Row : /\ text'[r] = IF r = on[w] THEN w ELSE text[r]
                         /\ vector'[r] = IF r = on[w] THEN None ELSE vector[r]
      BY <2>2, <3>1 DEF Commit, TypeOK
    <3>3. \A v \in Writer : v # w => pc'[v] = pc[v]
      BY <2>2 DEF Commit, TypeOK
    <3>4. w \notin Inside => pc'[w] = "committed"
      BY <2>2 DEF Commit, TypeOK
    <3>5. pc[w] \in {"writing", "pushed"}
      BY <2>2 DEF Commit
    <3>6. \A r \in Row : Active(r) => text[r] # w
      BY <3>5 DEF TextsAreCommitted
    <3> QED BY <3>1, <3>2, <3>3, <3>4, <3>6
            DEF EmptyNeedsAFailedPush, Active, OnItsWay
  <2>3. ASSUME NEW w \in Writer, PushInside(w) \/ PushAfter(w)
        PROVE  EmptyNeedsAFailedPush'
    <3>1. on[w] \in Row /\ Send(w) /\ UNCHANGED <<text, vector, on>>
      BY <2>3 DEF PushInside, PushAfter, TextsAreCommitted
    <3>2. queue \subseteq queue' /\ \E j \in queue' : j.row = on[w]
      BY <3>1, SendAddsAJob
    <3>3. \A v \in Writer : v # w => pc'[v] = pc[v]
      BY <2>3 DEF PushInside, PushAfter, TypeOK
    <3> QED BY <3>1, <3>2, <3>3
            DEF EmptyNeedsAFailedPush, Active, OnItsWay, TextsAreCommitted
  <2>4. ASSUME NEW w \in Writer, Rollback(w) \/ PushFails(w)
        PROVE  EmptyNeedsAFailedPush'
    <3>1. UNCHANGED <<text, vector, queue>>
      BY <2>4 DEF Rollback, PushFails
    <3>2. /\ \A v \in Writer : v # w => pc'[v] = pc[v]
          /\ pc'[w] = "failed"
      BY <2>4 DEF Rollback, PushFails, TypeOK
    <3> QED BY <3>1, <3>2 DEF EmptyNeedsAFailedPush, Active, OnItsWay
  <2>5. ASSUME NEW r \in Row, Retire(r)
        PROVE  EmptyNeedsAFailedPush'
    <3>1. UNCHANGED <<vector, queue, pc>>
      BY <2>5 DEF Retire
    <3>2. \A q \in Row : text'[q] = IF q = r THEN Retired ELSE text[q]
      BY <2>5 DEF Retire, TypeOK
    <3> QED BY <3>1, <3>2, ConstantsAssumption
            DEF EmptyNeedsAFailedPush, Active, OnItsWay
  <2>6. ASSUME NEW j \in queue, Apply(j) \/ ApplyUnacked(j)
        PROVE  EmptyNeedsAFailedPush'
    <3>1. j \in Job /\ Update(j) /\ queue \ {j} \subseteq queue'
      BY <2>6 DEF Apply, ApplyUnacked, TypeOK
    <3>2. /\ \A r \in Row : r # j.row => vector'[r] = vector[r]
          /\ Guard(j) => vector'[j.row] = [text |-> j.text, model |-> j.model]
          /\ ~Guard(j) => vector' = vector
          /\ UNCHANGED <<text, pc>>
      BY <3>1, UpdateWrites
    <3>3. [text |-> j.text, model |-> j.model] # None
      BY <3>1, ConstantsAssumption DEF Job, Models
    <3>4. Active(j.row) => Guard(j) \/ vector[j.row] # None
      BY DEF Guard
    <3> QED BY <3>1, <3>2, <3>3, <3>4
            DEF EmptyNeedsAFailedPush, Active, OnItsWay
  <2>7. CASE Backfill
    <3>1. UNCHANGED <<text, vector, pc>> /\ queue \subseteq queue'
      BY <2>7 DEF Backfill, Upgrade, Scan, SendFound, ScanStops
    <3> QED BY <3>1 DEF EmptyNeedsAFailedPush, Active, OnItsWay
  <2> QED BY <1>2, <2>1, <2>2, <2>3, <2>4, <2>5, <2>6, <2>7
          DEF Next, Write, Work, Finish
<1> QED BY <1>1, <1>2

LEMMA Inductive == Spec => []IInv
<1>1. IInv /\ [Next]_vars => IInv'
  BY TypeKept, TextsKept, OldJobsKept, StaleKept, EmptyKept DEF IInv
<1> QED BY InitIInv, <1>1, PTL DEF Spec

-----------------------------------------------------------------------------
(* The theorems.                                                           *)

\* Writers, worker and backfill keep rows and jobs in their shape.
THEOREM TypeCorrect == Spec => []TypeOK
<1>1. IInv => TypeOK
  BY DEF IInv
<1> QED BY Inductive, <1>1, PTL

\* Clearing the vector with each new text leaves one way to a stale vector: a
\* job of another text that is under way beside the new one.
THEOREM StaleVectorsHaveACause == Spec => []StaleNeedsAnOldJob
<1>1. IInv => StaleNeedsAnOldJob
  BY DEF IInv
<1> QED BY Inductive, <1>1, PTL

\* A writer that pushes after its commit leaves no active row empty unless its
\* push failed: the jobs of other writers are no danger to it.
THEOREM EmptyRowsHaveACause == Spec => []EmptyNeedsAFailedPush
<1>1. IInv => EmptyNeedsAFailedPush
  BY DEF IInv
<1> QED BY Inductive, <1>1, PTL

\* The guard keeps vectors of two models from replacing each other, whatever
\* jobs are late or delivered twice.
THEOREM GuardHolds == Spec => ModelsNeverMix
<1>1. IInv /\ [Next]_vars =>
        [\A r \in Row : vector[r] # None /\ vector'[r] # None
                           => vector'[r].model = vector[r].model]_vars
  <2> SUFFICES ASSUME IInv, Next
               PROVE  \A r \in Row : vector[r] # None /\ vector'[r] # None
                                        => vector'[r].model = vector[r].model
    OBVIOUS
  <2> USE DEF IInv, table, writers, sqs
  <2>1. ASSUME NEW w \in Writer, Commit(w), NEW r \in Row
        PROVE  vector'[r] \in {vector[r], None}
    BY <2>1 DEF Commit, TypeOK
  <2>2. ASSUME NEW j \in queue, Apply(j) \/ ApplyUnacked(j), NEW r \in Row
        PROVE  \/ vector'[r] = vector[r]
               \/ vector[r] = None
               \/ vector'[r].model = vector[r].model
    <3>1. j \in Job /\ Update(j)
      BY <2>2 DEF Apply, ApplyUnacked, TypeOK
    <3>2. /\ r # j.row => vector'[r] = vector[r]
          /\ Guard(j) => vector'[j.row] = [text |-> j.text, model |-> j.model]
          /\ ~Guard(j) => vector' = vector
      BY <3>1, UpdateWrites
    <3> QED BY <3>2 DEF Guard
  <2>3. \/ \E w \in Writer : Commit(w)
        \/ \E j \in queue : Apply(j) \/ ApplyUnacked(j)
        \/ UNCHANGED vector
    BY DEF Next, Write, Finish, Work, Backfill, Begin, PushInside, PushAfter,
           Rollback, PushFails, Retire, Upgrade, Scan, SendFound, ScanStops
  <2> QED BY <2>1, <2>2, <2>3
<1> QED BY Inductive, <1>1, PTL DEF Spec, ModelsNeverMix

-----------------------------------------------------------------------------
(* RenderJobs: types.                                                       *)

\* One step per action: the shape of a variable is lost only where it is set.
LEMMA RenderTypesInit == RenderInit => RenderTypeOK
<1> SUFFICES ASSUME RenderInit PROVE RenderTypeOK
  OBVIOUS
<1>1. status \in Statuses
  BY DEF RenderInit, Statuses
<1>2. ctx \in Context /\ draws \in [Worker -> Context]
  BY DEF RenderInit, Context, NoContext
<1>3. prior \in [Call -> Statuses]
  BY DEF RenderInit, Statuses
<1>4. received \in [Call -> 0..MaxAttempts] /\ attempt \in [Worker -> 0..MaxAttempts]
  BY RenderAssumption DEF RenderInit
<1>5. art \in [by : Call \cup {Nobody}, text : Call \cup {Nobody}]
  BY DEF RenderInit, Nothing
<1> QED
  BY <1>1, <1>2, <1>3, <1>4, <1>5 DEF RenderInit, RenderTypeOK

LEMMA RenderTypesStep ==
    ASSUME RenderTypeOK, [RenderNext]_renderVars
    PROVE  RenderTypeOK'
<1> USE RenderAssumption DEF RenderTypeOK, Statuses, Context, NoContext
<1>1. ASSUME NEW c \in Call, Read(c) PROVE RenderTypeOK'
  <2>1. CASE End(c)
    BY <1>1, <2>1 DEF Read, End, Enter, row, jobs, worker, Moves
  <2>2. ASSUME NEW o \in {"create", "regenerate", "edit"}, Enter(c, o)
        PROVE  RenderTypeOK'
    <3>1. ctx.text \in Call \cup {Nobody}
      OBVIOUS
    <3> QED
      BY <1>1, <2>2, <3>1 DEF Read, End, Enter, row, jobs, worker, Moves
  <2> QED
    BY <1>1, <2>1, <2>2 DEF Read
<1>2. ASSUME NEW c \in Call, Conflict(c) PROVE RenderTypeOK'
  BY <1>2 DEF Conflict, End, row, jobs, worker, Moves
<1>3. ASSUME NEW c \in Call, Compose(c) PROVE RenderTypeOK'
  BY <1>3
     DEF Compose, Rewritten, Overtakes, Moves, jobs, worker, Composed,
         Recompose
<1>4. ASSUME NEW c \in Call, Push(c) PROVE RenderTypeOK'
  BY <1>4 DEF Push, End, row, worker, Moves
<1>5. ASSUME NEW c \in Call, TriggerFails(c) PROVE RenderTypeOK'
  BY <1>5 DEF TriggerFails, GoesWrong, row, worker, Moves
<1>6. ASSUME NEW c \in Call, CallDies(c) PROVE RenderTypeOK'
  BY <1>6 DEF CallDies, GoesWrong, End, row, jobs, worker, calls, Moves
<1>7. ASSUME NEW w \in Worker, NEW c \in Call, Receive(w, c) PROVE RenderTypeOK'
  BY <1>7 DEF Receive, Then, Capped, row, calls
<1>8. ASSUME NEW w \in Worker, Load(w) PROVE RenderTypeOK'
  <2>1. draws' \in [Worker -> Context]
    BY <1>8 DEF Load
  <2>2. step' \in [Worker -> {"idle", "load", "assemble", "draw", "complete",
                              "failing", "ack"}]
    BY <1>8 DEF Load, Then
  <2> QED
    BY <1>8, <2>1, <2>2 DEF Load, row, calls, jobs
<1>9. ASSUME NEW w \in Worker, Assemble(w) PROVE RenderTypeOK'
  <2>1. draws' \in [Worker -> Context]
    <3>1. CASE draws' = [draws EXCEPT ![w].text = script]
      <4>1. [draws[w] EXCEPT !.text = script] \in Context
        OBVIOUS
      <4> QED
        BY <3>1, <4>1
    <3> QED
      BY <1>9, <3>1 DEF Assemble
  <2>2. script' \in Call \cup {Nobody}
    BY <1>9 DEF Assemble
  <2>3. step' \in [Worker -> {"idle", "load", "assemble", "draw", "complete",
                              "failing", "ack"}]
    BY <1>9 DEF Assemble, Then
  <2> QED
    BY <1>9, <2>1, <2>2, <2>3 DEF Assemble, row, calls, jobs, worker
<1>10. ASSUME NEW w \in Worker, Upload(w) PROVE RenderTypeOK'
  BY <1>10 DEF Upload, Then, row, calls, jobs
<1>11. ASSUME NEW w \in Worker, MarkComplete(w) PROVE RenderTypeOK'
  <2>1. url' \in BOOLEAN /\ status' = "complete"
    BY <1>11 DEF MarkComplete
  <2>2. draws' \in [Worker -> Context]
    BY <1>11 DEF MarkComplete, Drawn
  <2> QED
    BY <1>11, <2>1, <2>2 DEF MarkComplete, Then, calls, jobs
<1>12. ASSUME NEW w \in Worker, Retry(w) PROVE RenderTypeOK'
  BY <1>12 DEF Retry, Rest, Drawn, row, calls, Then
<1>13. ASSUME NEW w \in Worker, MarkFailed(w) PROVE RenderTypeOK'
  BY <1>13 DEF MarkFailed, Then, calls, jobs
<1>14. ASSUME NEW w \in Worker, Ack(w) PROVE RenderTypeOK'
  <2>1. received' \in [Call -> 0..MaxAttempts]
    <3>1. 0 \in 0..MaxAttempts
      OBVIOUS
    <3>2. received' = [received EXCEPT ![msg[w]] = 0]
      BY <1>14 DEF Ack
    <3> QED
      BY <3>1, <3>2
  <2>2. triggers' \subseteq Call /\ hidden' \subseteq triggers'
    BY <1>14 DEF Ack, Rest, Drawn, row, calls, Then
  <2>3. step' \in [Worker -> {"idle", "load", "assemble", "draw", "complete",
                              "failing", "ack"}]
    BY <1>14 DEF Ack, Rest, Then
  <2>4. /\ msg' \in [Worker -> Call \cup {Nobody}]
       /\ attempt' \in [Worker -> 0..MaxAttempts] /\ draws' \in [Worker -> Context]
    BY <1>14 DEF Ack, Rest, Drawn
  <2> QED
    BY <1>14, <2>1, <2>2, <2>3, <2>4 DEF Ack, row, calls
<1>15. ASSUME NEW w \in Worker, UploadRefused(w) PROVE RenderTypeOK'
  BY <1>15 DEF UploadRefused, GoesWrong, Then, row, calls, jobs
<1>16. ASSUME NEW w \in Worker, RenderFails(w) PROVE RenderTypeOK'
  <2>1. /\ Raises(w)
        /\ (spent' = spent /\ mishaps' = mishaps) \/ GoesWrong({"unwritten"})
    BY <1>16 DEF RenderFails, AssembleFails, DrawFails, ReportFails
  <2>2. spent' \in Nat /\ mishaps' \subseteq mishaps \cup {"unwritten"}
    BY <2>1 DEF GoesWrong
  <2> QED
    BY <2>1, <2>2 DEF Raises, Drawn, Then, row, calls, jobs
<1>17. ASSUME NEW w \in Worker, WorkerDies(w) PROVE RenderTypeOK'
  BY <1>17 DEF WorkerDies, GoesWrong, Rest, Drawn, row, calls, Then
<1>18. ASSUME NEW w \in Worker, VisibilityLapses(w) PROVE RenderTypeOK'
  BY <1>18 DEF VisibilityLapses, GoesWrong, row, calls, worker
<1>19. ASSUME GraceElapses PROVE RenderTypeOK'
  BY <1>19 DEF GraceElapses, GoesWrong, calls, jobs, worker
<1>21. ASSUME NEW c \in Call, RestoreStatus(c) PROVE RenderTypeOK'
  BY <1>21 DEF RestoreStatus, End, Moves, jobs, worker
<1>22. ASSUME NEW w \in Worker, AssemblePlain(w) PROVE RenderTypeOK'
  BY <1>22 DEF AssemblePlain, GoesWrong, Then, row, calls, jobs
<1>20. CASE UNCHANGED renderVars
  BY <1>20 DEF renderVars, row, calls, jobs, worker
<1> QED
  BY <1>1, <1>2, <1>3, <1>4, <1>5, <1>6, <1>7, <1>8, <1>9, <1>10,
     <1>11, <1>12, <1>13, <1>14, <1>15, <1>16, <1>17, <1>18, <1>19, <1>20,
     <1>21, <1>22
     DEF RenderNext, CallStep, WorkerStep, Progress, Mishap

-----------------------------------------------------------------------------
\* A trigger is of a call that has ended, and so is the one in a worker's hand.
PushedOnce ==
    /\ \A c \in triggers : at[c] \in {"unsent", "done"}
    /\ \A w \in Worker : /\ step[w] # "idle" => msg[w] \in Call
                         /\ msg[w] \in Call => at[msg[w]] \in {"unsent", "done"}

\* A call that would restore 'generating' has overtaken a render.
RestoresSeen ==
    \A c \in Call : /\ at[c] = "unsent" => "push" \in mishaps
                    /\ at[c] \in {"written", "unsent"} /\ prior[c] = "generating"
                          => "overtaken" \in mishaps

\* Who is about to acknowledge the trigger of the row's context has reported, or
\* a failed push has put back 'generating' since.
Reported ==
    \A w \in Worker : step[w] = "ack" /\ status = "generating" /\ ctx.by = msg[w]
                         => {"push", "overtaken"} \subseteq mishaps

\* Only a call that composed made the row read 'generating'.
Composer ==
    (status = "generating" \/ \E c \in Call : at[c] \in {"written", "unsent"})
        => ctx.by \in Call

StrandedInv == /\ RenderTypeOK /\ PushedOnce /\ RestoresSeen /\ Composer /\ Reported
               /\ StrandedNeedsAMishap

LEMMA StrandedInit == RenderInit => StrandedInv
<1> SUFFICES ASSUME RenderInit PROVE StrandedInv
  OBVIOUS
<1>1. status # "generating"
  BY DEF RenderInit
<1> QED
  BY <1>1, RenderTypesInit, RenderAssumption
     DEF RenderInit, StrandedInv, PushedOnce, RestoresSeen, Composer, Reported,
         StrandedNeedsAMishap


LEMMA PushedOnceStep ==
    ASSUME RenderTypeOK, PushedOnce, [RenderNext]_renderVars
    PROVE  PushedOnce'
<1> USE RenderAssumption DEF RenderTypeOK, PushedOnce
<1>1. ASSUME NEW c \in Call, Read(c) PROVE PushedOnce'
  BY <1>1 DEF Read, End, Enter, row, jobs, worker, Moves
<1>2. ASSUME NEW c \in Call, Conflict(c) PROVE PushedOnce'
  BY <1>2 DEF Conflict, End, row, jobs, worker, Moves
<1>3. ASSUME NEW c \in Call, Compose(c) PROVE PushedOnce'
  BY <1>3
     DEF Compose, Rewritten, Overtakes, Moves, jobs, worker, Composed,
         Recompose
<1>4. ASSUME NEW c \in Call, Push(c) PROVE PushedOnce'
  BY <1>4 DEF Push, End, row, worker, Moves
<1>5. ASSUME NEW c \in Call, TriggerFails(c) PROVE PushedOnce'
  BY <1>5 DEF TriggerFails, GoesWrong, row, worker, Moves
<1>6. ASSUME NEW c \in Call, CallDies(c) PROVE PushedOnce'
  BY <1>6 DEF CallDies, GoesWrong, End, row, jobs, worker, calls, Moves
<1>7. ASSUME NEW w \in Worker, NEW c \in Call, Receive(w, c) PROVE PushedOnce'
  BY <1>7 DEF Receive, Then, Capped, row, calls
<1>8. ASSUME NEW w \in Worker, Load(w) PROVE PushedOnce'
  BY <1>8 DEF Load, Then, row, calls, jobs
<1>9. ASSUME NEW w \in Worker, Assemble(w) PROVE PushedOnce'
  BY <1>9 DEF Assemble, Then, calls, jobs
<1>10. ASSUME NEW w \in Worker, Upload(w) PROVE PushedOnce'
  BY <1>10 DEF Upload, Then, row, calls, jobs
<1>11. ASSUME NEW w \in Worker, MarkComplete(w) PROVE PushedOnce'
  BY <1>11 DEF MarkComplete, Drawn, Then, calls, jobs
<1>12. ASSUME NEW w \in Worker, Retry(w) PROVE PushedOnce'
  BY <1>12 DEF Retry, Rest, Drawn, row, calls, Then
<1>13. ASSUME NEW w \in Worker, MarkFailed(w) PROVE PushedOnce'
  BY <1>13 DEF MarkFailed, Then, calls, jobs
<1>14. ASSUME NEW w \in Worker, Ack(w) PROVE PushedOnce'
  BY <1>14 DEF Ack, Rest, Drawn, row, calls, Then
<1>15. ASSUME NEW w \in Worker, UploadRefused(w) PROVE PushedOnce'
  BY <1>15 DEF UploadRefused, GoesWrong, Then, row, calls, jobs
<1>16. ASSUME NEW w \in Worker, RenderFails(w) PROVE PushedOnce'
  BY <1>16
     DEF RenderFails, AssembleFails, DrawFails, ReportFails, Raises, GoesWrong, Drawn, Then,
         row, calls, jobs
<1>17. ASSUME NEW w \in Worker, WorkerDies(w) PROVE PushedOnce'
  BY <1>17 DEF WorkerDies, GoesWrong, Rest, Drawn, row, calls, Then
<1>18. ASSUME NEW w \in Worker, VisibilityLapses(w) PROVE PushedOnce'
  BY <1>18 DEF VisibilityLapses, GoesWrong, row, calls, worker
<1>19. ASSUME GraceElapses PROVE PushedOnce'
  BY <1>19 DEF GraceElapses, GoesWrong, calls, jobs, worker
<1>21. ASSUME NEW c \in Call, RestoreStatus(c) PROVE PushedOnce'
  BY <1>21 DEF RestoreStatus, End, Moves, jobs, worker
<1>22. ASSUME NEW w \in Worker, AssemblePlain(w) PROVE PushedOnce'
  BY <1>22 DEF AssemblePlain, GoesWrong, Then, row, calls, jobs
<1>20. CASE UNCHANGED renderVars
  BY <1>20 DEF renderVars, row, calls, jobs, worker
<1> QED
  BY <1>1, <1>2, <1>3, <1>4, <1>5, <1>6, <1>7, <1>8, <1>9, <1>10,
     <1>11, <1>12, <1>13, <1>14, <1>15, <1>16, <1>17, <1>18, <1>19, <1>20,
     <1>21, <1>22
     DEF RenderNext, CallStep, WorkerStep, Progress, Mishap

LEMMA RestoresSeenStep ==
    ASSUME RenderTypeOK, RestoresSeen, [RenderNext]_renderVars
    PROVE  RestoresSeen'
<1> USE RenderAssumption DEF RenderTypeOK, RestoresSeen
<1>1. ASSUME NEW c \in Call, Read(c) PROVE RestoresSeen'
  BY <1>1 DEF Read, End, Enter, row, jobs, worker, Moves
<1>2. ASSUME NEW c \in Call, Conflict(c) PROVE RestoresSeen'
  BY <1>2 DEF Conflict, End, row, jobs, worker, Moves
<1>3. ASSUME NEW c \in Call, Compose(c) PROVE RestoresSeen'
  BY <1>3
     DEF Compose, Rewritten, Overtakes, Moves, jobs, worker, Composed,
         Recompose
<1>4. ASSUME NEW c \in Call, Push(c) PROVE RestoresSeen'
  BY <1>4 DEF Push, End, row, worker, Moves
<1>5. ASSUME NEW c \in Call, TriggerFails(c) PROVE RestoresSeen'
  BY <1>5 DEF TriggerFails, GoesWrong, row, worker, Moves
<1>6. ASSUME NEW c \in Call, CallDies(c) PROVE RestoresSeen'
  BY <1>6 DEF CallDies, GoesWrong, End, row, jobs, worker, calls, Moves
<1>7. ASSUME NEW w \in Worker, NEW c \in Call, Receive(w, c) PROVE RestoresSeen'
  BY <1>7 DEF Receive, Then, Capped, row, calls
<1>8. ASSUME NEW w \in Worker, Load(w) PROVE RestoresSeen'
  BY <1>8 DEF Load, Then, row, calls, jobs
<1>9. ASSUME NEW w \in Worker, Assemble(w) PROVE RestoresSeen'
  BY <1>9 DEF Assemble, Then, calls, jobs
<1>10. ASSUME NEW w \in Worker, Upload(w) PROVE RestoresSeen'
  BY <1>10 DEF Upload, Then, row, calls, jobs
<1>11. ASSUME NEW w \in Worker, MarkComplete(w) PROVE RestoresSeen'
  BY <1>11 DEF MarkComplete, Drawn, Then, calls, jobs
<1>12. ASSUME NEW w \in Worker, Retry(w) PROVE RestoresSeen'
  BY <1>12 DEF Retry, Rest, Drawn, row, calls, Then
<1>13. ASSUME NEW w \in Worker, MarkFailed(w) PROVE RestoresSeen'
  BY <1>13 DEF MarkFailed, Then, calls, jobs
<1>14. ASSUME NEW w \in Worker, Ack(w) PROVE RestoresSeen'
  BY <1>14 DEF Ack, Rest, Drawn, row, calls, Then
<1>15. ASSUME NEW w \in Worker, UploadRefused(w) PROVE RestoresSeen'
  BY <1>15 DEF UploadRefused, GoesWrong, Then, row, calls, jobs
<1>16. ASSUME NEW w \in Worker, RenderFails(w) PROVE RestoresSeen'
  BY <1>16
     DEF RenderFails, AssembleFails, DrawFails, ReportFails, Raises, GoesWrong, Drawn, Then,
         row, calls, jobs
<1>17. ASSUME NEW w \in Worker, WorkerDies(w) PROVE RestoresSeen'
  BY <1>17 DEF WorkerDies, GoesWrong, Rest, Drawn, row, calls, Then
<1>18. ASSUME NEW w \in Worker, VisibilityLapses(w) PROVE RestoresSeen'
  BY <1>18 DEF VisibilityLapses, GoesWrong, row, calls, worker
<1>19. ASSUME GraceElapses PROVE RestoresSeen'
  BY <1>19 DEF GraceElapses, GoesWrong, calls, jobs, worker
<1>21. ASSUME NEW c \in Call, RestoreStatus(c) PROVE RestoresSeen'
  BY <1>21 DEF RestoreStatus, End, Moves, jobs, worker
<1>22. ASSUME NEW w \in Worker, AssemblePlain(w) PROVE RestoresSeen'
  BY <1>22 DEF AssemblePlain, GoesWrong, Then, row, calls, jobs
<1>20. CASE UNCHANGED renderVars
  BY <1>20 DEF renderVars, row, calls, jobs, worker
<1> QED
  BY <1>1, <1>2, <1>3, <1>4, <1>5, <1>6, <1>7, <1>8, <1>9, <1>10,
     <1>11, <1>12, <1>13, <1>14, <1>15, <1>16, <1>17, <1>18, <1>19, <1>20,
     <1>21, <1>22
     DEF RenderNext, CallStep, WorkerStep, Progress, Mishap

LEMMA ComposerStep ==
    ASSUME RenderTypeOK, Composer, [RenderNext]_renderVars
    PROVE  Composer'
<1> USE RenderAssumption DEF RenderTypeOK, Composer
<1>1. ASSUME NEW c \in Call, Read(c) PROVE Composer'
  BY <1>1 DEF Read, End, Enter, row, jobs, worker, Moves
<1>2. ASSUME NEW c \in Call, Conflict(c) PROVE Composer'
  BY <1>2 DEF Conflict, End, row, jobs, worker, Moves
<1>3. ASSUME NEW c \in Call, Compose(c) PROVE Composer'
  BY <1>3
     DEF Compose, Rewritten, Overtakes, Moves, jobs, worker, Composed,
         Recompose
<1>4. ASSUME NEW c \in Call, Push(c) PROVE Composer'
  BY <1>4 DEF Push, End, row, worker, Moves
<1>5. ASSUME NEW c \in Call, TriggerFails(c) PROVE Composer'
  BY <1>5 DEF TriggerFails, GoesWrong, row, worker, Moves
<1>6. ASSUME NEW c \in Call, CallDies(c) PROVE Composer'
  BY <1>6 DEF CallDies, GoesWrong, End, row, jobs, worker, calls, Moves
<1>7. ASSUME NEW w \in Worker, NEW c \in Call, Receive(w, c) PROVE Composer'
  BY <1>7 DEF Receive, Then, Capped, row, calls
<1>8. ASSUME NEW w \in Worker, Load(w) PROVE Composer'
  BY <1>8 DEF Load, Then, row, calls, jobs
<1>9. ASSUME NEW w \in Worker, Assemble(w) PROVE Composer'
  BY <1>9 DEF Assemble, Then, calls, jobs
<1>10. ASSUME NEW w \in Worker, Upload(w) PROVE Composer'
  BY <1>10 DEF Upload, Then, row, calls, jobs
<1>11. ASSUME NEW w \in Worker, MarkComplete(w) PROVE Composer'
  BY <1>11 DEF MarkComplete, Drawn, Then, calls, jobs
<1>12. ASSUME NEW w \in Worker, Retry(w) PROVE Composer'
  BY <1>12 DEF Retry, Rest, Drawn, row, calls, Then
<1>13. ASSUME NEW w \in Worker, MarkFailed(w) PROVE Composer'
  BY <1>13 DEF MarkFailed, Then, calls, jobs
<1>14. ASSUME NEW w \in Worker, Ack(w) PROVE Composer'
  BY <1>14 DEF Ack, Rest, Drawn, row, calls, Then
<1>15. ASSUME NEW w \in Worker, UploadRefused(w) PROVE Composer'
  BY <1>15 DEF UploadRefused, GoesWrong, Then, row, calls, jobs
<1>16. ASSUME NEW w \in Worker, RenderFails(w) PROVE Composer'
  BY <1>16
     DEF RenderFails, AssembleFails, DrawFails, ReportFails, Raises, GoesWrong, Drawn, Then,
         row, calls, jobs
<1>17. ASSUME NEW w \in Worker, WorkerDies(w) PROVE Composer'
  BY <1>17 DEF WorkerDies, GoesWrong, Rest, Drawn, row, calls, Then
<1>18. ASSUME NEW w \in Worker, VisibilityLapses(w) PROVE Composer'
  BY <1>18 DEF VisibilityLapses, GoesWrong, row, calls, worker
<1>19. ASSUME GraceElapses PROVE Composer'
  BY <1>19 DEF GraceElapses, GoesWrong, calls, jobs, worker
<1>21. ASSUME NEW c \in Call, RestoreStatus(c) PROVE Composer'
  BY <1>21 DEF RestoreStatus, End, Moves, jobs, worker
<1>22. ASSUME NEW w \in Worker, AssemblePlain(w) PROVE Composer'
  BY <1>22 DEF AssemblePlain, GoesWrong, Then, row, calls, jobs
<1>20. CASE UNCHANGED renderVars
  BY <1>20 DEF renderVars, row, calls, jobs, worker
<1> QED
  BY <1>1, <1>2, <1>3, <1>4, <1>5, <1>6, <1>7, <1>8, <1>9, <1>10,
     <1>11, <1>12, <1>13, <1>14, <1>15, <1>16, <1>17, <1>18, <1>19, <1>20,
     <1>21, <1>22
     DEF RenderNext, CallStep, WorkerStep, Progress, Mishap

LEMMA ReportedStep ==
    ASSUME RenderTypeOK, PushedOnce, RestoresSeen, Reported, [RenderNext]_renderVars
    PROVE  Reported'
<1> USE RenderAssumption DEF RenderTypeOK, Reported
<1>1. ASSUME NEW c \in Call, Read(c) PROVE Reported'
  BY <1>1
     DEF Read, End, Enter, row, jobs, worker, Moves, PushedOnce, RestoresSeen
<1>2. ASSUME NEW c \in Call, Conflict(c) PROVE Reported'
  BY <1>2 DEF Conflict, End, row, jobs, worker, Moves, PushedOnce, RestoresSeen
<1>3. ASSUME NEW c \in Call, Compose(c) PROVE Reported'
  BY <1>3
     DEF Compose, Rewritten, Overtakes, Moves, jobs, worker, Composed,
         Recompose, PushedOnce, RestoresSeen
<1>4. ASSUME NEW c \in Call, Push(c) PROVE Reported'
  BY <1>4 DEF Push, End, row, worker, Moves, PushedOnce, RestoresSeen
<1>5. ASSUME NEW c \in Call, TriggerFails(c) PROVE Reported'
  BY <1>5
     DEF TriggerFails, GoesWrong, row, worker, Moves, PushedOnce,
         RestoresSeen
<1>6. ASSUME NEW c \in Call, CallDies(c) PROVE Reported'
  BY <1>6
     DEF CallDies, GoesWrong, End, row, jobs, worker, calls, Moves,
         PushedOnce, RestoresSeen
<1>7. ASSUME NEW w \in Worker, NEW c \in Call, Receive(w, c) PROVE Reported'
  BY <1>7 DEF Receive, Then, Capped, row, calls, PushedOnce, RestoresSeen
<1>8. ASSUME NEW w \in Worker, Load(w) PROVE Reported'
  BY <1>8 DEF Load, Then, row, calls, jobs, PushedOnce, RestoresSeen
<1>9. ASSUME NEW w \in Worker, Assemble(w) PROVE Reported'
  BY <1>9 DEF Assemble, Then, calls, jobs, PushedOnce, RestoresSeen
<1>10. ASSUME NEW w \in Worker, Upload(w) PROVE Reported'
  BY <1>10 DEF Upload, Then, row, calls, jobs, PushedOnce, RestoresSeen
<1>11. ASSUME NEW w \in Worker, MarkComplete(w) PROVE Reported'
  BY <1>11 DEF MarkComplete, Drawn, Then, calls, jobs, PushedOnce, RestoresSeen
<1>12. ASSUME NEW w \in Worker, Retry(w) PROVE Reported'
  BY <1>12 DEF Retry, Rest, Drawn, row, calls, Then, PushedOnce, RestoresSeen
<1>13. ASSUME NEW w \in Worker, MarkFailed(w) PROVE Reported'
  BY <1>13 DEF MarkFailed, Then, calls, jobs, PushedOnce, RestoresSeen
<1>14. ASSUME NEW w \in Worker, Ack(w) PROVE Reported'
  BY <1>14 DEF Ack, Rest, Drawn, row, calls, Then, PushedOnce, RestoresSeen
<1>15. ASSUME NEW w \in Worker, UploadRefused(w) PROVE Reported'
  BY <1>15
     DEF UploadRefused, GoesWrong, Then, row, calls, jobs, PushedOnce,
         RestoresSeen
<1>16. ASSUME NEW w \in Worker, RenderFails(w) PROVE Reported'
  BY <1>16
     DEF RenderFails, AssembleFails, DrawFails, ReportFails, Raises, GoesWrong, Drawn, Then,
         row, calls, jobs, PushedOnce, RestoresSeen
<1>17. ASSUME NEW w \in Worker, WorkerDies(w) PROVE Reported'
  BY <1>17
     DEF WorkerDies, GoesWrong, Rest, Drawn, row, calls, Then, PushedOnce,
         RestoresSeen
<1>18. ASSUME NEW w \in Worker, VisibilityLapses(w) PROVE Reported'
  BY <1>18
     DEF VisibilityLapses, GoesWrong, row, calls, worker, PushedOnce,
         RestoresSeen
<1>19. ASSUME GraceElapses PROVE Reported'
  BY <1>19
     DEF GraceElapses, GoesWrong, calls, jobs, worker, PushedOnce,
         RestoresSeen
<1>21. ASSUME NEW c \in Call, RestoreStatus(c) PROVE Reported'
  BY <1>21
     DEF RestoreStatus, End, Moves, jobs, worker, PushedOnce,
         RestoresSeen
<1>22. ASSUME NEW w \in Worker, AssemblePlain(w) PROVE Reported'
  BY <1>22
     DEF AssemblePlain, GoesWrong, Then, row, calls, jobs, PushedOnce,
         RestoresSeen
<1>20. CASE UNCHANGED renderVars
  BY <1>20 DEF renderVars, row, calls, jobs, worker, PushedOnce, RestoresSeen
<1> QED
  BY <1>1, <1>2, <1>3, <1>4, <1>5, <1>6, <1>7, <1>8, <1>9, <1>10,
     <1>11, <1>12, <1>13, <1>14, <1>15, <1>16, <1>17, <1>18, <1>19, <1>20,
     <1>21, <1>22
     DEF RenderNext, CallStep, WorkerStep, Progress, Mishap

LEMMA StrandedStep ==
    ASSUME StrandedInv, [RenderNext]_renderVars
    PROVE  StrandedNeedsAMishap'
<1> USE RenderAssumption DEF RenderTypeOK, StrandedNeedsAMishap, StrandedInv
<1>1. ASSUME NEW c \in Call, Read(c) PROVE StrandedNeedsAMishap'
  BY <1>1
     DEF Read, End, Enter, row, jobs, worker, Moves, PushedOnce, RestoresSeen,
         Reported, Composer
<1>2. ASSUME NEW c \in Call, Conflict(c) PROVE StrandedNeedsAMishap'
  BY <1>2
     DEF Conflict, End, row, jobs, worker, Moves, PushedOnce, RestoresSeen,
         Reported, Composer
<1>3. ASSUME NEW c \in Call, Compose(c) PROVE StrandedNeedsAMishap'
  BY <1>3
     DEF Compose, Rewritten, Overtakes, Moves, jobs, worker, Composed,
         Recompose, PushedOnce, RestoresSeen, Reported, Composer
<1>4. ASSUME NEW c \in Call, Push(c) PROVE StrandedNeedsAMishap'
  BY <1>4
     DEF Push, End, row, worker, Moves, PushedOnce, RestoresSeen, Reported,
         Composer
<1>5. ASSUME NEW c \in Call, TriggerFails(c) PROVE StrandedNeedsAMishap'
  BY <1>5
     DEF TriggerFails, GoesWrong, row, worker, Moves, PushedOnce,
         RestoresSeen, Reported, Composer
<1>6. ASSUME NEW c \in Call, CallDies(c) PROVE StrandedNeedsAMishap'
  BY <1>6
     DEF CallDies, GoesWrong, End, row, jobs, worker, calls, Moves,
         PushedOnce, RestoresSeen, Reported, Composer
<1>7. ASSUME NEW w \in Worker, NEW c \in Call, Receive(w, c) PROVE StrandedNeedsAMishap'
  BY <1>7
     DEF Receive, Then, Capped, row, calls, PushedOnce, RestoresSeen,
         Reported, Composer
<1>8. ASSUME NEW w \in Worker, Load(w) PROVE StrandedNeedsAMishap'
  BY <1>8
     DEF Load, Then, row, calls, jobs, PushedOnce, RestoresSeen, Reported,
         Composer
<1>9. ASSUME NEW w \in Worker, Assemble(w) PROVE StrandedNeedsAMishap'
  BY <1>9
     DEF Assemble, Then, calls, jobs, PushedOnce, RestoresSeen, Reported,
         Composer
<1>10. ASSUME NEW w \in Worker, Upload(w) PROVE StrandedNeedsAMishap'
  BY <1>10
     DEF Upload, Then, row, calls, jobs, PushedOnce, RestoresSeen, Reported,
         Composer
<1>11. ASSUME NEW w \in Worker, MarkComplete(w) PROVE StrandedNeedsAMishap'
  BY <1>11
     DEF MarkComplete, Drawn, Then, calls, jobs, PushedOnce, RestoresSeen, Reported,
         Composer
<1>12. ASSUME NEW w \in Worker, Retry(w) PROVE StrandedNeedsAMishap'
  BY <1>12
     DEF Retry, Rest, Drawn, row, calls, Then, PushedOnce, RestoresSeen, Reported,
         Composer
<1>13. ASSUME NEW w \in Worker, MarkFailed(w) PROVE StrandedNeedsAMishap'
  BY <1>13
     DEF MarkFailed, Then, calls, jobs, PushedOnce, RestoresSeen, Reported,
         Composer
<1>14. ASSUME NEW w \in Worker, Ack(w) PROVE StrandedNeedsAMishap'
  BY <1>14
     DEF Ack, Rest, Drawn, row, calls, Then, PushedOnce, RestoresSeen, Reported,
         Composer
<1>15. ASSUME NEW w \in Worker, UploadRefused(w) PROVE StrandedNeedsAMishap'
  BY <1>15
     DEF UploadRefused, GoesWrong, Then, row, calls, jobs, PushedOnce,
         RestoresSeen, Reported, Composer
<1>16. ASSUME NEW w \in Worker, RenderFails(w) PROVE StrandedNeedsAMishap'
  BY <1>16
     DEF RenderFails, AssembleFails, DrawFails, ReportFails, Raises, GoesWrong, Drawn, Then,
         row, calls, jobs, PushedOnce, RestoresSeen, Reported, Composer
<1>17. ASSUME NEW w \in Worker, WorkerDies(w) PROVE StrandedNeedsAMishap'
  BY <1>17
     DEF WorkerDies, GoesWrong, Rest, Drawn, row, calls, Then, PushedOnce,
         RestoresSeen, Reported, Composer
<1>18. ASSUME NEW w \in Worker, VisibilityLapses(w) PROVE StrandedNeedsAMishap'
  BY <1>18
     DEF VisibilityLapses, GoesWrong, row, calls, worker, PushedOnce,
         RestoresSeen, Reported, Composer
<1>19. ASSUME GraceElapses PROVE StrandedNeedsAMishap'
  BY <1>19
     DEF GraceElapses, GoesWrong, calls, jobs, worker, PushedOnce,
         RestoresSeen, Reported, Composer
<1>21. ASSUME NEW c \in Call, RestoreStatus(c) PROVE StrandedNeedsAMishap'
  BY <1>21
     DEF RestoreStatus, End, Moves, jobs, worker, PushedOnce,
         RestoresSeen, Reported, Composer
<1>22. ASSUME NEW w \in Worker, AssemblePlain(w) PROVE StrandedNeedsAMishap'
  BY <1>22
     DEF AssemblePlain, GoesWrong, Then, row, calls, jobs, PushedOnce,
         RestoresSeen, Reported, Composer
<1>20. CASE UNCHANGED renderVars
  BY <1>20
     DEF renderVars, row, calls, jobs, worker, PushedOnce, RestoresSeen,
         Reported, Composer
<1> QED
  BY <1>1, <1>2, <1>3, <1>4, <1>5, <1>6, <1>7, <1>8, <1>9, <1>10,
     <1>11, <1>12, <1>13, <1>14, <1>15, <1>16, <1>17, <1>18, <1>19, <1>20,
     <1>21, <1>22
     DEF RenderNext, CallStep, WorkerStep, Progress, Mishap

-----------------------------------------------------------------------------
\* No call has overtaken another or a render, and no push or upload has failed.
Calm == {"overtaken", "push", "upload"} \cap mishaps = {}

AsAsked(t) == t = lastText \/ Excused(t)

\* A call that redraws or edits a storybook has found one.
Stories ==
    /\ kind = "storybook" =>
          /\ status # "draft"
          /\ lastText = Nobody =>
                /\ status = "none" /\ triggers = {}
                /\ \A c \in Call : at[c] \notin {"written", "unsent"}
                /\ \A w \in Worker : step[w] = "idle"
          /\ \A c \in Call : at[c] = "read" /\ op[c] # "create" => status # "none"
    /\ kind = "tribute" => ~ctx.reuse

\* The context has the last text, or leaves it to the script, which has it.
Texts ==
    /\ ctx.reuse => lastText # Nobody /\ AsAsked(script)
    /\ ~ctx.reuse => ctx.text = lastText
    /\ kind = "storybook" /\ status \in {"complete", "failed"} => AsAsked(script)
    /\ kind = "tribute" => \A c \in Call : at[c] = "read" => basis[c] = ctx.text
    /\ \A c \in Call : at[c] # "unsent"

\* What workers draw is of the row's context, and what they report is drawn.
Films ==
    \A w \in Worker :
       /\ step[w] = "failing" /\ kind = "storybook" => AsAsked(script)
       /\ step[w] = "assemble" => draws[w] = ctx
       /\ step[w] \in {"draw", "complete"} =>
             /\ draws[w].by = ctx.by /\ AsAsked(draws[w].text)
             /\ kind = "storybook" => AsAsked(script)
       /\ step[w] = "complete" => art.by = ctx.by /\ AsAsked(art.text)

Shown == status = "complete" => art.by = ctx.by /\ AsAsked(art.text)

OutdatedInv == /\ RenderTypeOK /\ Stories
               /\ (Calm => Texts /\ Films /\ Shown)

LEMMA OutdatedInit == RenderInit => OutdatedInv
<1> SUFFICES ASSUME RenderInit PROVE OutdatedInv
  OBVIOUS
<1>1. status \notin {"complete", "failed"} /\ (kind = "storybook" => status = "none")
  BY DEF RenderInit
<1>2. ctx.reuse = FALSE /\ ctx.text = lastText
  BY DEF RenderInit, NoContext
<1>3. /\ \A c \in Call : at[c] = "idle"
      /\ \A w \in Worker : step[w] = "idle"
  BY DEF RenderInit
<1>4. triggers = {}
  BY DEF RenderInit
<1>5. Stories
  BY <1>1, <1>2, <1>3, <1>4 DEF Stories
<1>6. Texts
  BY <1>1, <1>2, <1>3 DEF Texts
<1>7. Films /\ Shown
  BY <1>1, <1>3 DEF Films, Shown
<1> QED
  BY <1>5, <1>6, <1>7, RenderTypesInit DEF OutdatedInv

\* What has gone wrong stays on record.
LEMMA CalmWasCalm == ASSUME [RenderNext]_renderVars, Calm' PROVE Calm
<1>1. mishaps \subseteq mishaps'
  <2>1. ASSUME NEW c \in Call, Read(c) PROVE mishaps \subseteq mishaps'
    BY <2>1 DEF Read
  <2>2. ASSUME NEW c \in Call, Conflict(c) PROVE mishaps \subseteq mishaps'
    BY <2>2 DEF Conflict
  <2>3. ASSUME NEW c \in Call, Compose(c) PROVE mishaps \subseteq mishaps'
    BY <2>3 DEF Compose
  <2>4. ASSUME NEW c \in Call, Push(c) PROVE mishaps \subseteq mishaps'
    BY <2>4 DEF Push
  <2>5. ASSUME NEW c \in Call, TriggerFails(c) PROVE mishaps \subseteq mishaps'
    BY <2>5 DEF TriggerFails, GoesWrong
  <2>6. ASSUME NEW c \in Call, CallDies(c) PROVE mishaps \subseteq mishaps'
    BY <2>6 DEF CallDies, GoesWrong
  <2>7. ASSUME NEW w \in Worker, NEW c \in Call, Receive(w, c) PROVE mishaps \subseteq mishaps'
    BY <2>7 DEF Receive
  <2>8. ASSUME NEW w \in Worker, Load(w) PROVE mishaps \subseteq mishaps'
    BY <2>8 DEF Load
  <2>9. ASSUME NEW w \in Worker, Assemble(w) PROVE mishaps \subseteq mishaps'
    BY <2>9 DEF Assemble
  <2>10. ASSUME NEW w \in Worker, Upload(w) PROVE mishaps \subseteq mishaps'
    BY <2>10 DEF Upload
  <2>11. ASSUME NEW w \in Worker, MarkComplete(w) PROVE mishaps \subseteq mishaps'
    BY <2>11 DEF MarkComplete
  <2>12. ASSUME NEW w \in Worker, Retry(w) PROVE mishaps \subseteq mishaps'
    BY <2>12 DEF Retry
  <2>13. ASSUME NEW w \in Worker, MarkFailed(w) PROVE mishaps \subseteq mishaps'
    BY <2>13 DEF MarkFailed
  <2>14. ASSUME NEW w \in Worker, Ack(w) PROVE mishaps \subseteq mishaps'
    BY <2>14 DEF Ack
  <2>15. ASSUME NEW w \in Worker, UploadRefused(w) PROVE mishaps \subseteq mishaps'
    BY <2>15 DEF UploadRefused, GoesWrong
  <2>16. ASSUME NEW w \in Worker, RenderFails(w) PROVE mishaps \subseteq mishaps'
    BY <2>16 DEF RenderFails, AssembleFails, DrawFails, ReportFails, Raises, GoesWrong, Drawn
  <2>17. ASSUME NEW w \in Worker, WorkerDies(w) PROVE mishaps \subseteq mishaps'
    BY <2>17 DEF WorkerDies, GoesWrong
  <2>18. ASSUME NEW w \in Worker, VisibilityLapses(w) PROVE mishaps \subseteq mishaps'
    BY <2>18 DEF VisibilityLapses, GoesWrong
  <2>19. ASSUME GraceElapses PROVE mishaps \subseteq mishaps'
    BY <2>19 DEF GraceElapses, GoesWrong
  <2>21. ASSUME NEW c \in Call, RestoreStatus(c) PROVE mishaps \subseteq mishaps'
    BY <2>21 DEF RestoreStatus
  <2>22. ASSUME NEW w \in Worker, AssemblePlain(w) PROVE mishaps \subseteq mishaps'
    BY <2>22 DEF AssemblePlain, GoesWrong
  <2>20. CASE UNCHANGED renderVars
    BY <2>20 DEF renderVars
  <2> QED
    BY <2>1, <2>2, <2>3, <2>4, <2>5, <2>6, <2>7, <2>8, <2>9, <2>10,
       <2>11, <2>12, <2>13, <2>14, <2>15, <2>16, <2>17, <2>18, <2>19, <2>20,
       <2>21, <2>22
     DEF RenderNext, CallStep, WorkerStep, Progress, Mishap
<1> QED
  BY <1>1 DEF Calm

\* A call that overtakes nothing composes while all workers and the others rest.
LEMMA ComposesAlone ==
    ASSUME NEW c \in Call, Compose(c), Calm'
    PROVE  /\ status # "generating" /\ prior[c] # "generating"
           /\ \A w \in Worker : step[w] = "idle"
           /\ \A d \in Call \ {c} : at[d] \notin {"read", "written", "unsent"}
BY DEF Compose, Overtakes, Calm


LEMMA StoriesStep ==
    ASSUME RenderTypeOK, Stories, [RenderNext]_renderVars
    PROVE  Stories'
<1> USE RenderAssumption DEF RenderTypeOK, Stories
<1>1. ASSUME NEW c \in Call, Read(c) PROVE Stories'
  BY <1>1 DEF Read, End, Enter, row, jobs, worker, Moves, Admits
<1>2. ASSUME NEW c \in Call, Conflict(c) PROVE Stories'
  BY <1>2 DEF Conflict, End, row, jobs, worker, Moves
<1>3. ASSUME NEW c \in Call, Compose(c) PROVE Stories'
  BY <1>3
     DEF Compose, Rewritten, Overtakes, Moves, jobs, worker, Composed,
         Recompose
<1>4. ASSUME NEW c \in Call, Push(c) PROVE Stories'
  BY <1>4 DEF Push, End, row, worker, Moves
<1>5. ASSUME NEW c \in Call, TriggerFails(c) PROVE Stories'
  BY <1>5 DEF TriggerFails, GoesWrong, row, worker, Moves
<1>6. ASSUME NEW c \in Call, CallDies(c) PROVE Stories'
  BY <1>6 DEF CallDies, GoesWrong, End, row, jobs, worker, calls, Moves
<1>7. ASSUME NEW w \in Worker, NEW c \in Call, Receive(w, c) PROVE Stories'
  BY <1>7 DEF Receive, Then, Capped, row, calls
<1>8. ASSUME NEW w \in Worker, Load(w) PROVE Stories'
  BY <1>8 DEF Load, Then, row, calls, jobs
<1>9. ASSUME NEW w \in Worker, Assemble(w) PROVE Stories'
  BY <1>9 DEF Assemble, Then, calls, jobs
<1>10. ASSUME NEW w \in Worker, Upload(w) PROVE Stories'
  BY <1>10 DEF Upload, Then, row, calls, jobs
<1>11. ASSUME NEW w \in Worker, MarkComplete(w) PROVE Stories'
  BY <1>11 DEF MarkComplete, Drawn, Then, calls, jobs
<1>12. ASSUME NEW w \in Worker, Retry(w) PROVE Stories'
  BY <1>12 DEF Retry, Rest, Drawn, row, calls, Then
<1>13. ASSUME NEW w \in Worker, MarkFailed(w) PROVE Stories'
  BY <1>13 DEF MarkFailed, Then, calls, jobs
<1>14. ASSUME NEW w \in Worker, Ack(w) PROVE Stories'
  BY <1>14 DEF Ack, Rest, Drawn, row, calls, Then
<1>15. ASSUME NEW w \in Worker, UploadRefused(w) PROVE Stories'
  BY <1>15 DEF UploadRefused, GoesWrong, Then, row, calls, jobs
<1>16. ASSUME NEW w \in Worker, RenderFails(w) PROVE Stories'
  BY <1>16
     DEF RenderFails, AssembleFails, DrawFails, ReportFails, Raises, GoesWrong, Drawn, Then,
         row, calls, jobs
<1>17. ASSUME NEW w \in Worker, WorkerDies(w) PROVE Stories'
  BY <1>17 DEF WorkerDies, GoesWrong, Rest, Drawn, row, calls, Then
<1>18. ASSUME NEW w \in Worker, VisibilityLapses(w) PROVE Stories'
  BY <1>18 DEF VisibilityLapses, GoesWrong, row, calls, worker
<1>19. ASSUME GraceElapses PROVE Stories'
  BY <1>19 DEF GraceElapses, GoesWrong, calls, jobs, worker
<1>21. ASSUME NEW c \in Call, RestoreStatus(c) PROVE Stories'
  BY <1>21 DEF RestoreStatus, End, Moves, jobs, worker
<1>22. ASSUME NEW w \in Worker, AssemblePlain(w) PROVE Stories'
  BY <1>22 DEF AssemblePlain, GoesWrong, Then, row, calls, jobs
<1>20. CASE UNCHANGED renderVars
  BY <1>20 DEF renderVars, row, calls, jobs, worker
<1> QED
  BY <1>1, <1>2, <1>3, <1>4, <1>5, <1>6, <1>7, <1>8, <1>9, <1>10,
     <1>11, <1>12, <1>13, <1>14, <1>15, <1>16, <1>17, <1>18, <1>19, <1>20,
     <1>21, <1>22
     DEF RenderNext, CallStep, WorkerStep, Progress, Mishap

LEMMA TextsStep ==
    ASSUME RenderTypeOK, Stories, Texts, Films, Shown, Calm', [RenderNext]_renderVars
    PROVE  Texts'
<1> USE RenderAssumption DEF RenderTypeOK, Texts, AsAsked, Excused
<1>1. ASSUME NEW c \in Call, Read(c) PROVE Texts'
  BY <1>1
     DEF Read, End, Enter, row, jobs, worker, Moves, Context, Stories, Films,
         Shown
<1>2. ASSUME NEW c \in Call, Conflict(c) PROVE Texts'
  BY <1>2
     DEF Conflict, End, row, jobs, worker, Moves, Context, Stories, Films,
         Shown
<1>3. ASSUME NEW c \in Call, Compose(c) PROVE Texts'
  <2>1. /\ status \in {"none", "draft", "complete", "failed"}
        /\ \A d \in Call \ {c} : at[d] \notin {"read", "unsent"}
    BY <1>3, ComposesAlone DEF Statuses
  <2>2. /\ ctx' = Composed(c) /\ status' = "generating"
        /\ script' = script /\ kind' = kind
        /\ lastText' = IF op[c] = "regenerate" THEN lastText ELSE c
        /\ \A d \in Call : at'[d] \notin {"read", "unsent"}
        /\ "unwritten" \in mishaps => "unwritten" \in mishaps'
        /\ at[c] = "read"
    BY <1>3, <2>1 DEF Compose, Rewritten, Moves
  <2>3. /\ ctx'.reuse = (kind = "storybook" /\ op[c] = "regenerate")
        /\ ctx'.text = IF kind = "tribute" THEN Recompose(c) ELSE c
    BY <2>2 DEF Composed
  <2>4. CASE kind = "storybook" /\ op[c] = "regenerate"
    <3>1. lastText # Nobody /\ AsAsked(script)
      BY <2>1, <2>2, <2>4 DEF Stories
    <3> QED
      BY <2>2, <2>3, <2>4, <3>1
  <2>5. CASE kind = "storybook" /\ op[c] # "regenerate"
    BY <2>2, <2>3, <2>5
  <2>6. CASE kind = "tribute"
    <3>1. basis[c] = lastText
      BY <2>2, <2>6 DEF Stories
    <3>2. ctx'.text = lastText'
      BY <2>2, <2>3, <2>6, <3>1 DEF Recompose
    <3> QED
      BY <2>2, <2>3, <2>6, <3>2
  <2> QED
    BY <2>4, <2>5, <2>6
<1>4. ASSUME NEW c \in Call, Push(c) PROVE Texts'
  BY <1>4 DEF Push, End, row, worker, Moves, Context, Stories, Films, Shown
<1>5. ASSUME NEW c \in Call, TriggerFails(c) PROVE Texts'
  BY <1>5
     DEF TriggerFails, GoesWrong, row, worker, Moves, Context, Stories,
         Films, Shown, Calm
<1>6. ASSUME NEW c \in Call, CallDies(c) PROVE Texts'
  BY <1>6
     DEF CallDies, GoesWrong, End, row, jobs, worker, calls, Moves, Context,
         Stories, Films, Shown
<1>7. ASSUME NEW w \in Worker, NEW c \in Call, Receive(w, c) PROVE Texts'
  BY <1>7 DEF Receive, Then, Capped, row, calls, Context, Stories, Films, Shown
<1>8. ASSUME NEW w \in Worker, Load(w) PROVE Texts'
  BY <1>8 DEF Load, Then, row, calls, jobs, Context, Stories, Films, Shown
<1>9. ASSUME NEW w \in Worker, Assemble(w) PROVE Texts'
  BY <1>9 DEF Assemble, Then, calls, jobs, Context, Stories, Films, Shown
<1>10. ASSUME NEW w \in Worker, Upload(w) PROVE Texts'
  BY <1>10 DEF Upload, Then, row, calls, jobs, Context, Stories, Films, Shown
<1>11. ASSUME NEW w \in Worker, MarkComplete(w) PROVE Texts'
  BY <1>11 DEF MarkComplete, Drawn, Then, calls, jobs, Context, Stories, Films, Shown
<1>12. ASSUME NEW w \in Worker, Retry(w) PROVE Texts'
  BY <1>12 DEF Retry, Rest, Drawn, row, calls, Then, Context, Stories, Films, Shown
<1>13. ASSUME NEW w \in Worker, MarkFailed(w) PROVE Texts'
  BY <1>13 DEF MarkFailed, Then, calls, jobs, Context, Stories, Films, Shown
<1>14. ASSUME NEW w \in Worker, Ack(w) PROVE Texts'
  BY <1>14 DEF Ack, Rest, Drawn, row, calls, Then, Context, Stories, Films, Shown
<1>15. ASSUME NEW w \in Worker, UploadRefused(w) PROVE Texts'
  BY <1>15
     DEF UploadRefused, GoesWrong, Then, row, calls, jobs, Context, Stories,
         Films, Shown, Calm
<1>16. ASSUME NEW w \in Worker, RenderFails(w) PROVE Texts'
  BY <1>16
     DEF RenderFails, AssembleFails, DrawFails, ReportFails, Raises, GoesWrong, Drawn, Then,
         row, calls, jobs, Context, Stories, Films, Shown
<1>17. ASSUME NEW w \in Worker, WorkerDies(w) PROVE Texts'
  BY <1>17
     DEF WorkerDies, GoesWrong, Rest, Drawn, row, calls, Then, Context, Stories,
         Films, Shown
<1>18. ASSUME NEW w \in Worker, VisibilityLapses(w) PROVE Texts'
  BY <1>18
     DEF VisibilityLapses, GoesWrong, row, calls, worker, Context, Stories,
         Films, Shown
<1>19. ASSUME GraceElapses PROVE Texts'
  BY <1>19
     DEF GraceElapses, GoesWrong, calls, jobs, worker, Context, Stories,
         Films, Shown
<1>21. ASSUME NEW c \in Call, RestoreStatus(c) PROVE Texts'
  BY <1>21
     DEF RestoreStatus, End, Moves, jobs, worker, Context, Stories,
         Films, Shown
<1>22. ASSUME NEW w \in Worker, AssemblePlain(w) PROVE Texts'
  BY <1>22
     DEF AssemblePlain, GoesWrong, Then, row, calls, jobs, Context, Stories,
         Films, Shown
<1>20. CASE UNCHANGED renderVars
  BY <1>20
     DEF renderVars, row, calls, jobs, worker, Context, Stories, Films, Shown
<1> QED
  BY <1>1, <1>2, <1>3, <1>4, <1>5, <1>6, <1>7, <1>8, <1>9, <1>10,
     <1>11, <1>12, <1>13, <1>14, <1>15, <1>16, <1>17, <1>18, <1>19, <1>20,
     <1>21, <1>22
     DEF RenderNext, CallStep, WorkerStep, Progress, Mishap

LEMMA FilmsStep ==
    ASSUME RenderTypeOK, Stories, Texts, Films, Shown, Calm', [RenderNext]_renderVars
    PROVE  Films'
<1> USE RenderAssumption DEF RenderTypeOK, Films, AsAsked, Excused
<1>1. ASSUME NEW c \in Call, Read(c) PROVE Films'
  BY <1>1
     DEF Read, End, Enter, row, jobs, worker, Moves, Context, Stories, Texts,
         Shown
<1>2. ASSUME NEW c \in Call, Conflict(c) PROVE Films'
  BY <1>2
     DEF Conflict, End, row, jobs, worker, Moves, Context, Stories, Texts,
         Shown
<1>3. ASSUME NEW c \in Call, Compose(c) PROVE Films'
  BY <1>3, ComposesAlone
     DEF Compose, Rewritten, Overtakes, Moves, jobs, worker, Composed,
         Recompose, Context, Stories, Texts, Shown
<1>4. ASSUME NEW c \in Call, Push(c) PROVE Films'
  BY <1>4 DEF Push, End, row, worker, Moves, Context, Stories, Texts, Shown
<1>5. ASSUME NEW c \in Call, TriggerFails(c) PROVE Films'
  BY <1>5
     DEF TriggerFails, GoesWrong, row, worker, Moves, Context, Stories,
         Texts, Shown, Calm
<1>6. ASSUME NEW c \in Call, CallDies(c) PROVE Films'
  BY <1>6
     DEF CallDies, GoesWrong, End, row, jobs, worker, calls, Moves, Context,
         Stories, Texts, Shown
<1>7. ASSUME NEW w \in Worker, NEW c \in Call, Receive(w, c) PROVE Films'
  BY <1>7 DEF Receive, Then, Capped, row, calls, Context, Stories, Texts, Shown
<1>8. ASSUME NEW w \in Worker, Load(w) PROVE Films'
  BY <1>8 DEF Load, Then, row, calls, jobs, Context, Stories, Texts, Shown
<1>9. ASSUME NEW w \in Worker, Assemble(w) PROVE Films'
  BY <1>9 DEF Assemble, Then, calls, jobs, Context, Stories, Texts, Shown
<1>10. ASSUME NEW w \in Worker, Upload(w) PROVE Films'
  BY <1>10 DEF Upload, Then, row, calls, jobs, Context, Stories, Texts, Shown
<1>11. ASSUME NEW w \in Worker, MarkComplete(w) PROVE Films'
  BY <1>11 DEF MarkComplete, Drawn, Then, calls, jobs, Context, Stories, Texts, Shown
<1>12. ASSUME NEW w \in Worker, Retry(w) PROVE Films'
  BY <1>12 DEF Retry, Rest, Drawn, row, calls, Then, Context, Stories, Texts, Shown
<1>13. ASSUME NEW w \in Worker, MarkFailed(w) PROVE Films'
  BY <1>13 DEF MarkFailed, Then, calls, jobs, Context, Stories, Texts, Shown
<1>14. ASSUME NEW w \in Worker, Ack(w) PROVE Films'
  BY <1>14 DEF Ack, Rest, Drawn, row, calls, Then, Context, Stories, Texts, Shown
<1>15. ASSUME NEW w \in Worker, UploadRefused(w) PROVE Films'
  BY <1>15
     DEF UploadRefused, GoesWrong, Then, row, calls, jobs, Context, Stories,
         Texts, Shown, Calm
<1>16. ASSUME NEW w \in Worker, RenderFails(w) PROVE Films'
  BY <1>16
     DEF RenderFails, AssembleFails, DrawFails, ReportFails, Raises, GoesWrong, Drawn, Then,
         row, calls, jobs, Context, Stories, Texts, Shown
<1>17. ASSUME NEW w \in Worker, WorkerDies(w) PROVE Films'
  BY <1>17
     DEF WorkerDies, GoesWrong, Rest, Drawn, row, calls, Then, Context, Stories,
         Texts, Shown
<1>18. ASSUME NEW w \in Worker, VisibilityLapses(w) PROVE Films'
  BY <1>18
     DEF VisibilityLapses, GoesWrong, row, calls, worker, Context, Stories,
         Texts, Shown
<1>19. ASSUME GraceElapses PROVE Films'
  BY <1>19
     DEF GraceElapses, GoesWrong, calls, jobs, worker, Context, Stories,
         Texts, Shown
<1>21. ASSUME NEW c \in Call, RestoreStatus(c) PROVE Films'
  BY <1>21
     DEF RestoreStatus, End, Moves, jobs, worker, Context, Stories,
         Texts, Shown
<1>22. ASSUME NEW w \in Worker, AssemblePlain(w) PROVE Films'
  BY <1>22
     DEF AssemblePlain, GoesWrong, Then, row, calls, jobs, Context, Stories,
         Texts, Shown
<1>20. CASE UNCHANGED renderVars
  BY <1>20
     DEF renderVars, row, calls, jobs, worker, Context, Stories, Texts, Shown
<1> QED
  BY <1>1, <1>2, <1>3, <1>4, <1>5, <1>6, <1>7, <1>8, <1>9, <1>10,
     <1>11, <1>12, <1>13, <1>14, <1>15, <1>16, <1>17, <1>18, <1>19, <1>20,
     <1>21, <1>22
     DEF RenderNext, CallStep, WorkerStep, Progress, Mishap

LEMMA ShownStep ==
    ASSUME RenderTypeOK, Stories, Texts, Films, Shown, Calm', [RenderNext]_renderVars
    PROVE  Shown'
<1> USE RenderAssumption DEF RenderTypeOK, Shown, AsAsked, Excused
<1>1. ASSUME NEW c \in Call, Read(c) PROVE Shown'
  BY <1>1
     DEF Read, End, Enter, row, jobs, worker, Moves, Context, Stories, Texts,
         Films
<1>2. ASSUME NEW c \in Call, Conflict(c) PROVE Shown'
  BY <1>2
     DEF Conflict, End, row, jobs, worker, Moves, Context, Stories, Texts,
         Films
<1>3. ASSUME NEW c \in Call, Compose(c) PROVE Shown'
  BY <1>3, ComposesAlone
     DEF Compose, Rewritten, Overtakes, Moves, jobs, worker, Composed,
         Recompose, Context, Stories, Texts, Films
<1>4. ASSUME NEW c \in Call, Push(c) PROVE Shown'
  BY <1>4 DEF Push, End, row, worker, Moves, Context, Stories, Texts, Films
<1>5. ASSUME NEW c \in Call, TriggerFails(c) PROVE Shown'
  BY <1>5
     DEF TriggerFails, GoesWrong, row, worker, Moves, Context, Stories,
         Texts, Films, Calm
<1>6. ASSUME NEW c \in Call, CallDies(c) PROVE Shown'
  BY <1>6
     DEF CallDies, GoesWrong, End, row, jobs, worker, calls, Moves, Context,
         Stories, Texts, Films
<1>7. ASSUME NEW w \in Worker, NEW c \in Call, Receive(w, c) PROVE Shown'
  BY <1>7 DEF Receive, Then, Capped, row, calls, Context, Stories, Texts, Films
<1>8. ASSUME NEW w \in Worker, Load(w) PROVE Shown'
  BY <1>8 DEF Load, Then, row, calls, jobs, Context, Stories, Texts, Films
<1>9. ASSUME NEW w \in Worker, Assemble(w) PROVE Shown'
  BY <1>9 DEF Assemble, Then, calls, jobs, Context, Stories, Texts, Films
<1>10. ASSUME NEW w \in Worker, Upload(w) PROVE Shown'
  BY <1>10 DEF Upload, Then, row, calls, jobs, Context, Stories, Texts, Films
<1>11. ASSUME NEW w \in Worker, MarkComplete(w) PROVE Shown'
  BY <1>11 DEF MarkComplete, Drawn, Then, calls, jobs, Context, Stories, Texts, Films
<1>12. ASSUME NEW w \in Worker, Retry(w) PROVE Shown'
  BY <1>12 DEF Retry, Rest, Drawn, row, calls, Then, Context, Stories, Texts, Films
<1>13. ASSUME NEW w \in Worker, MarkFailed(w) PROVE Shown'
  BY <1>13 DEF MarkFailed, Then, calls, jobs, Context, Stories, Texts, Films
<1>14. ASSUME NEW w \in Worker, Ack(w) PROVE Shown'
  BY <1>14 DEF Ack, Rest, Drawn, row, calls, Then, Context, Stories, Texts, Films
<1>15. ASSUME NEW w \in Worker, UploadRefused(w) PROVE Shown'
  BY <1>15
     DEF UploadRefused, GoesWrong, Then, row, calls, jobs, Context, Stories,
         Texts, Films, Calm
<1>16. ASSUME NEW w \in Worker, RenderFails(w) PROVE Shown'
  BY <1>16
     DEF RenderFails, AssembleFails, DrawFails, ReportFails, Raises, GoesWrong, Drawn, Then,
         row, calls, jobs, Context, Stories, Texts, Films
<1>17. ASSUME NEW w \in Worker, WorkerDies(w) PROVE Shown'
  BY <1>17
     DEF WorkerDies, GoesWrong, Rest, Drawn, row, calls, Then, Context, Stories,
         Texts, Films
<1>18. ASSUME NEW w \in Worker, VisibilityLapses(w) PROVE Shown'
  BY <1>18
     DEF VisibilityLapses, GoesWrong, row, calls, worker, Context, Stories,
         Texts, Films
<1>19. ASSUME GraceElapses PROVE Shown'
  BY <1>19
     DEF GraceElapses, GoesWrong, calls, jobs, worker, Context, Stories,
         Texts, Films
<1>21. ASSUME NEW c \in Call, RestoreStatus(c) PROVE Shown'
  BY <1>21
     DEF RestoreStatus, End, Moves, jobs, worker, Context, Stories,
         Texts, Films
<1>22. ASSUME NEW w \in Worker, AssemblePlain(w) PROVE Shown'
  BY <1>22
     DEF AssemblePlain, GoesWrong, Then, row, calls, jobs, Context, Stories,
         Texts, Films
<1>20. CASE UNCHANGED renderVars
  BY <1>20
     DEF renderVars, row, calls, jobs, worker, Context, Stories, Texts, Films
<1> QED
  BY <1>1, <1>2, <1>3, <1>4, <1>5, <1>6, <1>7, <1>8, <1>9, <1>10,
     <1>11, <1>12, <1>13, <1>14, <1>15, <1>16, <1>17, <1>18, <1>19, <1>20,
     <1>21, <1>22
     DEF RenderNext, CallStep, WorkerStep, Progress, Mishap

LEMMA OutdatedStep == ASSUME OutdatedInv, [RenderNext]_renderVars PROVE OutdatedInv'
<1>1. RenderTypeOK' /\ Stories'
  BY RenderTypesStep, StoriesStep DEF OutdatedInv
<1>2. ASSUME Calm' PROVE Texts' /\ Films' /\ Shown'
  <2>1. Texts /\ Films /\ Shown
    BY <1>2, CalmWasCalm DEF OutdatedInv
  <2> QED
    BY <1>2, <2>1, TextsStep, FilmsStep, ShownStep DEF OutdatedInv
<1> QED
  BY <1>1, <1>2 DEF OutdatedInv

\* The row, the calls and the workers of a storybook or tribute keep their shape.
THEOREM RenderTypesHold == RenderSpec => []RenderTypeOK
<1>1. RenderTypeOK /\ [RenderNext]_renderVars => RenderTypeOK'
  BY RenderTypesStep
<1> QED
  BY <1>1, RenderTypesInit, PTL DEF RenderSpec

\* A row reads 'generating' with no trigger to come or to be read only after a
\* crash before the push, or a failed push that put 'generating' back over a
\* render it had superseded (the routes push after their commit, and restore the
\* status they read).
THEOREM NoRowIsStranded == RenderSpec => []StrandedNeedsAMishap
<1>1. StrandedInv /\ [RenderNext]_renderVars => StrandedInv'
  BY RenderTypesStep, PushedOnceStep, RestoresSeenStep, ComposerStep,
     ReportedStep, StrandedStep
     DEF StrandedInv
<1>2. StrandedInv => StrandedNeedsAMishap
  BY DEF StrandedInv
<1> QED
  BY <1>1, <1>2, StrandedInit, PTL DEF RenderSpec

\* A finished row shows its newest composition with the last text asked for,
\* whatever workers die and triggers are repeated, unless calls overtook each
\* other or a render, or a push or an upload failed (composed_at is compared once,
\* when the trigger is loaded); and its text, unless the LLM wrote none (a
\* storybook then keeps an older script, a tribute shows the plain book).
THEOREM FinishedRowsAreCurrent == RenderSpec => []OutdatedNeedsOvertaking
<1>1. OutdatedInv /\ [RenderNext]_renderVars => OutdatedInv'
  BY OutdatedStep
<1>2. OutdatedInv => OutdatedNeedsOvertaking
  BY DEF OutdatedInv, Calm, Shown, AsAsked, Excused, OutdatedNeedsOvertaking
<1> QED
  BY <1>1, <1>2, OutdatedInit, PTL DEF RenderSpec
=============================================================================
