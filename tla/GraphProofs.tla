---------------------------- MODULE GraphProofs ----------------------------
(***************************************************************************)
(* Proofs about the writers of the knowledge graph: ThreadQuestions for any *)
(* extractions, patterns, workers, cadence and cluster size, and GraphEdits *)
(* for any writers, scanners, names and bounds.                             *)
(***************************************************************************)
EXTENDS ThreadQuestions, GraphEdits, FiniteSetTheorems, WellFoundedInduction,
        TLAPS

(* The thread detector and the questions it asks.                           *)

Places == {"idle", "check", "next", "matched", "proposed", "push", "linked", "ack"}

\* A worker has a cluster in work, or the thread of one.
AtWork == {"matched", "proposed", "push", "linked"}

\* What a worker holds at each place.
HoldsAt(w) ==
    /\ at[w] # "idle" => msg[w] \in moments
    /\ at[w] \in {"idle", "check", "ack"} => todo[w] = {}
    /\ at[w] \in AtWork => current[w] \in Pattern /\ current[w] \notin todo[w]
    /\ at[w] \in {"matched", "push", "linked"} => match[w] \in Thread
    /\ match[w] # None => at[w] \in AtWork /\ thread[match[w]] = current[w]

\* What is sent is there, what is dismissed is a pattern.
SetsTyped ==
    /\ queue \subseteq moments /\ outbox \subseteq moments
    /\ reopened \subseteq Pattern /\ crossed \subseteq Pattern

TypeInv ==
    /\ TypeOK /\ SetsTyped
    /\ \A w \in Worker : HoldsAt(w)

LEMMA MomentsAreFinite ==
    ASSUME TypeOK
    PROVE  /\ IsFiniteSet(moments) /\ Cardinality(moments) \in Nat
           /\ \A e \in Extraction \ moments :
                 Cardinality(moments \cup {e}) = Cardinality(moments) + 1
<1>1. IsFiniteSet(moments)
  BY ConstantsAssumption, FS_Subset DEF TypeOK
<1> QED BY <1>1, FS_CardinalityType, FS_AddElement

LEMMA GotoTyped ==
    ASSUME TypeOK, NEW w \in Worker, NEW s \in Places, Goto(w, s)
    PROVE  at' \in [Worker -> Places]
BY DEF TypeOK, Goto, Places

LEMMA DoneTyped ==
    ASSUME TypeOK, NEW w \in Worker, NEW p \in BOOLEAN, Done(w, p)
    PROVE  /\ at' \in [Worker -> Places]
           /\ current' \in [Worker -> Pattern \cup {None}]
           /\ match' \in [Worker -> Thread \cup {None}]
           /\ asks' \in [Worker -> BOOLEAN] /\ worked' \in [Worker -> BOOLEAN]
<1>1. worked' \in [Worker -> BOOLEAN]
  <2>1. (worked[w] \/ p) \in BOOLEAN
    OBVIOUS
  <2> QED BY <2>1 DEF TypeOK, Done
<1> QED BY <1>1 DEF TypeOK, Done, Goto, Places

LEMMA ForgetTyped ==
    ASSUME TypeOK, NEW w \in Worker, Forget(w)
    PROVE  /\ at' \in [Worker -> Places]
           /\ msg' \in [Worker -> Extraction \cup {None}]
           /\ todo' \in [Worker -> SUBSET Pattern]
           /\ current' \in [Worker -> Pattern \cup {None}]
           /\ match' \in [Worker -> Thread \cup {None}]
           /\ asks' \in [Worker -> BOOLEAN] /\ worked' \in [Worker -> BOOLEAN]
BY DEF TypeOK, Forget, Goto, Places

\* A new thread has an id of its own, a known one keeps its pattern, and a
\* proposal is numbered within the bound.
LEMMA CommitWrites ==
    ASSUME TypeInv, NEW w \in Worker, CommitCluster(w)
    PROVE  \E t \in Thread :
              /\ match[w] # None => t = match[w] /\ thread[t] = current[w]
              /\ match[w] = None => thread[t] = None
              /\ current[w] \in Pattern
              /\ thread' = [thread EXCEPT ![t] = current[w]]
              /\ match' = [match EXCEPT ![w] = t]
              /\ \/ ~asks[w] /\ questions' = questions
                 \/ asks[w] /\ \E b \in 1 .. MaxProposals, n \in 1 .. MaxProposed :
                       questions' = questions \cup ({t} \X {b} \X (1 .. n))
<1>1. /\ TypeOK /\ HoldsAt(w) /\ at[w] = "proposed" /\ match[w] \in Thread \cup {None}
      /\ asks[w] \in BOOLEAN
  BY DEF TypeInv, TypeOK, CommitCluster
<1>2. current[w] \in Pattern
  BY <1>1 DEF HoldsAt, AtWork
<1> DEFINE free == {t \in Thread : thread[t] = None}
           t    == IF match[w] # None THEN match[w] ELSE CHOOSE u \in free : TRUE
           Q    == {q[2] : q \in {r \in questions : r[1] = t}}
           P    == {<<q[1], q[2]>> : q \in questions}
<1>3. /\ match[w] = None => free # {}
      /\ asks[w] => Cardinality(P) < MaxProposals
      /\ thread' = [thread EXCEPT ![t] = current[w]]
      /\ \E n \in 1 .. MaxProposed :
            questions' = IF asks[w] THEN questions \cup ({t} \X {1 + Cardinality(Q)} \X (1 .. n))
                         ELSE questions
      /\ match' = [match EXCEPT ![w] = t]
  BY DEF CommitCluster
<1>4. /\ t \in Thread
      /\ match[w] # None => t = match[w] /\ thread[t] = current[w]
      /\ match[w] = None => thread[t] = None
  <2>1. CASE match[w] = None
    BY <1>3, <2>1
  <2>2. CASE match[w] # None
    BY <1>1, <2>2 DEF HoldsAt
  <2> QED BY <2>1, <2>2
<1>5. /\ IsFiniteSet(P) /\ Cardinality(P) \in Nat
      /\ Cardinality(Q) \in Nat /\ Cardinality(Q) <= Cardinality(P)
  <2>1. ASSUME NEW q \in questions PROVE <<q[1], q[2]>> \in Thread \X (1 .. MaxProposals)
    <3>1. q \in Thread \X (1 .. MaxProposals) \X (1 .. MaxProposed)
      BY <1>1 DEF TypeOK, Question
    <3> QED BY <3>1
  <2>2. IsFiniteSet(Thread \X (1 .. MaxProposals))
    <3>1. MaxThread \in Int /\ MaxProposals \in Int /\ 1 \in Int
      BY ConstantsAssumption
    <3>2. IsFiniteSet(1 .. MaxThread) /\ IsFiniteSet(1 .. MaxProposals)
      BY <3>1, FS_Interval
    <3> QED BY <3>2, FS_Product DEF Thread
  <2>3. IsFiniteSet(P) /\ Cardinality(P) \in Nat
    <3>1. P \subseteq Thread \X (1 .. MaxProposals)
      BY <2>1
    <3> QED BY <2>2, <3>1, FS_Subset, FS_CardinalityType
  <2> DEFINE PT == {x \in P : x[1] = t}
             f  == [x \in PT |-> x[2]]
  <2>4. IsFiniteSet(PT) /\ Cardinality(PT) <= Cardinality(P) /\ Cardinality(PT) \in Nat
    BY <2>3, FS_Subset, FS_CardinalityType
  <2>5. f \in Surjection(PT, Q)
    <3>1. ASSUME NEW x \in PT PROVE f[x] \in Q
      <4>1. PICK q \in questions : x = <<q[1], q[2]>>
        OBVIOUS
      <4>2. x[1] = q[1] /\ x[2] = q[2] /\ x[1] = t
        BY <4>1
      <4> QED BY <4>2
    <3>2. ASSUME NEW y \in Q PROVE \E x \in PT : f[x] = y
      <4>1. PICK q \in questions : q[1] = t /\ y = q[2]
        OBVIOUS
      <4>2. <<q[1], q[2]>> \in PT
        BY <4>1
      <4>3. f[<<q[1], q[2]>>] = y
        BY <4>1, <4>2
      <4> QED BY <4>2, <4>3
    <3> QED BY <3>1, <3>2 DEF Surjection
  <2>6. IsFiniteSet(Q) /\ Cardinality(Q) <= Cardinality(PT)
    BY <2>4, <2>5, FS_Surjection
  <2>7. Cardinality(Q) \in Nat
    BY <2>6, FS_CardinalityType
  <2> HIDE DEF P, Q, PT
  <2> QED BY <2>3, <2>4, <2>6, <2>7
<1>6. \/ ~asks[w] /\ questions' = questions
      \/ asks[w] /\ \E b \in 1 .. MaxProposals, n \in 1 .. MaxProposed :
            questions' = questions \cup ({t} \X {b} \X (1 .. n))
  <2>1. CASE ~asks[w]
    BY <1>3, <2>1
  <2>2. CASE asks[w]
    <3>1. 1 + Cardinality(Q) \in 1 .. MaxProposals
      <4> HIDE DEF P, Q
      <4> QED BY <1>3, <1>5, <2>2, ConstantsAssumption
    <3> QED BY <1>3, <2>2, <3>1
  <2> QED BY <1>1, <2>1, <2>2
<1> HIDE DEF t
<1> QED BY <1>2, <1>3, <1>4, <1>6

-----------------------------------------------------------------------------
(* Types.                                                                   *)

SendStep(e)    == SendTrigger(e) \/ SendUnmarked(e) \/ GiveUpTrigger(e)
ExtractStep(e) == CountMoments(e) \/ CommitMoment(e) \/ SendStep(e)

LEMMA ExtractTyped ==
    ASSUME TypeInv, NEW e \in Extraction, ExtractStep(e)
    PROVE  TypeOK' /\ SetsTyped'
<1> USE DEF worker, bank, dismissals
<1>0. /\ TypeOK /\ SetsTyped /\ ext \in [Extraction -> {"idle", "counted", "done"}]
      /\ saw \in [Extraction -> BOOLEAN] /\ moments \subseteq Extraction
      /\ Cardinality(moments) \in Nat /\ stamp \in 0 .. Cardinality(moments)
      /\ Cadence \in Nat /\ faults \in 0 .. MaxFaults /\ MaxFaults \in Nat
  BY MomentsAreFinite, ConstantsAssumption DEF TypeInv, TypeOK
<1>1. CASE CountMoments(e)
  <2>1. ext' \in [Extraction -> {"idle", "counted", "done"}]
    BY <1>0, <1>1 DEF CountMoments
  <2>2. saw' \in [Extraction -> BOOLEAN]
    <3>1. Due(Cardinality(moments) + 1) \in BOOLEAN
      BY DEF Due
    <3> QED BY <1>0, <1>1, <3>1 DEF CountMoments
  <2>3. SetsTyped'
    BY <1>0, <1>1 DEF CountMoments, SetsTyped
  <2> QED BY <1>0, <1>1, <2>1, <2>2, <2>3 DEF TypeOK, CountMoments
<1>2. CASE CommitMoment(e)
  <2>1. ext' \in [Extraction -> {"idle", "counted", "done"}] /\ saw' \in [Extraction -> BOOLEAN]
    BY <1>0, <1>2 DEF CommitMoment
  <2>2. answered' \subseteq questions
    BY <1>0, <1>2 DEF CommitMoment, TypeOK
  <2>3. moments' = moments \cup {e} /\ stamp' = stamp
    BY <1>2 DEF CommitMoment
  <2>4. moments' \subseteq Extraction /\ SetsTyped' /\ outbox' \subseteq Extraction
    BY <1>0, <1>2, <2>3 DEF CommitMoment, SetsTyped
  <2>5. stamp' \in 0 .. Cardinality(moments')
    <3>1. CASE e \in moments
      <4>1. moments' = moments
        BY <2>3, <3>1
      <4> QED BY <1>0, <2>3, <4>1
    <3>2. CASE e \notin moments
      <4>1. Cardinality(moments') = Cardinality(moments) + 1
        BY <1>0, <2>3, <3>2, MomentsAreFinite
      <4> QED BY <1>0, <2>3, <4>1
    <3> QED BY <3>1, <3>2
  <2> QED BY <1>0, <1>2, <2>1, <2>2, <2>4, <2>5 DEF TypeOK, CommitMoment
<1>3. CASE SendStep(e)
  <2>1. /\ faults' \in 0 .. MaxFaults
        /\ UNCHANGED <<ext, saw, moments, stamp, worker, thread, vector, bank, dismissals>>
        /\ queue' \subseteq queue \cup outbox /\ outbox' \subseteq outbox
    BY <1>0, <1>3 DEF SendStep, SendTrigger, SendUnmarked, GiveUpTrigger, Fault, extracting
  <2>2. SetsTyped'
    BY <1>0, <2>1 DEF SetsTyped
  <2> QED BY <1>0, <2>1, <2>2 DEF TypeOK, SetsTyped
<1> QED BY <1>1, <1>2, <1>3 DEF ExtractStep

LEMMA DecideTyped ==
    ASSUME TypeInv, NEW q \in Question, Decide(q)
    PROVE  TypeOK' /\ SetsTyped'
<1> USE DEF worker, extracting
<1>0. TypeOK /\ SetsTyped /\ q \in questions /\ q[1] \in Thread /\ thread[q[1]] # None
  BY DEF TypeInv, TypeOK, Decide, Question
<1>1. thread[q[1]] \in Pattern
  BY <1>0 DEF TypeOK
<1>2. crossed' \subseteq Pattern
  BY <1>0, <1>1 DEF Decide, Suppress, SkipOrLift, SetsTyped
<1>3. SetsTyped'
  BY <1>0, <1>2 DEF Decide, SetsTyped
<1> QED BY <1>0, <1>3 DEF TypeOK, Decide, Suppress, SkipOrLift

LEMMA EmbedThreadTyped ==
    ASSUME TypeInv, NEW t \in Thread, EmbedThread(t)
    PROVE  TypeOK' /\ SetsTyped'
BY DEF TypeInv, TypeOK, SetsTyped, EmbedThread, worker, extracting, bank, dismissals

LEMMA RunTyped ==
    ASSUME TypeInv, NEW w \in Worker, Run(w)
    PROVE  TypeOK' /\ SetsTyped'
<1> USE DEF extracting, bank, Places
<1>0. /\ TypeOK /\ SetsTyped /\ queue \subseteq moments /\ HoldsAt(w)
      /\ moments \subseteq Extraction /\ Cardinality(moments) \in Nat
      /\ faults \in 0 .. MaxFaults /\ MaxFaults \in Nat
  BY MomentsAreFinite, ConstantsAssumption DEF TypeInv, TypeOK, SetsTyped
<1>f. ASSUME Fault PROVE faults' \in 0 .. MaxFaults
  BY <1>0, <1>f DEF Fault
<1>q. ASSUME UNCHANGED <<moments, outbox, crossed>>, queue' \subseteq moments,
             reopened' \subseteq Pattern
      PROVE  SetsTyped'
  BY <1>0, <1>q DEF SetsTyped
<1>s. ASSUME UNCHANGED <<extracting, queue, dismissals>> PROVE SetsTyped'
  BY <1>0, <1>s DEF SetsTyped, dismissals
<1>1. CASE Receive(w)
  <2>1. at' \in [Worker -> Places]
    BY <1>0, <1>1, GotoTyped DEF Receive
  <2>2. msg' \in [Worker -> Extraction \cup {None}] /\ queue' \subseteq moments
    BY <1>0, <1>1 DEF Receive, TypeOK
  <2>3. SetsTyped'
    BY <1>0, <1>1, <1>q, <2>2 DEF Receive, dismissals, SetsTyped
  <2> QED BY <1>0, <1>1, <2>1, <2>2, <2>3 DEF TypeOK, Receive
<1>2. CASE Check(w)
  <2>1. at' \in [Worker -> Places]
    BY <1>0, <1>2, GotoTyped DEF Check
  <2>2. todo' \in [Worker -> SUBSET Pattern]
    <3>1. todo' = todo \/ \E E \in Clusterable : todo' = [todo EXCEPT ![w] = Clusters(E)]
      BY <1>2 DEF Check
    <3>2. \A E \in Clusterable : Clusters(E) \subseteq Pattern
      BY DEF Clusters
    <3> QED BY <1>0, <3>1, <3>2 DEF TypeOK
  <2>3. worked' \in [Worker -> BOOLEAN]
    BY <1>0, <1>2 DEF Check, TypeOK
  <2>4. SetsTyped'
    BY <1>2, <1>s DEF Check
  <2> QED BY <1>0, <1>2, <2>1, <2>2, <2>3, <2>4 DEF TypeOK, Check
<1>3. CASE MatchThread(w)
  <2>1. PICK p \in todo[w], t \in Thread \cup {None} :
           /\ at' = [at EXCEPT ![w] = "proposed"] \/ at' = [at EXCEPT ![w] = "matched"]
           /\ current' = [current EXCEPT ![w] = p]
           /\ todo' = [todo EXCEPT ![w] = @ \ {p}]
           /\ match' = [match EXCEPT ![w] = t]
           /\ asks' = [asks EXCEPT ![w] = TRUE] \/ asks' = [asks EXCEPT ![w] = FALSE]
    BY <1>3 DEF MatchThread, Goto
  <2>2. p \in Pattern
    BY <1>0 DEF TypeOK
  <2>3. SetsTyped'
    BY <1>3, <1>s DEF MatchThread
  <2> QED BY <1>0, <1>3, <2>1, <2>2, <2>3 DEF TypeOK, MatchThread
<1>4. CASE Propose(w)
  <2>1. at' \in [Worker -> Places]
    BY <1>0, <1>4, GotoTyped DEF Propose
  <2>2. asks' \in [Worker -> BOOLEAN]
    <3>1. asks' = [asks EXCEPT ![w] = ~SpokenFor(match[w])]
      BY <1>4 DEF Propose
    <3>2. CASE SpokenFor(match[w])
      BY <1>0, <3>1, <3>2 DEF TypeOK
    <3>3. CASE ~SpokenFor(match[w])
      BY <1>0, <3>1, <3>3 DEF TypeOK
    <3> QED BY <3>2, <3>3
  <2>3. SetsTyped'
    BY <1>4, <1>s DEF Propose
  <2> QED BY <1>0, <1>4, <2>1, <2>2, <2>3 DEF TypeOK, Propose
<1>5. CASE Incoherent(w)
  <2>1. SetsTyped'
    BY <1>5, <1>s DEF Incoherent
  <2> QED BY <1>0, <1>5, <2>1, DoneTyped DEF TypeOK, Incoherent
<1>6. CASE ClusterFails(w)
  <2>1. SetsTyped'
    BY <1>6, <1>s DEF ClusterFails
  <2> QED BY <1>0, <1>6, <1>f, <2>1, DoneTyped DEF TypeOK, ClusterFails
<1>7. CASE CommitCluster(w)
  <2>1. at' \in [Worker -> Places]
    <3>1. at' = [at EXCEPT ![w] = "push"] \/ at' = [at EXCEPT ![w] = "linked"]
      BY <1>7 DEF CommitCluster, Goto
    <3> QED BY <1>0, <3>1 DEF TypeOK
  <2>2. PICK t \in Thread :
           /\ current[w] \in Pattern
           /\ thread' = [thread EXCEPT ![t] = current[w]]
           /\ match' = [match EXCEPT ![w] = t]
           /\ \/ questions' = questions
              \/ \E b \in 1 .. MaxProposals, n \in 1 .. MaxProposed :
                    questions' = questions \cup ({t} \X {b} \X (1 .. n))
    BY <1>7, CommitWrites
  <2>3. thread' \in [Thread -> Pattern \cup {None}] /\ match' \in [Worker -> Thread \cup {None}]
    BY <1>0, <2>2 DEF TypeOK
  <2>4. /\ questions \subseteq questions' /\ questions' \subseteq Question
        /\ \A q \in questions' : q \in questions \/ q[1] = t
    <3>1. CASE questions' = questions
      BY <1>0, <3>1 DEF TypeOK
    <3>2. ASSUME NEW b \in 1 .. MaxProposals, NEW n \in 1 .. MaxProposed,
                 questions' = questions \cup ({t} \X {b} \X (1 .. n))
          PROVE  /\ questions \subseteq questions' /\ questions' \subseteq Question
                 /\ \A q \in questions' : q \in questions \/ q[1] = t
      <4>1. \A i \in 1 .. n : i \in 1 .. MaxProposed
        BY ConstantsAssumption
      <4>2. ASSUME NEW q \in {t} \X {b} \X (1 .. n) PROVE q \in Question /\ q[1] = t
        BY <4>1 DEF Question
      <4> QED BY <1>0, <3>2, <4>2 DEF TypeOK
    <3> QED BY <2>2, <3>1, <3>2
  <2>5. \A q \in questions' : thread'[q[1]] # None
    <3>1. thread'[t] # None
      BY <1>0, <2>2, ConstantsAssumption DEF TypeOK
    <3>2. ASSUME NEW q \in questions, q[1] # t PROVE thread'[q[1]] # None
      BY <1>0, <2>2, <3>2 DEF TypeOK, Question
    <3> QED BY <2>4, <3>1, <3>2
  <2>6. SetsTyped'
    <3>1. reopened' \subseteq Pattern
      BY <1>0, <1>7, <2>2 DEF CommitCluster, SetsTyped
    <3> QED BY <1>0, <1>7, <1>q, <3>1 DEF CommitCluster
  <2> QED BY <1>0, <1>7, <2>1, <2>3, <2>4, <2>5, <2>6 DEF TypeOK, CommitCluster
<1>8. CASE PushJobs(w)
  <2>1. vector' \in [Thread -> {"none", "queued", "known"}]
    BY <1>0, <1>8 DEF TypeOK, PushJobs
  <2>2. SetsTyped'
    BY <1>8, <1>s DEF PushJobs
  <2> QED BY <1>0, <1>8, <2>1, <2>2, DoneTyped DEF TypeOK, PushJobs
<1>9. CASE PushFails(w)
  <2>1. SetsTyped'
    BY <1>9, <1>s DEF PushFails
  <2> QED BY <1>0, <1>9, <1>f, <2>1, DoneTyped DEF TypeOK, PushFails
<1>10. CASE Stamp(w)
  <2>1. at' \in [Worker -> Places]
    BY <1>0, <1>10, GotoTyped DEF Stamp
  <2>2. stamp' \in 0 .. Cardinality(moments)
    BY <1>0, <1>10 DEF Stamp, TypeOK
  <2>3. SetsTyped'
    BY <1>10, <1>s DEF Stamp
  <2> QED BY <1>0, <1>10, <2>1, <2>2, <2>3 DEF TypeOK, Stamp
<1>11. CASE Ack(w)
  <2>1. SetsTyped'
    BY <1>0, <1>11, <1>q DEF Ack, dismissals, SetsTyped
  <2>2. queue' \subseteq Extraction
    BY <1>0, <1>11 DEF Ack
  <2> QED BY <1>0, <1>11, <2>1, <2>2, ForgetTyped DEF TypeOK, Ack
<1>12. CASE Die(w)
  <2>1. queue' \subseteq moments
    BY <1>0, <1>12 DEF Die, HoldsAt
  <2>2. SetsTyped'
    BY <1>0, <1>12, <1>q, <2>1 DEF Die, dismissals, SetsTyped
  <2> QED BY <1>0, <1>12, <1>f, <2>1, <2>2, ForgetTyped DEF TypeOK, Die
<1>13. CASE Lapse(w)
  <2>1. queue' \subseteq moments
    BY <1>0, <1>13 DEF Lapse, Running, HoldsAt
  <2>2. SetsTyped'
    BY <1>0, <1>13, <1>q, <2>1 DEF Lapse, dismissals, SetsTyped
  <2> QED BY <1>0, <1>13, <1>f, <2>1, <2>2 DEF TypeOK, Lapse, worker
<1> QED BY <1>1, <1>2, <1>3, <1>4, <1>5, <1>6, <1>7, <1>8, <1>9, <1>10, <1>11, <1>12, <1>13
        DEF Run, ProcessCluster

-----------------------------------------------------------------------------
(* What a worker holds.                                                     *)

LEMMA WorkersApart ==
    ASSUME TypeOK, NEW w \in Worker, Run(w)
    PROVE  \A v \in Worker \ {w} :
              /\ at'[v] = at[v] /\ msg'[v] = msg[v] /\ todo'[v] = todo[v]
              /\ current'[v] = current[v] /\ match'[v] = match[v] /\ asks'[v] = asks[v]
              /\ worked'[v] = worked[v]
<1> USE DEF Goto, Done, Forget, worker
<1>1. /\ at \in [Worker -> Places] /\ msg \in [Worker -> Extraction \cup {None}]
      /\ todo \in [Worker -> SUBSET Pattern] /\ current \in [Worker -> Pattern \cup {None}]
      /\ match \in [Worker -> Thread \cup {None}]
      /\ asks \in [Worker -> BOOLEAN] /\ worked \in [Worker -> BOOLEAN]
  BY DEF TypeOK, Places
<1>2. CASE Receive(w) \/ Check(w) \/ Stamp(w) \/ Ack(w) \/ Die(w) \/ Lapse(w)
  BY <1>1, <1>2 DEF Receive, Check, Stamp, Ack, Die, Lapse
<1>3. CASE MatchThread(w)
  <2>1. UNCHANGED <<msg, worked>>
    BY <1>3 DEF MatchThread
  <2>2. PICK p \in todo[w] :
           /\ current' = [current EXCEPT ![w] = p]
           /\ todo' = [todo EXCEPT ![w] = @ \ {p}]
           /\ \E t : match' = [match EXCEPT ![w] = t]
           /\ \E b : asks' = [asks EXCEPT ![w] = b]
           /\ \E s : at' = [at EXCEPT ![w] = s]
    BY <1>3 DEF MatchThread
  <2>3. \A v \in Worker \ {w} : match'[v] = match[v] /\ asks'[v] = asks[v] /\ at'[v] = at[v]
    BY <1>1, <2>2
  <2> QED BY <1>1, <2>1, <2>2, <2>3
<1>4. CASE Propose(w) \/ Incoherent(w) \/ ClusterFails(w)
  BY <1>1, <1>4 DEF Propose, Incoherent, ClusterFails
<1>5. CASE CommitCluster(w) \/ PushJobs(w) \/ PushFails(w)
  BY <1>1, <1>5 DEF CommitCluster, PushJobs, PushFails
<1> QED BY <1>2, <1>3, <1>4, <1>5 DEF Run, ProcessCluster

\* A thread never changes its pattern.
LEMMA ThreadsStay ==
    ASSUME TypeInv, [Next]_vars
    PROVE  \A t \in Thread : thread[t] # None => thread'[t] = thread[t]
<1>1. ASSUME NEW w \in Worker, CommitCluster(w)
      PROVE  \A t \in Thread : thread[t] # None => thread'[t] = thread[t]
  <2>1. PICK u \in Thread : /\ match[w] # None => thread[u] = current[w]
                            /\ match[w] = None => thread[u] = None
                            /\ thread' = [thread EXCEPT ![u] = current[w]]
    BY <1>1, CommitWrites
  <2> QED BY <2>1 DEF TypeInv, TypeOK
<1>2. ASSUME NEW w \in Worker, Run(w), ~CommitCluster(w) PROVE thread' = thread
  BY <1>2 DEF Run, ProcessCluster, Receive, Check, MatchThread, Propose, Incoherent, ClusterFails,
        PushJobs, PushFails, Stamp, Ack, Die, Lapse
<1>3. ASSUME NEW e \in Extraction, ExtractStep(e) PROVE thread' = thread
  BY <1>3 DEF ExtractStep, CountMoments, CommitMoment, SendStep, SendTrigger, SendUnmarked, GiveUpTrigger
<1>4. ASSUME NEW t \in Thread, EmbedThread(t) PROVE thread' = thread
  BY <1>4 DEF EmbedThread
<1>5. ASSUME NEW q \in Question, Decide(q) PROVE thread' = thread
  BY <1>5 DEF Decide
<1>6. ASSUME UNCHANGED vars PROVE thread' = thread
  BY <1>6 DEF vars
<1> QED BY <1>1, <1>2, <1>3, <1>4, <1>5, <1>6 DEF Next, ExtractStep, SendStep

LEMMA OwnHolds ==
    ASSUME TypeInv, NEW w \in Worker, Run(w)
    PROVE  HoldsAt(w)'
<1> USE DEF HoldsAt, AtWork
<1>1. /\ at \in [Worker -> Places] /\ msg \in [Worker -> Extraction \cup {None}]
      /\ todo \in [Worker -> SUBSET Pattern] /\ current \in [Worker -> Pattern \cup {None}]
      /\ match \in [Worker -> Thread \cup {None}]
      /\ thread \in [Thread -> Pattern \cup {None}]
      /\ HoldsAt(w) /\ queue \subseteq moments
      /\ None \notin Pattern
  BY ConstantsAssumption DEF TypeInv, TypeOK, SetsTyped, Places
<1>2. CASE Receive(w)
  <2>1. PICK e \in queue : msg' = [msg EXCEPT ![w] = e]
    BY <1>2 DEF Receive
  <2>2. /\ at[w] = "idle" /\ at'[w] = "check" /\ msg'[w] \in moments
        /\ UNCHANGED <<moments, todo, current, match, thread>>
    BY <1>1, <1>2, <2>1 DEF Receive, Goto, extracting
  <2> QED BY <1>1, <2>2
<1>3. CASE Check(w)
  <2>1. /\ at[w] = "check" /\ (at'[w] = "next" \/ (at'[w] = "ack" /\ todo'[w] = todo[w]))
        /\ UNCHANGED <<moments, msg, current, match, thread>>
    BY <1>1, <1>3 DEF Check, Goto, extracting
  <2> QED BY <1>1, <2>1
<1>4. CASE MatchThread(w)
  <2>1. PICK p \in todo[w] : LET near == {t \in Thread : thread[t] = p /\ vector[t] = "known"} IN
           /\ current' = [current EXCEPT ![w] = p]
           /\ todo' = [todo EXCEPT ![w] = @ \ {p}]
           /\ \E t \in IF near = {} THEN {None} ELSE near : match' = [match EXCEPT ![w] = t]
           /\ Goto(w, IF near = {} THEN "proposed" ELSE "matched")
    BY <1>4 DEF MatchThread
  <2> DEFINE near == {t \in Thread : thread[t] = p /\ vector[t] = "known"}
  <2>2. /\ current'[w] = p /\ todo'[w] = todo[w] \ {p} /\ p \in Pattern
        /\ UNCHANGED <<msg, moments, thread>> /\ at[w] = "next"
    BY <1>1, <1>4, <2>1 DEF MatchThread, extracting
  <2>3. \/ match'[w] = None /\ at'[w] = "proposed"
        \/ at'[w] = "matched" /\ match'[w] \in near
    <3>1. CASE near = {}
      BY <1>1, <2>1, <3>1 DEF Goto
    <3>2. CASE near # {}
      BY <1>1, <2>1, <3>2 DEF Goto
    <3> QED BY <3>1, <3>2
  <2>4. match'[w] # None => match'[w] \in Thread /\ thread[match'[w]] = p
    BY <2>3
  <2>5. at'[w] \in {"proposed", "matched"} /\ (at'[w] = "matched" => match'[w] \in Thread)
    BY <2>3
  <2> HIDE DEF near
  <2> QED BY <1>1, <2>2, <2>4, <2>5
<1>5. CASE Propose(w)
  <2>1. /\ at[w] = "matched" /\ at'[w] = "proposed"
        /\ UNCHANGED <<msg, moments, todo, current, match, thread>>
    BY <1>1, <1>5 DEF Propose, Goto, extracting
  <2> QED BY <1>1, <2>1
<1>6. CASE Incoherent(w) \/ ClusterFails(w) \/ PushJobs(w) \/ PushFails(w)
  <2>1. /\ at[w] # "idle" /\ at'[w] = "next" /\ match'[w] = None
        /\ UNCHANGED <<msg, moments, todo, thread>>
    BY <1>1, <1>6 DEF Incoherent, ClusterFails, PushJobs, PushFails, Done, Goto, extracting
  <2> QED BY <1>1, <2>1
<1>7. CASE CommitCluster(w)
  <2>1. PICK t \in Thread : /\ thread' = [thread EXCEPT ![t] = current[w]]
                            /\ match' = [match EXCEPT ![w] = t]
    BY <1>7, CommitWrites
  <2>2. /\ at[w] = "proposed" /\ at'[w] \in {"push", "linked"}
        /\ UNCHANGED <<msg, moments, todo, current>>
    BY <1>1, <1>7 DEF CommitCluster, Goto, extracting
  <2>3. match'[w] = t /\ thread'[t] = current[w]
    BY <1>1, <2>1
  <2> QED BY <1>1, <2>2, <2>3
<1>8. CASE Stamp(w)
  <2>1. /\ at[w] = "next" /\ at'[w] = "ack" /\ todo[w] = {}
        /\ UNCHANGED <<msg, moments, todo, current, match, thread>>
    BY <1>1, <1>8 DEF Stamp, Goto, extracting
  <2> QED BY <1>1, <2>1
<1>9. CASE Ack(w) \/ Die(w)
  <2>1. at'[w] = "idle" /\ todo'[w] = {} /\ match'[w] = None
    BY <1>1, <1>9 DEF Ack, Die, Forget, Goto
  <2> QED BY <2>1
<1>10. CASE Lapse(w)
  BY <1>1, <1>10 DEF Lapse, worker, extracting
<1> QED BY <1>2, <1>3, <1>4, <1>5, <1>6, <1>7, <1>8, <1>9, <1>10 DEF Run, ProcessCluster

LEMMA TypeInvKept ==
    ASSUME TypeInv, [Next]_vars
    PROVE  TypeInv'
<1>1. /\ TypeOK /\ \A t \in Thread : thread[t] # None => thread'[t] = thread[t]
      /\ SetsTyped
      /\ None \notin Pattern /\ match \in [Worker -> Thread \cup {None}]
  BY ThreadsStay, ConstantsAssumption DEF TypeInv, TypeOK
<1>2. moments \subseteq moments'
  <2>1. ASSUME NEW w \in Worker, Run(w) PROVE moments' = moments
    BY <2>1 DEF Run, ProcessCluster, Receive, Check, MatchThread, Propose, Incoherent, ClusterFails,
          CommitCluster, PushJobs, PushFails, Stamp, Ack, Die, Lapse, extracting
  <2>2. ASSUME NEW e \in Extraction, ExtractStep(e) PROVE moments \subseteq moments'
    BY <2>2 DEF ExtractStep, CountMoments, CommitMoment, SendStep, SendTrigger, SendUnmarked, GiveUpTrigger, extracting
  <2>3. ASSUME NEW t \in Thread, EmbedThread(t) PROVE moments' = moments
    BY <2>3 DEF EmbedThread, extracting
  <2>4. ASSUME NEW q \in Question, Decide(q) PROVE moments' = moments
    BY <2>4 DEF Decide, extracting
  <2> QED BY <2>1, <2>2, <2>3, <2>4 DEF Next, ExtractStep, SendStep, vars, extracting
<1>3. ASSUME NEW v \in Worker, at'[v] = at[v], msg'[v] = msg[v], todo'[v] = todo[v],
             current'[v] = current[v], match'[v] = match[v]
      PROVE  HoldsAt(v)'
  BY <1>1, <1>2, <1>3 DEF TypeInv, HoldsAt, AtWork
<1>4. ASSUME UNCHANGED worker PROVE \A v \in Worker : HoldsAt(v)'
  BY <1>3, <1>4 DEF worker
<1>5. ASSUME NEW w \in Worker, Run(w) PROVE TypeInv'
  <2>1. \A v \in Worker : HoldsAt(v)'
    BY <1>1, <1>3, <1>5, WorkersApart, OwnHolds
  <2> QED BY <1>1, <1>5, <2>1, RunTyped DEF TypeInv
<1>6. ASSUME NEW e \in Extraction, ExtractStep(e) PROVE TypeInv'
  <2>1. UNCHANGED worker
    BY <1>6 DEF ExtractStep, CountMoments, CommitMoment, SendStep, SendTrigger, SendUnmarked, GiveUpTrigger
  <2> QED BY <1>1, <1>4, <1>6, <2>1, ExtractTyped DEF TypeInv
<1>7. ASSUME NEW t \in Thread, EmbedThread(t) PROVE TypeInv'
  <2>1. UNCHANGED worker
    BY <1>7 DEF EmbedThread
  <2> QED BY <1>1, <1>4, <1>7, <2>1, EmbedThreadTyped DEF TypeInv
<1>8. ASSUME NEW q \in Question, Decide(q) PROVE TypeInv'
  <2>1. UNCHANGED worker
    BY <1>8 DEF Decide
  <2> QED BY <1>1, <1>4, <1>8, <2>1, DecideTyped DEF TypeInv
<1>9. ASSUME UNCHANGED vars PROVE TypeInv'
  <2>1. TypeOK' /\ SetsTyped'
    BY <1>1, <1>9 DEF vars, TypeOK, SetsTyped, extracting, worker, bank, dismissals
  <2> QED BY <1>1, <1>4, <1>9, <2>1 DEF TypeInv, vars
<1> QED BY <1>5, <1>6, <1>7, <1>8, <1>9 DEF Next, ExtractStep, SendStep

LEMMA InitTyped == Init => TypeInv
<1> SUFFICES ASSUME Init PROVE TypeInv
  OBVIOUS
<1>1. stamp = 0 /\ moments = {} /\ Cardinality(moments) = 0
  BY FS_EmptySet DEF Init
<1>2. TypeOK
  BY <1>1, ConstantsAssumption DEF Init, TypeOK
<1>3. \A w \in Worker : HoldsAt(w)
  BY DEF Init, HoldsAt, AtWork
<1>4. SetsTyped
  BY DEF Init, SetsTyped
<1> QED BY <1>2, <1>3, <1>4 DEF TypeInv

\* Every column, message and local of the detector keeps its shape.
THEOREM TypesHold == Spec => []TypeOK
<1>1. TypeInv /\ [Next]_vars => TypeInv'
  BY TypeInvKept
<1>2. TypeInv => TypeOK
  BY DEF TypeInv
<1> QED BY InitTyped, <1>1, <1>2, PTL DEF Spec

\* Of a run's steps only those with a cluster in work touch threads, vectors
\* and questions, and only Check makes a run of what was none.
LEMMA RunMoves ==
    ASSUME TypeInv, NEW w \in Worker, Run(w)
    PROVE  /\ answered' = answered /\ suppressed' = suppressed
           /\ ~Clustering(w) => UNCHANGED <<thread, vector, questions>>
           /\ Clustering(w)' => Clustering(w) \/ Check(w)
           /\ CommitCluster(w) \/ UNCHANGED <<thread, questions>>
           /\ PushJobs(w) \/ UNCHANGED vector
<1> USE DEF Clustering, Running, bank, worker
<1>1. at \in [Worker -> Places]
  BY DEF TypeInv, TypeOK, Places
<1>2. CASE Receive(w) \/ Check(w) \/ Stamp(w) \/ Ack(w) \/ Die(w) \/ Lapse(w)
  BY <1>1, <1>2 DEF Receive, Check, Stamp, Ack, Die, Lapse, Forget, Goto
<1>3. CASE MatchThread(w) \/ Propose(w) \/ Incoherent(w) \/ ClusterFails(w) \/ PushFails(w)
  BY <1>1, <1>3 DEF MatchThread, Propose, Incoherent, ClusterFails, PushFails
<1>4. CASE CommitCluster(w) \/ PushJobs(w)
  BY <1>1, <1>4 DEF CommitCluster, PushJobs
<1> QED BY <1>2, <1>3, <1>4 DEF Run, ProcessCluster

-----------------------------------------------------------------------------
(* Suppression.  Whoever proposes for a thread found it free of suppressed     *)
(* questions, and it still is unless the user suppressed one beside it.        *)

FreeAt(w) ==
    at[w] = "proposed" /\ asks[w] /\ match[w] # None =>
        thread[match[w]] \in crossed \/ \A q \in suppressed : q[1] # match[w]

ReopenInv == TypeInv /\ (\A w \in Worker : FreeAt(w)) /\ ReopenedNeedsARace

LEMMA CrossedGrows ==
    ASSUME [Next]_vars
    PROVE  crossed \subseteq crossed'
<1>1. ASSUME NEW w \in Worker, Run(w) PROVE crossed \subseteq crossed'
  BY <1>1 DEF Run, ProcessCluster, Receive, Check, MatchThread, Propose, Incoherent, ClusterFails,
        CommitCluster, PushJobs, PushFails, Stamp, Ack, Die, Lapse, dismissals
<1>2. ASSUME NEW e \in Extraction, ExtractStep(e) PROVE crossed \subseteq crossed'
  BY <1>2 DEF ExtractStep, CountMoments, CommitMoment, SendStep, SendTrigger, SendUnmarked, GiveUpTrigger,
        dismissals
<1>3. ASSUME NEW t \in Thread, EmbedThread(t) PROVE crossed \subseteq crossed'
  BY <1>3 DEF EmbedThread, dismissals
<1>4. ASSUME NEW q \in Question, Decide(q) PROVE crossed \subseteq crossed'
  BY <1>4 DEF Decide, Suppress, SkipOrLift
<1> QED BY <1>1, <1>2, <1>3, <1>4 DEF Next, ExtractStep, SendStep, vars, dismissals

\* A pattern that was reopened keeps what excused it.
LEMMA ReopenedKept ==
    ASSUME ReopenInv, [Next]_vars, NEW p \in reopened
    PROVE  p \in crossed' \/ \E t, u \in Thread : t # u /\ thread'[t] = p /\ thread'[u] = p
<1>1. /\ \A t \in Thread : thread[t] # None => thread'[t] = thread[t]
      /\ p # None /\ crossed \subseteq crossed'
  BY ThreadsStay, CrossedGrows, ConstantsAssumption DEF ReopenInv, TypeInv, SetsTyped
<1>2. CASE p \in crossed
  BY <1>1, <1>2
<1>3. ASSUME NEW t \in Thread, NEW u \in Thread, t # u, thread[t] = p, thread[u] = p
      PROVE  \E x, y \in Thread : x # y /\ thread'[x] = p /\ thread'[y] = p
  BY <1>1, <1>3
<1> QED BY <1>2, <1>3 DEF ReopenInv, ReopenedNeedsARace

\* A step that neither proposes nor suppresses leaves a free thread free.
LEMMA FreeStays ==
    ASSUME ReopenInv, [Next]_vars, NEW v \in Worker,
           at'[v] = at[v], match'[v] = match[v], asks'[v] = asks[v], suppressed' \subseteq suppressed
    PROVE  FreeAt(v)'
<1>1. /\ \A t \in Thread : thread[t] # None => thread'[t] = thread[t]
      /\ crossed \subseteq crossed' /\ FreeAt(v) /\ HoldsAt(v) /\ None \notin Pattern
      /\ match[v] \in Thread \cup {None}
  BY ThreadsStay, CrossedGrows, ConstantsAssumption DEF ReopenInv, TypeInv, TypeOK
<1> SUFFICES ASSUME at[v] = "proposed", asks[v], match[v] # None
             PROVE  thread'[match[v]] \in crossed' \/ \A q \in suppressed' : q[1] # match[v]
  BY DEF FreeAt
<1>2. thread[match[v]] \in Pattern /\ match[v] \in Thread
  BY <1>1 DEF HoldsAt, AtWork
<1>3. thread'[match[v]] = thread[match[v]]
  BY <1>1, <1>2
<1> QED BY <1>1, <1>3 DEF FreeAt

LEMMA RunReopens ==
    ASSUME ReopenInv, NEW w \in Worker, Run(w), Next
    PROVE  FreeAt(w)' /\ ReopenedNeedsARace'
<1>1. /\ TypeInv /\ TypeOK /\ HoldsAt(w) /\ FreeAt(w)
      /\ at \in [Worker -> Places] /\ match \in [Worker -> Thread \cup {None}]
      /\ asks \in [Worker -> BOOLEAN] /\ None \notin Pattern
      /\ suppressed \subseteq questions /\ \A q \in questions : q[1] \in Thread
  BY ConstantsAssumption DEF ReopenInv, TypeInv, TypeOK, Places, Question
<1>2. CASE CommitCluster(w)
  <2>1. at'[w] # "proposed"
    BY <1>1, <1>2 DEF CommitCluster, Goto
  <2>2. ASSUME NEW p \in reopened', p \notin reopened
        PROVE  p \in crossed' \/ \E t, u \in Thread : t # u /\ thread'[t] = p /\ thread'[u] = p
    <3>1. p = current[w] /\ asks[w] /\ crossed' = crossed /\ at[w] = "proposed"
      BY <1>2, <2>2 DEF CommitCluster
    <3>2. PICK r \in suppressed : thread[r[1]] = p
      BY <1>2, <2>2 DEF CommitCluster, Dismissed
    <3>3. PICK t \in Thread : /\ match[w] # None => t = match[w] /\ thread[t] = current[w]
                              /\ match[w] = None => thread[t] = None
                              /\ current[w] \in Pattern
                              /\ thread' = [thread EXCEPT ![t] = current[w]]
      BY <1>1, <1>2, CommitWrites
    <3>4. thread'[t] = p /\ thread'[r[1]] = p /\ r[1] \in Thread
      BY <1>1, <3>1, <3>2, <3>3 DEF TypeOK
    <3>5. CASE r[1] # t
      BY <3>4, <3>5
    <3>6. CASE r[1] = t
      <4>1. match[w] = t /\ match[w] # None
        BY <1>1, <3>1, <3>2, <3>3, <3>6
      <4>2. thread[match[w]] \in crossed
        BY <1>1, <3>1, <3>6, <4>1 DEF FreeAt
      <4> QED BY <3>1, <3>2, <3>6, <4>1, <4>2
    <3> QED BY <3>5, <3>6
  <2>3. ReopenedNeedsARace'
    BY <2>2, ReopenedKept DEF ReopenedNeedsARace
  <2> QED BY <2>1, <2>3 DEF FreeAt
<1>3. CASE ~CommitCluster(w)
  <2>1. reopened' = reopened
    BY <1>3 DEF Run, ProcessCluster, Receive, Check, MatchThread, Propose, Incoherent, ClusterFails,
          PushJobs, PushFails, Stamp, Ack, Die, Lapse, dismissals
  <2>2. ReopenedNeedsARace'
    BY <2>1, ReopenedKept DEF ReopenedNeedsARace
  <2>3. CASE Propose(w)
    <3>1. /\ asks'[w] = ~SpokenFor(match[w]) /\ UNCHANGED <<match, suppressed>>
      BY <1>1, <2>3 DEF Propose, bank
    <3>2. asks'[w] => \A q \in suppressed : q[1] # match[w]
      BY <1>1, <3>1 DEF SpokenFor
    <3>3. FreeAt(w)'
      BY <3>1, <3>2 DEF FreeAt
    <3> QED BY <2>2, <3>3
  <2>4. CASE Lapse(w)
    BY <2>2, <2>4, FreeStays DEF Lapse, worker, bank
  <2>5. CASE MatchThread(w)
    <3>1. at'[w] = "proposed" => match'[w] = None
      <4>1. PICK p \in todo[w] : LET near == {t \in Thread : thread[t] = p /\ vector[t] = "known"} IN
              /\ \E t \in IF near = {} THEN {None} ELSE near : match' = [match EXCEPT ![w] = t]
              /\ Goto(w, IF near = {} THEN "proposed" ELSE "matched")
        BY <2>5 DEF MatchThread
      <4> DEFINE near == {t \in Thread : thread[t] = p /\ vector[t] = "known"}
      <4>2. CASE near = {}
        BY <1>1, <4>1, <4>2 DEF Goto
      <4>3. CASE near # {}
        BY <1>1, <4>1, <4>3 DEF Goto
      <4> QED BY <4>2, <4>3
    <3> QED BY <2>2, <3>1 DEF FreeAt
  <2>6. CASE \/ Receive(w) \/ Check(w) \/ Stamp(w) \/ Ack(w) \/ Die(w) \/ Incoherent(w)
             \/ ClusterFails(w) \/ PushJobs(w) \/ PushFails(w)
    <3>1. at'[w] # "proposed"
      BY <1>1, <2>6 DEF Receive, Check, Stamp, Ack, Die, Incoherent, ClusterFails, PushJobs, PushFails,
            Done, Forget, Goto
    <3> QED BY <2>2, <3>1 DEF FreeAt
  <2> QED BY <1>3, <2>3, <2>4, <2>5, <2>6 DEF Run, ProcessCluster
<1> QED BY <1>2, <1>3

LEMMA ReopenKept ==
    ASSUME ReopenInv, [Next]_vars
    PROVE  ReopenInv'
<1>1. TypeInv /\ TypeOK /\ TypeInv'
  BY TypeInvKept DEF ReopenInv, TypeInv
<1>2. ASSUME UNCHANGED <<worker, reopened>>, suppressed' \subseteq suppressed PROVE ReopenInv'
  <2>1. \A v \in Worker : FreeAt(v)'
    BY <1>2, FreeStays DEF worker
  <2>2. ReopenedNeedsARace'
    BY <1>2, ReopenedKept DEF ReopenedNeedsARace
  <2> QED BY <1>1, <2>1, <2>2 DEF ReopenInv
<1>3. ASSUME NEW w \in Worker, Run(w), Next PROVE ReopenInv'
  <2>1. FreeAt(w)' /\ ReopenedNeedsARace'
    BY <1>3, RunReopens
  <2>2. suppressed' = suppressed
    BY <1>1, <1>3, RunMoves
  <2>3. \A v \in Worker \ {w} : FreeAt(v)'
    BY <1>1, <1>3, <2>2, WorkersApart, FreeStays
  <2> QED BY <1>1, <2>1, <2>3 DEF ReopenInv
<1>4. ASSUME NEW e \in Extraction, ExtractStep(e) PROVE ReopenInv'
  <2>1. UNCHANGED <<worker, reopened, suppressed>>
    BY <1>4 DEF ExtractStep, CountMoments, CommitMoment, SendStep, SendTrigger, SendUnmarked,
          GiveUpTrigger, bank, dismissals
  <2> QED BY <1>2, <2>1
<1>5. ASSUME NEW t \in Thread, EmbedThread(t) PROVE ReopenInv'
  BY <1>2, <1>5 DEF EmbedThread, bank, dismissals
<1>6. ASSUME NEW q \in Question, Decide(q), Next PROVE ReopenInv'
  <2>1. UNCHANGED <<worker, thread, reopened>>
    BY <1>6 DEF Decide
  <2>2. CASE SkipOrLift(q)
    BY <1>2, <2>1, <2>2 DEF SkipOrLift
  <2>3. CASE Suppress(q)
    <3>1. ASSUME NEW v \in Worker PROVE FreeAt(v)'
      <4>1. CASE at[v] = "proposed" /\ asks[v] /\ match[v] = q[1]
        <5>1. thread[q[1]] \in crossed'
          BY <2>3, <4>1 DEF Suppress
        <5> QED BY <2>1, <4>1, <5>1 DEF FreeAt, worker
      <4>2. CASE ~(at[v] = "proposed" /\ asks[v] /\ match[v] = q[1])
        <5>1. crossed \subseteq crossed' /\ suppressed' = suppressed \cup {q} /\ FreeAt(v)
          BY <2>3 DEF Suppress, ReopenInv
        <5> QED BY <2>1, <4>2, <5>1 DEF FreeAt, worker
      <4> QED BY <4>1, <4>2
    <3>2. ReopenedNeedsARace'
      BY <1>6, <2>1, ReopenedKept DEF ReopenedNeedsARace
    <3> QED BY <1>1, <3>1, <3>2 DEF ReopenInv
  <2> QED BY <1>6, <2>2, <2>3 DEF Decide
<1>7. ASSUME UNCHANGED vars PROVE ReopenInv'
  BY <1>2, <1>7 DEF vars, bank, dismissals
<1> QED BY <1>3, <1>4, <1>5, <1>6, <1>7 DEF Next, ExtractStep, SendStep

\* A pattern of which a question stands suppressed is given new questions only
\* under a second thread, or by a proposal that was under way.
THEOREM DismissedIsLeftAlone == Spec => []ReopenedNeedsARace
<1>1. Init => ReopenInv
  <2> SUFFICES ASSUME Init PROVE ReopenInv
    OBVIOUS
  <2> QED BY InitTyped DEF Init, ReopenInv, ReopenedNeedsARace, FreeAt
<1>2. ReopenInv /\ [Next]_vars => ReopenInv'
  BY ReopenKept
<1>3. ReopenInv => ReopenedNeedsARace
  BY DEF ReopenInv
<1> QED BY <1>1, <1>2, <1>3, PTL DEF Spec

-----------------------------------------------------------------------------
(* Doubles.  A run alone that began with every thread embedded knows all the  *)
(* threads of the patterns before it, and nobody else asks beside it.          *)

LoneRuns == \A v, w \in Worker : v # w /\ Clustering(v) /\ Clustering(w) => "overlap" \in mishaps

NewAt(w) ==
    Clustering(w) /\ mishaps \cap {"overlap", "unembedded"} = {} =>
        /\ \A t \in Thread : thread[t] \in todo[w] => vector[t] = "known"
        /\ (at[w] = "proposed" /\ match[w] = None) => \A t \in Thread : thread[t] # current[w]

AskAt(w) ==
    at[w] = "proposed" /\ asks[w] /\ match[w] # None /\ "overlap" \notin mishaps =>
        \A q \in questions : q[1] = match[w] => q \in answered

DoubleInv ==
    /\ TypeInv /\ LoneRuns
    /\ \A w \in Worker : NewAt(w) /\ AskAt(w)
    /\ DoubledNeedsAMishap

LEMMA MishapsGrow ==
    ASSUME [Next]_vars
    PROVE  mishaps \subseteq mishaps'
<1>1. ASSUME NEW w \in Worker, Run(w) PROVE mishaps \subseteq mishaps'
  BY <1>1 DEF Run, ProcessCluster, Receive, Check, MatchThread, Propose, Incoherent, ClusterFails,
        CommitCluster, PushJobs, PushFails, Stamp, Ack, Die, Lapse
<1>2. ASSUME NEW e \in Extraction, ExtractStep(e) PROVE mishaps \subseteq mishaps'
  BY <1>2 DEF ExtractStep, CountMoments, CommitMoment, SendStep, SendTrigger, SendUnmarked, GiveUpTrigger
<1>3. ASSUME NEW t \in Thread, EmbedThread(t) PROVE mishaps \subseteq mishaps'
  BY <1>3 DEF EmbedThread
<1>4. ASSUME NEW q \in Question, Decide(q) PROVE mishaps \subseteq mishaps'
  BY <1>4 DEF Decide
<1> QED BY <1>1, <1>2, <1>3, <1>4 DEF Next, ExtractStep, SendStep, vars

LEMMA OwnDoubles ==
    ASSUME DoubleInv, NEW w \in Worker, Run(w)
    PROVE  NewAt(w)' /\ AskAt(w)'
<1> USE DEF NewAt, AskAt, Clustering, Running
<1>1. /\ at \in [Worker -> Places] /\ todo \in [Worker -> SUBSET Pattern]
      /\ current \in [Worker -> Pattern \cup {None}]
      /\ match \in [Worker -> Thread \cup {None}] /\ asks \in [Worker -> BOOLEAN]
      /\ thread \in [Thread -> Pattern \cup {None}]
      /\ vector \in [Thread -> {"none", "queued", "known"}]
      /\ HoldsAt(w) /\ NewAt(w) /\ AskAt(w)
      /\ None \notin Pattern /\ None \notin Thread
  BY ConstantsAssumption DEF DoubleInv, TypeInv, TypeOK, Places
<1>2. CASE Receive(w) \/ Stamp(w) \/ Ack(w) \/ Die(w)
  <2>1. at'[w] \in {"idle", "check", "ack"}
    BY <1>1, <1>2 DEF Receive, Stamp, Ack, Die, Forget, Goto
  <2> QED BY <2>1
<1>3. CASE Lapse(w)
  BY <1>1, <1>3 DEF Lapse, worker, bank
<1>4. CASE Check(w)
  <2>1. CASE at'[w] = "next"
    <3>1. mishaps' = mishaps \cup {m \in {"overlap"} : \E v \in Worker : Clustering(v)} \cup
                    {m \in {"unembedded"} :
                        \E t \in Thread : thread[t] # None /\ vector[t] # "known"}
      BY <1>1, <1>4, <2>1 DEF Check, Goto
    <3>2. /\ UNCHANGED <<thread, vector>>
          /\ todo'[w] \subseteq Pattern
      <4>1. \A E \in Clusterable : Clusters(E) \subseteq Pattern
        BY DEF Clusters
      <4>2. todo' = todo \/ \E E \in Clusterable : todo' = [todo EXCEPT ![w] = Clusters(E)]
        BY <1>4 DEF Check
      <4> QED BY <1>1, <1>4, <4>1, <4>2 DEF Check
    <3>3. "unembedded" \notin mishaps' => \A t \in Thread : thread[t] # None => vector[t] = "known"
      BY <3>1
    <3> QED BY <1>1, <2>1, <3>2, <3>3
  <2>2. CASE at'[w] # "next"
    <3>1. at'[w] = "ack"
      BY <1>1, <1>4, <2>2 DEF Check, Goto
    <3> QED BY <3>1
  <2> QED BY <2>1, <2>2
<1>5. CASE MatchThread(w)
  <2>1. PICK p \in todo[w] : LET near == {t \in Thread : thread[t] = p /\ vector[t] = "known"} IN
           /\ current' = [current EXCEPT ![w] = p]
           /\ todo' = [todo EXCEPT ![w] = @ \ {p}]
           /\ \E t \in IF near = {} THEN {None} ELSE near : match' = [match EXCEPT ![w] = t]
           /\ Goto(w, IF near = {} THEN "proposed" ELSE "matched")
    BY <1>5 DEF MatchThread
  <2>2. /\ at[w] = "next" /\ current'[w] = p /\ todo'[w] = todo[w] \ {p}
        /\ UNCHANGED <<thread, vector, mishaps>>
    BY <1>1, <1>5, <2>1 DEF MatchThread
  <2>3. at'[w] = "proposed" => /\ match'[w] = None
                               /\ \A t \in Thread : thread[t] = p => vector[t] # "known"
    <3> DEFINE near == {t \in Thread : thread[t] = p /\ vector[t] = "known"}
    <3>1. CASE near = {}
      BY <1>1, <2>1, <3>1 DEF Goto
    <3>2. CASE near # {}
      BY <1>1, <2>1, <3>2 DEF Goto
    <3> QED BY <3>1, <3>2
  <2>4. AskAt(w)'
    BY <2>3
  <2>5. NewAt(w)'
    BY <1>1, <2>2, <2>3
  <2> QED BY <2>4, <2>5
<1>6. CASE Propose(w)
  <2>1. /\ at[w] = "matched" /\ at'[w] = "proposed" /\ match[w] \in Thread
        /\ UNCHANGED <<todo, match, thread, vector, questions, answered, mishaps>>
    BY <1>1, <1>6 DEF Propose, Goto, bank, HoldsAt
  <2>2. asks'[w] => \A q \in questions : q[1] = match[w] => q \in answered
    <3>1. asks'[w] = ~SpokenFor(match[w])
      BY <1>1, <1>6 DEF Propose
    <3> QED BY <3>1 DEF SpokenFor
  <2> QED BY <1>1, <2>1, <2>2
<1>7. CASE Incoherent(w) \/ ClusterFails(w) \/ PushFails(w)
  <2>1. /\ at'[w] = "next" /\ at[w] \in AtWork /\ mishaps \subseteq mishaps'
        /\ UNCHANGED <<todo, thread, vector>>
    BY <1>1, <1>7 DEF Incoherent, ClusterFails, PushFails, Done, Goto, AtWork
  <2> QED BY <1>1, <2>1 DEF AtWork
<1>8. CASE CommitCluster(w)
  <2>1. PICK t \in Thread : thread' = [thread EXCEPT ![t] = current[w]]
    BY <1>8, CommitWrites DEF DoubleInv
  <2>2. /\ at[w] = "proposed" /\ at'[w] \in {"push", "linked"} /\ current[w] \notin todo[w]
        /\ UNCHANGED <<todo, vector, mishaps>>
    BY <1>1, <1>8 DEF CommitCluster, Goto, HoldsAt, AtWork
  <2> QED BY <1>1, <2>1, <2>2
<1>9. CASE PushJobs(w)
  <2>1. /\ at'[w] = "next" /\ at[w] \in {"push", "linked"}
        /\ UNCHANGED <<todo, thread, mishaps>>
        /\ \A t \in Thread : t # match[w] => vector'[t] = vector[t]
    BY <1>1, <1>9 DEF PushJobs, Done, Goto
  <2>2. thread[match[w]] \notin todo[w]
    BY <1>1, <2>1 DEF HoldsAt, AtWork
  <2> QED BY <1>1, <2>1, <2>2
<1> QED BY <1>2, <1>3, <1>4, <1>5, <1>6, <1>7, <1>8, <1>9 DEF Run, ProcessCluster

\* The writing step itself: a thread for a pattern that has one, or a proposal
\* beside one unanswered, takes a mishap.
LEMMA CommitDoubles ==
    ASSUME DoubleInv, NEW w \in Worker, CommitCluster(w)
    PROVE  DoubledNeedsAMishap'
<1>1. /\ TypeOK /\ HoldsAt(w) /\ NewAt(w) /\ AskAt(w) /\ DoubledNeedsAMishap
      /\ thread \in [Thread -> Pattern \cup {None}]
      /\ \A q \in questions : q[1] \in Thread /\ thread[q[1]] # None
      /\ at[w] = "proposed" /\ Clustering(w)
      /\ None \notin Pattern /\ None \notin Thread
      /\ UNCHANGED <<answered, mishaps>>
  BY ConstantsAssumption DEF DoubleInv, TypeInv, TypeOK, CommitCluster, Clustering, Running,
        Question
<1>2. PICK t \in Thread :
              /\ match[w] # None => t = match[w] /\ thread[t] = current[w]
              /\ match[w] = None => thread[t] = None
              /\ current[w] \in Pattern
              /\ thread' = [thread EXCEPT ![t] = current[w]]
              /\ \/ ~asks[w] /\ questions' = questions
                 \/ asks[w] /\ \E b \in 1 .. MaxProposals, n \in 1 .. MaxProposed :
                       questions' = questions \cup ({t} \X {b} \X (1 .. n))
  BY CommitWrites DEF DoubleInv
<1>3. ASSUME NEW u \in Thread, NEW v \in Thread, u # v, thread'[u] = thread'[v], thread'[u] # None
      PROVE  mishaps' \cap {"overlap", "unembedded"} # {}
  <2>1. CASE match[w] # None
    <3>1. thread' = thread
      BY <1>1, <1>2, <2>1
    <3> QED BY <1>1, <1>3, <3>1 DEF DoubledNeedsAMishap
  <2>2. CASE match[w] = None /\ mishaps \cap {"overlap", "unembedded"} = {}
    <3>1. \A x \in Thread : thread[x] # current[w]
      BY <1>1, <2>2 DEF NewAt
    <3>2. u # t /\ v # t
      BY <1>1, <1>2, <1>3, <3>1
    <3>3. thread[u] = thread[v] /\ thread[u] # None
      BY <1>1, <1>2, <1>3, <3>2
    <3> QED BY <1>1, <1>3, <3>3 DEF DoubledNeedsAMishap
  <2> QED BY <1>1, <2>1, <2>2
<1>4. ASSUME NEW q \in questions' \ answered', NEW r \in questions' \ answered',
             q[1] = r[1], q[2] # r[2], "overlap" \notin mishaps
      PROVE  FALSE
  <2>1. CASE questions' = questions
    BY <1>1, <1>4, <2>1 DEF DoubledNeedsAMishap
  <2>2. ASSUME asks[w], NEW b \in 1 .. MaxProposals, NEW n \in 1 .. MaxProposed,
               questions' = questions \cup ({t} \X {b} \X (1 .. n))
        PROVE  FALSE
    <3>1. \A x \in questions' : x \in questions \/ (x[1] = t /\ x[2] = b)
      BY <2>2
    <3>2. \A x \in questions : x[1] = t => x \in answered
      <4>1. CASE match[w] = None
        BY <1>1, <1>2, <4>1
      <4>2. CASE match[w] # None
        BY <1>1, <1>2, <1>4, <2>2, <4>2 DEF AskAt
      <4> QED BY <4>1, <4>2
    <3>3. CASE q \in questions /\ r \in questions
      BY <1>1, <1>4, <3>3 DEF DoubledNeedsAMishap
    <3>4. CASE q \notin questions \/ r \notin questions
      <4>1. q[1] = t /\ r[1] = t
        BY <1>4, <3>1, <3>4
      <4>2. q \notin questions /\ r \notin questions
        BY <1>1, <1>4, <3>2, <4>1
      <4> QED BY <1>4, <3>1, <4>2
    <3> QED BY <3>3, <3>4
  <2> QED BY <1>2, <2>1, <2>2
<1> QED BY <1>1, <1>3, <1>4 DEF DoubledNeedsAMishap

LEMMA DoubleKept ==
    ASSUME DoubleInv, [Next]_vars
    PROVE  DoubleInv'
<1>1. /\ TypeInv' /\ TypeInv /\ TypeOK /\ LoneRuns /\ DoubledNeedsAMishap
      /\ \A w \in Worker : NewAt(w) /\ AskAt(w)
      /\ mishaps \subseteq mishaps'
  BY TypeInvKept, MishapsGrow DEF DoubleInv, TypeInv
<1>2. ASSUME UNCHANGED <<thread, questions>>, answered \subseteq answered'
      PROVE  DoubledNeedsAMishap'
  BY <1>1, <1>2 DEF DoubledNeedsAMishap
<1>3. ASSUME UNCHANGED <<worker, thread, questions>>, answered \subseteq answered',
             \A t \in Thread : vector[t] = "known" => vector'[t] = "known"
      PROVE  DoubleInv'
  <2>1. LoneRuns'
    BY <1>1, <1>3 DEF LoneRuns, Clustering, Running, worker
  <2>2. ASSUME NEW w \in Worker PROVE NewAt(w)' /\ AskAt(w)'
    <3>1. NewAt(w)'
      BY <1>1, <1>3 DEF NewAt, Clustering, Running, worker
    <3>2. AskAt(w)'
      BY <1>1, <1>3 DEF AskAt, worker
    <3> QED BY <3>1, <3>2
  <2> QED BY <1>1, <1>2, <1>3, <2>1, <2>2 DEF DoubleInv
<1>4. ASSUME NEW w \in Worker, Run(w) PROVE DoubleInv'
  <2>1. /\ \A v \in Worker \ {w} :
              /\ at'[v] = at[v] /\ todo'[v] = todo[v] /\ current'[v] = current[v]
              /\ match'[v] = match[v] /\ asks'[v] = asks[v]
        /\ \A v \in Worker \ {w} : Clustering(v)' <=> Clustering(v)
    BY <1>1, <1>4, WorkersApart DEF Clustering, Running
  <2>2. /\ answered' = answered
        /\ ~Clustering(w) => UNCHANGED <<thread, vector, questions>>
        /\ Clustering(w)' => Clustering(w) \/ Check(w)
        /\ CommitCluster(w) \/ UNCHANGED <<thread, questions>>
    BY <1>1, <1>4, RunMoves
  <2>3. \A v \in Worker \ {w} : Clustering(v) /\ Clustering(w)' => "overlap" \in mishaps'
    <3> SUFFICES ASSUME NEW v \in Worker \ {w}, Clustering(v), Clustering(w)'
                 PROVE  "overlap" \in mishaps'
      OBVIOUS
    <3>1. CASE Clustering(w)
      BY <1>1, <3>1 DEF LoneRuns
    <3>2. CASE Check(w)
      <4>1. at'[w] # "ack"
        BY DEF Clustering
      <4>2. Due(Cardinality(moments))
        BY <1>1, <3>2, <4>1 DEF Check, Goto, TypeOK
      <4> QED BY <3>2, <4>2 DEF Check
    <3> QED BY <2>2, <3>1, <3>2
  <2>4. LoneRuns'
    BY <1>1, <2>1, <2>3 DEF LoneRuns
  <2>5. ASSUME NEW v \in Worker \ {w} PROVE NewAt(v)' /\ AskAt(v)'
    <3>1. CASE Clustering(w) /\ Clustering(v)
      <4>1. "overlap" \in mishaps'
        BY <1>1, <3>1 DEF LoneRuns
      <4> QED BY <4>1 DEF NewAt, AskAt
    <3>2. CASE ~Clustering(v)
      <4>1. ~Clustering(v)' /\ at'[v] # "proposed"
        BY <2>1, <3>2 DEF Clustering, Running
      <4> QED BY <4>1 DEF NewAt, AskAt
    <3>3. CASE ~Clustering(w)
      <4>1. NewAt(v)'
        BY <1>1, <2>1, <2>2, <3>3 DEF NewAt
      <4>2. AskAt(v)'
        BY <1>1, <2>1, <2>2, <3>3 DEF AskAt
      <4> QED BY <4>1, <4>2
    <3> QED BY <3>1, <3>2, <3>3
  <2>6. NewAt(w)' /\ AskAt(w)'
    BY <1>4, OwnDoubles
  <2>7. DoubledNeedsAMishap'
    BY <1>2, <2>2, CommitDoubles
  <2> QED BY <1>1, <2>4, <2>5, <2>6, <2>7 DEF DoubleInv
<1>5. ASSUME NEW e \in Extraction, ExtractStep(e) PROVE DoubleInv'
  <2>1. UNCHANGED <<worker, thread, vector, questions>> /\ answered \subseteq answered'
    BY <1>5 DEF ExtractStep, CountMoments, CommitMoment, SendStep, SendTrigger, SendUnmarked, GiveUpTrigger, bank
  <2> QED BY <1>3, <2>1
<1>6. ASSUME NEW t \in Thread, EmbedThread(t) PROVE DoubleInv'
  <2>1. UNCHANGED <<worker, thread, questions, answered>> /\ vector' = [vector EXCEPT ![t] = "known"]
    BY <1>6 DEF EmbedThread, bank
  <2>2. \A u \in Thread : vector[u] = "known" => vector'[u] = "known"
    BY <1>1, <2>1 DEF TypeOK
  <2> QED BY <1>3, <2>1, <2>2
<1>7. ASSUME NEW q \in Question, Decide(q) PROVE DoubleInv'
  <2>1. UNCHANGED <<worker, thread, vector, questions, answered>>
    BY <1>7 DEF Decide, bank
  <2> QED BY <1>3, <2>1
<1>8. ASSUME UNCHANGED vars PROVE DoubleInv'
  BY <1>3, <1>8 DEF vars, bank
<1> QED BY <1>4, <1>5, <1>6, <1>7, <1>8 DEF Next, ExtractStep, SendStep

\* A second thread of a pattern, or a second unanswered proposal of a thread,
\* comes of overlapping runs or of threads without vectors, and nothing else.
THEOREM ThreadsAreSingle == Spec => []DoubledNeedsAMishap
<1>1. Init => DoubleInv
  <2> SUFFICES ASSUME Init PROVE DoubleInv
    OBVIOUS
  <2>1. LoneRuns /\ \A w \in Worker : NewAt(w) /\ AskAt(w)
    BY DEF Init, LoneRuns, NewAt, AskAt, Clustering, Running
  <2>2. DoubledNeedsAMishap
    BY DEF Init, DoubledNeedsAMishap
  <2> QED BY <2>1, <2>2, InitTyped DEF DoubleInv
<1>2. DoubleInv /\ [Next]_vars => DoubleInv'
  BY DoubleKept
<1>3. DoubleInv => DoubledNeedsAMishap
  BY DEF DoubleInv
<1> QED BY <1>1, <1>2, <1>3, PTL DEF Spec

-----------------------------------------------------------------------------
(* Triggers.  While a run is due some trigger is on its way that no worker    *)
(* is about to acknowledge.                                                   *)

\* Alone, an extraction that has counted has counted right, and what it saw
\* not due is not due when it commits.
Counting ==
    /\ \A e, f \in Extraction : ext[e] = "counted" /\ ext[f] = "counted" /\ e # f => "skew" \in mishaps
    /\ \A e \in Extraction : e \in moments <=> ext[e] = "done"
    /\ \A e \in Extraction : ext[e] = "counted" =>
            saw[e] \/ ~Due(Cardinality(moments) + 1) \/ "skew" \in mishaps

\* A run that processed nothing had clusters fail.
WorkedAt(w) == at[w] = "next" /\ todo[w] = {} /\ ~worked[w] => "cluster" \in mishaps

Live(e) ==
    /\ e \in outbox \cup queue \/ \E w \in Worker : at[w] \notin {"idle", "ack"} /\ msg[w] = e
    /\ \A w \in Worker : at[w] = "ack" => msg[w] # e

Awaited ==
    Due(Cardinality(moments)) /\ mishaps \cap {"skew", "unsent", "cluster"} = {}
        => \E e \in Extraction : Live(e)

DueInv ==
    /\ TypeInv /\ Counting
    /\ \A w \in Worker : WorkedAt(w)
    /\ Awaited

LEMMA OwnWorked ==
    ASSUME TypeInv, NEW w \in Worker, Run(w), WorkedAt(w)
    PROVE  WorkedAt(w)'
<1> USE DEF WorkedAt
<1>1. /\ at \in [Worker -> Places] /\ todo \in [Worker -> SUBSET Pattern]
      /\ worked \in [Worker -> BOOLEAN]
  BY DEF TypeInv, TypeOK, Places
<1>2. CASE \/ Receive(w) \/ MatchThread(w) \/ Propose(w) \/ CommitCluster(w) \/ Stamp(w)
           \/ Ack(w) \/ Die(w)
  <2>1. at'[w] # "next"
    BY <1>1, <1>2 DEF Receive, MatchThread, Propose, CommitCluster, Stamp, Ack, Die, Forget, Goto
  <2> QED BY <2>1
<1>3. CASE Check(w)
  <2>1. at'[w] = "next" => \E E \in Clusterable : /\ todo' = [todo EXCEPT ![w] = Clusters(E)]
                                                  /\ worked' = [worked EXCEPT ![w] = Clusters(E) = {}]
    BY <1>1, <1>3 DEF Check, Goto
  <2>2. ASSUME NEW E, todo' = [todo EXCEPT ![w] = Clusters(E)],
               worked' = [worked EXCEPT ![w] = Clusters(E) = {}]
        PROVE  todo'[w] = Clusters(E) /\ worked'[w] = (Clusters(E) = {})
    BY <1>1, <2>2
  <2> QED BY <2>1, <2>2
<1>4. CASE Incoherent(w) \/ PushJobs(w)
  <2>1. worked' = [worked EXCEPT ![w] = @ \/ TRUE]
    BY <1>4 DEF Incoherent, PushJobs, Done
  <2>2. worked'[w]
    BY <1>1, <2>1
  <2> QED BY <2>2
<1>5. CASE ClusterFails(w) \/ PushFails(w)
  BY <1>5 DEF ClusterFails, PushFails
<1>6. CASE Lapse(w)
  BY <1>6 DEF Lapse, worker
<1> QED BY <1>2, <1>3, <1>4, <1>5, <1>6 DEF Run, ProcessCluster

\* While a run is due a worker's step takes no trigger away but one that is
\* acknowledged already.
LEMMA RunAwaited ==
    ASSUME DueInv, NEW w \in Worker, Run(w), mishaps \subseteq mishaps'
    PROVE  Awaited'
<1>1. /\ TypeOK /\ HoldsAt(w) /\ WorkedAt(w) /\ Awaited
      /\ at \in [Worker -> Places] /\ msg \in [Worker -> Extraction \cup {None}]
      /\ Cardinality(moments) \in Nat /\ stamp \in 0 .. Cardinality(moments)
      /\ Cadence \in Nat \ {0}
      /\ queue \subseteq moments /\ outbox \subseteq moments /\ moments \subseteq Extraction
  BY MomentsAreFinite, ConstantsAssumption DEF DueInv, TypeInv, TypeOK, SetsTyped, Places
<1>2. \A v \in Worker \ {w} : at'[v] = at[v] /\ msg'[v] = msg[v]
  BY <1>1, WorkersApart
<1> SUFFICES ASSUME Due(Cardinality(moments))', mishaps' \cap {"skew", "unsent", "cluster"} = {}
             PROVE  \E e \in Extraction : Live(e)'
  BY DEF Awaited
<1>3. mishaps \cap {"skew", "unsent", "cluster"} = {}
  OBVIOUS
<1>4. CASE Receive(w)
  <2>1. PICK f \in queue : queue' = queue \ {f} /\ msg' = [msg EXCEPT ![w] = f]
    BY <1>4 DEF Receive
  <2>2. /\ at[w] = "idle" /\ at'[w] = "check" /\ msg'[w] = f
        /\ UNCHANGED <<moments, outbox, stamp>>
    BY <1>1, <1>4, <2>1 DEF Receive, Goto, extracting
  <2>3. PICK e \in Extraction : Live(e)
    BY <1>1, <1>3, <2>2 DEF Awaited, Due
  <2>4. e = f \/ e \in outbox' \cup queue' \/ \E v \in Worker : v # w /\ at'[v] \notin {"idle", "ack"} /\ msg'[v] = e
    BY <1>2, <2>1, <2>2, <2>3 DEF Live
  <2>5. \A v \in Worker : at'[v] = "ack" => msg'[v] # e
    BY <1>2, <2>2, <2>3 DEF Live
  <2>6. e \in outbox' \cup queue' \/ \E v \in Worker : at'[v] \notin {"idle", "ack"} /\ msg'[v] = e
    BY <2>2, <2>4
  <2> QED BY <2>5, <2>6 DEF Live
<1>5. ASSUME queue' = queue, msg' = msg, UNCHANGED <<moments, outbox, stamp>>,
             at[w] \notin {"idle", "ack"}, at'[w] \notin {"idle", "ack"}
      PROVE  \E e \in Extraction : Live(e)'
  <2>1. PICK e \in Extraction : Live(e)
    BY <1>1, <1>3, <1>5 DEF Awaited, Due
  <2> QED BY <1>2, <1>5, <2>1 DEF Live
<1>6. CASE Check(w)
  <2>1. queue' = queue /\ msg' = msg /\ UNCHANGED <<moments, outbox, stamp>> /\ at[w] = "check"
    BY <1>6 DEF Check, extracting
  <2>2. Due(Cardinality(moments))
    BY <2>1 DEF Due
  <2>3. at'[w] = "next"
    BY <1>1, <1>6, <2>2 DEF Check, Goto
  <2> QED BY <1>5, <2>1, <2>3
<1>7. CASE MatchThread(w) \/ Propose(w) \/ CommitCluster(w)
  BY <1>1, <1>5, <1>7 DEF MatchThread, Propose, CommitCluster, Goto, extracting
<1>8. CASE Incoherent(w) \/ ClusterFails(w) \/ PushJobs(w) \/ PushFails(w)
  BY <1>1, <1>5, <1>8 DEF Incoherent, ClusterFails, PushJobs, PushFails, Done, Goto, extracting
<1>9. CASE Stamp(w)
  <2>1. worked[w]
    BY <1>1, <1>3, <1>9 DEF Stamp, WorkedAt
  <2>2. stamp' = Cardinality(moments) /\ moments' = moments
    BY <1>9, <2>1 DEF Stamp, extracting
  <2> QED BY <1>1, <2>2 DEF Due
<1>10. CASE Ack(w)
  <2>1. /\ at[w] = "ack" /\ at'[w] = "idle" /\ queue' = queue \ {msg[w]}
        /\ UNCHANGED <<moments, outbox, stamp>>
    BY <1>1, <1>10 DEF Ack, Forget, Goto, extracting
  <2>2. PICK e \in Extraction : Live(e)
    BY <1>1, <1>3, <2>1 DEF Awaited, Due
  <2>3. msg[w] # e
    BY <2>1, <2>2 DEF Live
  <2> QED BY <1>2, <2>1, <2>2, <2>3 DEF Live
<1>11. CASE Die(w)
  <2>1. at[w] # "idle" /\ at'[w] = "idle" /\ queue' = queue \cup {msg[w]}
        /\ UNCHANGED <<moments, outbox, stamp>>
    BY <1>1, <1>11 DEF Die, Forget, Goto, extracting
  <2>2. PICK e \in Extraction : Live(e)
    BY <1>1, <1>3, <2>1 DEF Awaited, Due
  <2> QED BY <1>2, <2>1, <2>2 DEF Live
<1>12. CASE Lapse(w)
  <2>1. queue' = queue \cup {msg[w]} /\ UNCHANGED <<moments, outbox, stamp, at, msg>>
    BY <1>12 DEF Lapse, worker, extracting
  <2>2. PICK e \in Extraction : Live(e)
    BY <1>1, <1>3, <2>1 DEF Awaited, Due
  <2> QED BY <2>1, <2>2 DEF Live
<1> QED BY <1>4, <1>6, <1>7, <1>8, <1>9, <1>10, <1>11, <1>12 DEF Run, ProcessCluster

LEMMA DueKept ==
    ASSUME DueInv, [Next]_vars
    PROVE  DueInv'
<1>1. /\ TypeInv' /\ TypeInv /\ TypeOK /\ Counting /\ Awaited
      /\ \A w \in Worker : WorkedAt(w)
      /\ mishaps \subseteq mishaps'
      /\ Cardinality(moments) \in Nat /\ stamp \in 0 .. Cardinality(moments)
      /\ Cadence \in Nat \ {0}
      /\ queue \subseteq moments /\ outbox \subseteq moments /\ moments \subseteq Extraction
      /\ ext \in [Extraction -> {"idle", "counted", "done"}] /\ saw \in [Extraction -> BOOLEAN]
  BY TypeInvKept, MishapsGrow, MomentsAreFinite, ConstantsAssumption DEF DueInv, TypeInv, TypeOK, SetsTyped
<1>2. ASSUME UNCHANGED worker PROVE \A w \in Worker : WorkedAt(w)'
  BY <1>1, <1>2 DEF WorkedAt, worker
<1>3. ASSUME NEW w \in Worker, Run(w) PROVE DueInv'
  <2>1. /\ UNCHANGED extracting /\ stamp' \in Nat /\ stamp' >= stamp
    <3>1. UNCHANGED extracting
      BY <1>3 DEF Run, ProcessCluster, Receive, Check, MatchThread, Propose, Incoherent, ClusterFails,
            CommitCluster, PushJobs, PushFails, Stamp, Ack, Die, Lapse
    <3>2. stamp' = stamp \/ stamp' = Cardinality(moments)
      BY <1>3 DEF Run, ProcessCluster, Receive, Check, MatchThread, Propose, Incoherent, ClusterFails,
            CommitCluster, PushJobs, PushFails, Stamp, Ack, Die, Lapse
    <3> QED BY <1>1, <3>1, <3>2
  <2>2. Counting'
    BY <1>1, <2>1 DEF Counting, Due, extracting
  <2>3. \A v \in Worker : WorkedAt(v)'
    <3>1. \A v \in Worker \ {w} : WorkedAt(v)'
      BY <1>1, <1>3, WorkersApart DEF WorkedAt
    <3>2. WorkedAt(w)'
      BY <1>1, <1>3, OwnWorked
    <3> QED BY <3>1, <3>2
  <2>4. Awaited'
    BY <1>1, <1>3, RunAwaited
  <2> QED BY <1>1, <2>2, <2>3, <2>4 DEF DueInv
<1>4. ASSUME UNCHANGED <<extracting, stamp, worker, queue>> PROVE DueInv'
  <2>1. Counting'
    BY <1>1, <1>4 DEF Counting, Due, extracting
  <2>2. Awaited'
    BY <1>1, <1>4 DEF Awaited, Due, Live, extracting, worker
  <2> QED BY <1>1, <1>2, <1>4, <2>1, <2>2 DEF DueInv
<1>5. ASSUME NEW e \in Extraction, CountMoments(e) PROVE DueInv'
  <2>1. /\ ext[e] = "idle" /\ ext' = [ext EXCEPT ![e] = "counted"]
        /\ saw' = [saw EXCEPT ![e] = Due(Cardinality(moments) + 1)]
        /\ UNCHANGED <<moments, outbox, stamp, worker, queue>>
        /\ (\E f \in Extraction : ext[f] = "counted") => "skew" \in mishaps'
    BY <1>5 DEF CountMoments
  <2>2. Counting'
    <3>1. \A f, g \in Extraction : ext'[f] = "counted" /\ ext'[g] = "counted" /\ f # g => "skew" \in mishaps'
      BY <1>1, <2>1 DEF Counting
    <3>2. \A f \in Extraction : f \in moments' <=> ext'[f] = "done"
      BY <1>1, <2>1 DEF Counting
    <3>3. ASSUME NEW f \in Extraction, ext'[f] = "counted"
          PROVE  saw'[f] \/ ~Due(Cardinality(moments) + 1)' \/ "skew" \in mishaps'
      <4>1. CASE f = e
        <5>1. saw'[e] = Due(Cardinality(moments) + 1)
          BY <1>1, <2>1
        <5> QED BY <2>1, <4>1, <5>1 DEF Due
      <4>2. CASE f # e
        BY <1>1, <2>1, <3>3, <4>2
      <4> QED BY <4>1, <4>2
    <3> QED BY <3>1, <3>2, <3>3 DEF Counting
  <2>3. Awaited'
    BY <1>1, <2>1 DEF Awaited, Due, Live, worker
  <2> QED BY <1>1, <1>2, <2>1, <2>2, <2>3 DEF DueInv
<1>6. ASSUME NEW e \in Extraction, CommitMoment(e) PROVE DueInv'
  <2>1. /\ ext[e] = "counted" /\ ext' = [ext EXCEPT ![e] = "done"]
        /\ moments' = moments \cup {e} /\ e \notin moments
        /\ outbox' = IF saw[e] THEN outbox \cup {e} ELSE outbox
        /\ UNCHANGED <<stamp, worker, mishaps>>
    BY <1>1, <1>6 DEF CommitMoment, Counting
  <2>2. Cardinality(moments') = Cardinality(moments) + 1
    BY <1>1, <2>1, MomentsAreFinite
  <2>3. Counting'
    <3>1. \A f, g \in Extraction : ext'[f] = "counted" /\ ext'[g] = "counted" /\ f # g => "skew" \in mishaps'
      BY <1>1, <2>1 DEF Counting
    <3>2. \A f \in Extraction : f \in moments' <=> ext'[f] = "done"
      BY <1>1, <2>1 DEF Counting
    <3>3. \A f \in Extraction : ext'[f] = "counted" => "skew" \in mishaps'
      BY <1>1, <2>1 DEF Counting
    <3> QED BY <3>1, <3>2, <3>3 DEF Counting
  <2>4. Awaited'
    <3> SUFFICES ASSUME Due(Cardinality(moments))', mishaps' \cap {"skew", "unsent", "cluster"} = {}
                 PROVE  \E f \in Extraction : Live(f)'
      BY DEF Awaited
    <3>1. Due(Cardinality(moments) + 1)
      BY <2>1, <2>2 DEF Due
    <3>2. saw[e]
      BY <1>1, <2>1, <3>1 DEF Counting
    <3>3. \A w \in Worker : at'[w] = "ack" => msg'[w] # e
      BY <1>1, <2>1 DEF worker, TypeInv, HoldsAt
    <3>4. e \in outbox'
      BY <2>1, <3>2
    <3> QED BY <3>3, <3>4 DEF Live
  <2> QED BY <1>1, <1>2, <2>1, <2>3, <2>4 DEF DueInv
<1>7. ASSUME NEW e \in Extraction, SendStep(e) PROVE DueInv'
  <2>1. /\ UNCHANGED <<ext, saw, moments, stamp, worker>>
        /\ outbox \cup queue \subseteq outbox' \cup queue' \/ "unsent" \in mishaps'
    BY <1>7 DEF SendStep, SendTrigger, SendUnmarked, GiveUpTrigger, extracting
  <2>2. Counting'
    BY <1>1, <2>1 DEF Counting, Due
  <2>3. Awaited'
    BY <1>1, <2>1 DEF Awaited, Due, Live, worker
  <2> QED BY <1>1, <1>2, <2>1, <2>2, <2>3 DEF DueInv
<1>8. ASSUME NEW t \in Thread, EmbedThread(t) PROVE DueInv'
  BY <1>4, <1>8 DEF EmbedThread
<1>9. ASSUME NEW q \in Question, Decide(q) PROVE DueInv'
  BY <1>4, <1>9 DEF Decide
<1>10. ASSUME UNCHANGED vars PROVE DueInv'
  BY <1>4, <1>10 DEF vars
<1> QED BY <1>3, <1>5, <1>6, <1>7, <1>8, <1>9, <1>10 DEF Next, ExtractStep, SendStep

\* A run that is due is on its way, whatever workers crash, lapse or overlap,
\* unless extractions counted side by side, the outbox gave the trigger up or
\* a cluster failed.
THEOREM DueRunsCome == Spec => []DueNeedsATriggerOrAMishap
<1>1. Init => DueInv
  <2> SUFFICES ASSUME Init PROVE DueInv
    OBVIOUS
  <2>1. moments = {} /\ Cardinality(moments) = 0 /\ Cadence \in Nat \ {0}
    BY FS_EmptySet, ConstantsAssumption DEF Init
  <2>2. Counting
    BY DEF Init, Counting
  <2>3. Awaited /\ \A w \in Worker : WorkedAt(w)
    BY <2>1 DEF Init, Awaited, WorkedAt, Due
  <2> QED BY <2>2, <2>3, InitTyped DEF DueInv
<1>2. DueInv /\ [Next]_vars => DueInv'
  BY DueKept
<1>3. DueInv => DueNeedsATriggerOrAMishap
  BY DEF DueInv, Awaited, Live, Due, DueNeedsATriggerOrAMishap
<1> QED BY <1>1, <1>2, <1>3, PTL DEF Spec

-----------------------------------------------------------------------------
(* Edges: what the operators that rewrite them do to one edge.              *)

Ends   == Moment \cup Entity \cup {FirstQuestion}
Author == Writer \cup {Nil} \cup SUBSET Entity
EdgeRows == [key : Author \X Ends \X Ends, from : Ends, to : Ends]

LEMMA MovedTo ==
    ASSUME NEW E \in SUBSET EdgeRows, NEW old \in Ends, NEW new \in Ends,
           NEW f \in Moved(E, "to", old, new)
    PROVE  /\ f \in EdgeRows
           /\ \E e \in E : /\ f.key = e.key /\ f.from = e.from
                           /\ f.to = IF e.to = old THEN new ELSE e.to
<1>1. PICK e \in E : f = IF e["to"] = old THEN [e EXCEPT !["to"] = new] ELSE e
  BY DEF Moved, Gone
<1>2. e \in EdgeRows
  OBVIOUS
<1>3. CASE e.to = old
  <2>1. f = [e EXCEPT !.to = new]
    BY <1>1, <1>3
  <2> QED
    BY <1>2, <1>3, <2>1 DEF EdgeRows
<1>4. CASE e.to # old
  <2>1. f = e
    BY <1>1, <1>4
  <2> QED
    BY <1>2, <1>4, <2>1
<1> QED
  BY <1>3, <1>4

LEMMA MovedFrom ==
    ASSUME NEW E \in SUBSET EdgeRows, NEW old \in Ends, NEW new \in Ends,
           NEW f \in Moved(E, "from", old, new)
    PROVE  /\ f \in EdgeRows
           /\ \E e \in E : /\ f.key = e.key /\ f.to = e.to
                           /\ f.from = IF e.from = old THEN new ELSE e.from
<1>1. PICK e \in E : f = IF e["from"] = old THEN [e EXCEPT !["from"] = new] ELSE e
  BY DEF Moved, Gone
<1>2. e \in EdgeRows
  OBVIOUS
<1>3. CASE e.from = old
  <2>1. f = [e EXCEPT !.from = new]
    BY <1>1, <1>3
  <2> QED
    BY <1>2, <1>3, <2>1 DEF EdgeRows
<1>4. CASE e.from # old
  <2>1. f = e
    BY <1>1, <1>4
  <2> QED
    BY <1>2, <1>4, <2>1
<1> QED
  BY <1>3, <1>4

LEMMA SupersededEdges ==
    ASSUME NEW E \in SUBSET EdgeRows, NEW Old, NEW heir \in [Old -> Ends],
           NEW f \in Superseded(E, heir)
    PROVE  /\ f \in EdgeRows
           /\ \E e \in E : /\ f.key = e.key /\ f.from = e.from /\ e.from \notin Old
                           /\ f.to = IF e.to \in Old THEN heir[e.to] ELSE e.to
<1>1. PICK e \in E : /\ e.from \notin Old
                     /\ f = IF e.to \in Old THEN [e EXCEPT !.to = heir[e.to]] ELSE e
  BY DEF Superseded
<1> QED
  BY <1>1 DEF EdgeRows

LEMMA InsertedEdges ==
    ASSUME NEW E, NEW by, NEW pairs, NEW f \in Insert(E, by, pairs)
    PROVE  f \in E \/ \E p \in pairs : f = [key |-> <<by, p[1], p[2]>>, from |-> p[1], to |-> p[2]]
BY DEF Insert, Edge

-----------------------------------------------------------------------------
(* The shapes of the variables, and what a commit writes.                   *)

Used == Entity \ Unused

\* The ends an edge may have: rows that have been inserted.
Known == {m \in Moment : moment[m] # "unused"} \cup Used \cup {FirstQuestion}

RowSet == [source : Entity, target : Entity,
           status : {"pending", "auto_merged", "approved", "rejected", "unmerged"},
           moved : SUBSET (Author \X Ends \X Ends), gone : SUBSET (Ends \X Ends),
           labels : SUBSET Name]

Shapes ==
    /\ moment \in [Moment -> {"unused", "active", "superseded"}]
    /\ replaces \in [Moment -> Moment \cup {Nil}]
    /\ entity \in [Entity -> {"unused", "active", "merged"}]
    /\ title \in [Entity -> Name \cup {Nil}]
    /\ aliases \in [Entity -> SUBSET Name]
    /\ edges \subseteq EdgeRows /\ rows \subseteq RowSet
    /\ stage \in [Writer -> {"idle", "read", "done"}]
    /\ drafts \in [Writer -> SUBSET New]
    /\ target \in [New -> Moment \cup {Nil}]
    /\ found \in [Writer -> SUBSET Entity]
    /\ missing \in [Writer -> SUBSET Name]
    /\ cand \in [Scanner -> {<<>>} \cup (Entity \X Entity)]
    /\ labels \in 0 .. MaxLabels

\* A nonempty set of numbers has the minimum that Min chooses.
LEMMA LeastIsIn ==
    ASSUME NEW S \in SUBSET Nat, S # {}
    PROVE  Min(S) \in S
<1> DEFINE R == {ss \in Nat \X Nat : ss[1] < ss[2]}
<1>0. IsWellFoundedOn(R, Nat)
  BY NatLessThanWellFounded DEF OpToRel
<1>1. PICK x \in S : \A y \in S : ~ (<<y, x>> \in R)
  <2> HIDE DEF R
  <2> QED BY <1>0, WFMin
<1>2. \A y \in S : x \in Nat /\ y \in Nat /\ ~ (y < x)
  BY <1>1
<1>3. \A y \in S : x =< y
  BY <1>2
<1> QED BY <1>3 DEF Min

LEMMA NextIsUnused == ASSUME Unused # {} PROVE NextEntity \in Unused
<1>1. Unused \in SUBSET Nat
  BY GraphAssumption DEF Unused, Entity
<1> QED
  BY <1>1, LeastIsIn DEF NextEntity

\* The moments a writer supersedes are moments, and their heirs its own.
LEMMA HeirsAre ==
    ASSUME Shapes, NEW w \in Writer, NEW heir \in Heirs(w)
    PROVE  /\ heir \in [Taken(w) -> drafts[w]] /\ heir \in [Taken(w) -> Ends]
           /\ Taken(w) \subseteq Moment /\ drafts[w] \subseteq New
<1>1. heir \in [Taken(w) -> drafts[w]] /\ drafts[w] \subseteq New
  BY DEF Heirs, Shapes
<1>2. Taken(w) \subseteq Moment
  BY <1>1 DEF Taken, Shapes
<1>3. drafts[w] \subseteq Ends
  BY <1>1 DEF Ends, Moment
<1> QED
  BY <1>1, <1>2, <1>3

\* The new edges of a commit.
Written(w, new, pairs) ==
    pairs \subseteq ({FirstQuestion} \X drafts[w])
               \cup ((found[w] \cup new) \X (found[w] \cup new))
               \cup (drafts[w] \X (found[w] \cup new))

\* What a commit writes.
LEMMA CommitEffect ==
    ASSUME Shapes, NEW w \in Writer, Commit(w)
    PROVE  \E new \in SUBSET Unused, nm \in Name \cup {Nil},
              pairs \in SUBSET (Ends \X Ends), heir \in Heirs(w) :
              /\ new # {} => nm \in Name
              /\ Written(w, new, pairs)
              /\ edges' = Insert(Superseded(edges, heir), w, pairs)
              /\ entity' = [e \in Entity |-> IF e \in new THEN "active" ELSE entity[e]]
              /\ title' = [e \in Entity |-> IF e \in new THEN nm ELSE title[e]]
<1> DEFINE new  == IF missing[w] = {} THEN {} ELSE {NextEntity}
           ends == found[w] \cup new
           nm   == IF missing[w] = {} THEN Nil ELSE CHOOSE n \in missing[w] : TRUE
<1>1. new \in SUBSET Unused
  BY NextIsUnused DEF Commit
<1>2. missing[w] # {} => nm \in Name
  BY DEF Shapes
<1>3. PICK heir \in Heirs(w), answers \in {{}, {FirstQuestion} \X drafts[w]},
           related \in {{}} \cup {{p} : p \in {q \in ends \X ends : q[1] # q[2]}},
           named \in Named(w, ends) :
              /\ edges' = Insert(Superseded(edges, heir), w,
                                 answers \cup related \cup named)
              /\ entity' = [e \in Entity |-> IF e \in new THEN "active" ELSE entity[e]]
              /\ title' = [e \in Entity |-> IF e \in new THEN CHOOSE n \in missing[w] : TRUE
                                            ELSE title[e]]
  BY DEF Commit
<1>4. title' = [e \in Entity |-> IF e \in new THEN nm ELSE title[e]]
  BY <1>3
<1>5. answers \cup related \cup named
         \subseteq ({FirstQuestion} \X drafts[w]) \cup (ends \X ends)
                     \cup (drafts[w] \X ends)
  <2> HIDE DEF ends
  <2>1. named \subseteq drafts[w] \X ends
    BY <1>3 DEF Named
  <2> QED BY <1>3, <2>1
<1>6. new # {} => nm \in Name
  BY <1>2
<1>7. answers \cup related \cup named \in SUBSET (Ends \X Ends)
  <2>1. ends \subseteq Ends /\ FirstQuestion \in Ends /\ drafts[w] \subseteq Ends
    BY <1>1 DEF Shapes, Unused, Ends, Moment
  <2> HIDE DEF ends
  <2> QED BY <1>5, <2>1
<1>8. Written(w, new, answers \cup related \cup named)
  BY <1>5 DEF Written
<1> HIDE DEF new, nm
<1> QED
  BY <1>1, <1>3, <1>4, <1>6, <1>7, <1>8

-----------------------------------------------------------------------------
(* Every edge and row is between rows that exist.                           *)

EdgesFit ==
    \A e \in edges : /\ e.from \in Known /\ e.to \in Known
                     /\ e.from \in Entity => e.to \in Entity

RowsFit ==
    \A r \in rows : /\ r.source \in Used /\ r.target \in Used /\ r.source # r.target
                    /\ \A p \in r.gone : p[1] \in Known /\ p[2] \in Used

HandsFit ==
    /\ \A w \in Writer : /\ found[w] \subseteq Used
                         /\ stage[w] = "done" => drafts[w] = {}
                         /\ \A n \in drafts[w] : moment[n] = "unused"
                         /\ \A v \in Writer : v # w => drafts[v] \cap drafts[w] = {}
    /\ \A n \in New : target[n] # Nil => moment[target[n]] # "unused" /\ moment[n] = "unused"
    /\ \A s \in Scanner : cand[s] # <<>> =>
          cand[s][1] \in Used /\ cand[s][2] \in Used /\ cand[s][1] # cand[s][2]

Fits == Shapes /\ EdgesFit /\ RowsFit /\ HandsFit

\* An edge after a commit is one from before, moved to the heir if it led to a
\* moment that was taken, or new and of this writer.
LEMMA CommittedEdges ==
    ASSUME Fits, NEW w \in Writer, Commit(w), NEW f \in edges',
           NEW new \in SUBSET Unused, NEW pairs, Written(w, new, pairs),
           NEW heir \in Heirs(w),
           edges' = Insert(Superseded(edges, heir), w, pairs)
    PROVE  /\ f \in EdgeRows
           /\ \/ \E e \in edges :
                   /\ f.key = e.key /\ f.from = e.from
                   /\ e.from \notin Taken(w)
                   /\ \/ f.to = e.to /\ e.to \notin Taken(w)
                      \/ e.to \in Taken(w) /\ f.to \in drafts[w]
              \/ /\ f.key[1] = w
                 /\ \/ f.from = FirstQuestion /\ f.to \in drafts[w]
                    \/ f.from \in found[w] \cup new /\ f.to \in found[w] \cup new
                    \/ f.from \in drafts[w] /\ f.to \in found[w] \cup new
<1> DEFINE ends == found[w] \cup new
           S    == Superseded(edges, heir)
<1>1. drafts[w] \subseteq Ends /\ edges \subseteq EdgeRows /\ w \in Author
  BY DEF Ends, Moment, Fits, Shapes, Author
<1>2. ends \subseteq Ends
  BY DEF Fits, Shapes, Ends, Unused
<1>3. CASE f \in S
  <2>1. heir \in [Taken(w) -> drafts[w]] /\ heir \in [Taken(w) -> Ends]
    BY HeirsAre DEF Fits
  <2>2. /\ f \in EdgeRows
        /\ \E e \in edges :
              /\ f.key = e.key /\ f.from = e.from /\ e.from \notin Taken(w)
              /\ f.to = IF e.to \in Taken(w) THEN heir[e.to] ELSE e.to
    BY <1>1, <1>3, <2>1, SupersededEdges
  <2> QED
    BY <2>1, <2>2
<1>4. CASE f \notin S
  <2>1. PICK p \in pairs : f = [key |-> <<w, p[1], p[2]>>, from |-> p[1], to |-> p[2]]
    BY <1>4, InsertedEdges
  <2>2. p \in ({FirstQuestion} \X drafts[w]) \cup (ends \X ends) \cup (drafts[w] \X ends)
    BY <2>1 DEF Written
  <2> HIDE DEF ends
  <2>3. p[1] \in Ends /\ p[2] \in Ends
    BY <1>1, <1>2, <2>2 DEF Ends
  <2>4. f \in EdgeRows
    BY <1>1, <2>1, <2>3 DEF EdgeRows
  <2>5. f.key[1] = w /\ f.from = p[1] /\ f.to = p[2]
    BY <2>1
  <2>6. \/ f.from = FirstQuestion /\ f.to \in drafts[w]
        \/ f.from \in ends /\ f.to \in ends
        \/ f.from \in drafts[w] /\ f.to \in ends
    BY <2>2, <2>5
  <2> QED
    BY <2>4, <2>5, <2>6 DEF ends
<1> QED
  BY <1>3, <1>4

\* An edge after a merge is one from before whose ends have followed it.
LEMMA MergedEdges ==
    ASSUME Shapes, NEW x \in Entity, NEW y \in Entity, NEW f \in Repointed(x, y)
    PROVE  /\ f \in EdgeRows
           /\ \E e \in edges :
                /\ f.key = e.key
                /\ f.to = IF e.to = x THEN y ELSE e.to
                /\ f.from = IF e.from = x THEN y ELSE e.from
<1>1. x \in Ends /\ y \in Ends /\ edges \in SUBSET EdgeRows
  BY DEF Ends, Shapes
<1>2. Arrivals(x, y) \in SUBSET EdgeRows
  BY <1>1, MovedTo DEF Arrivals
<1>3. PICK g \in Arrivals(x, y) : /\ f \in EdgeRows
                                  /\ f.key = g.key /\ f.to = g.to
                                  /\ f.from = IF g.from = x THEN y ELSE g.from
  BY <1>1, <1>2, MovedFrom DEF Repointed
<1>4. PICK e \in edges : /\ g.key = e.key /\ g.from = e.from
                         /\ g.to = IF e.to = x THEN y ELSE e.to
  BY <1>1, MovedTo DEF Arrivals
<1> QED
  BY <1>3, <1>4

LEMMA SnapshotFits ==
    ASSUME Shapes, EdgesFit, NEW x \in Used, NEW y \in Used, x # y,
           NEW st \in {"auto_merged", "approved"}
    PROVE  LET r == Snapshot(<<x, y>>, st)
           IN  /\ r \in RowSet /\ r.source = x /\ r.target = y /\ r.status = st
               /\ \A p \in r.gone : p[1] \in Known /\ p[2] \in Used
<1> DEFINE M == Keys(edges, "to", x, y) \cup Keys(Arrivals(x, y), "from", x, y)
           D == Gone(edges, "to", x, y) \cup Gone(Arrivals(x, y), "from", x, y)
           G == {<<e.from, e.to>> : e \in D}
<1>1. x \in Ends /\ y \in Ends /\ edges \in SUBSET EdgeRows /\ x \in Entity /\ y \in Entity
  BY DEF Ends, Shapes, Used
<1>2. Arrivals(x, y) \in SUBSET EdgeRows
  BY <1>1, MovedTo DEF Arrivals
<1>3. M \in SUBSET (Author \X Ends \X Ends)
  BY <1>1, <1>2 DEF Keys, EdgeRows
<1>4. ASSUME NEW e \in D PROVE e.from \in Known /\ e.from \in Ends /\ e.to \in Used
  <2>1. CASE e \in Gone(edges, "to", x, y)
    <3>1. e \in edges /\ e["to"] = x
      BY <2>1 DEF Gone
    <3>2. e \in EdgeRows
      BY <1>1, <3>1
    <3> QED
      BY <3>1, <3>2 DEF EdgesFit, EdgeRows
  <2>2. CASE e \in Gone(Arrivals(x, y), "from", x, y)
    <3>1. e \in Arrivals(x, y) /\ e["from"] = x
      BY <2>2 DEF Gone
    <3>2. PICK g \in edges : /\ e.from = g.from
                             /\ e.to = IF g.to = x THEN y ELSE g.to
      BY <1>1, <3>1, MovedTo DEF Arrivals
    <3>3. e \in EdgeRows
      BY <1>2, <3>1
    <3>4. e.from = x
      BY <3>1, <3>3 DEF EdgeRows
    <3>5. g.to \in Known /\ g.to \in Entity
      BY <1>1, <3>2, <3>4 DEF EdgesFit
    <3>6. g.to \in Used
      BY <3>5, GraphAssumption DEF Known, Used
    <3> QED
      BY <1>1, <3>2, <3>4, <3>6 DEF Known
  <2> QED
    BY <1>4, <2>1, <2>2
<1> HIDE DEF D
<1>5. G \in SUBSET (Ends \X Ends)
  BY <1>4 DEF Used, Ends
<1>6. \A p \in G : p[1] \in Known /\ p[2] \in Used
  BY <1>4
<1>7. Snapshot(<<x, y>>, st) = [source |-> x, target |-> y, status |-> st,
                                moved |-> M, gone |-> G, labels |-> aliases[x]]
  BY DEF Snapshot, D
<1> HIDE DEF M, G
<1>8. aliases[x] \in SUBSET Name
  BY <1>1 DEF Shapes
<1> QED
  BY <1>1, <1>3, <1>5, <1>6, <1>7, <1>8 DEF RowSet

\* An edge after an unmerge is one from before, an end of which may have gone
\* back from the survivor, or one made again out of the snapshot.
LEMMA RestoredEdges ==
    ASSUME Fits, NEW r \in rows, NEW new \in Entity, NEW f \in Restored(r, new)
    PROVE  /\ f \in EdgeRows
           /\ \/ \E e \in edges :
                   /\ f.key = e.key
                   /\ f.from = e.from \/ (e.from = r.target /\ f.from = new)
                   /\ f.to = e.to \/ (e.to = r.target /\ f.to = new)
              \/ /\ f.key[1] \in SUBSET Entity
                 /\ \E p \in r.gone : /\ f.from = IF p[1] = r.source THEN new ELSE p[1]
                                      /\ f.to = IF p[2] = r.source THEN new ELSE p[2]
<1> DEFINE Back(e, end) == IF e.key \in r.moved /\ e[end] = r.target THEN new ELSE e[end]
           Of(x)        == IF x = r.source THEN new ELSE x
           E            == {[e EXCEPT !.from = Back(e, "from"), !.to = Back(e, "to")] :
                               e \in edges}
           pairs        == {<<Of(p[1]), Of(p[2])>> : p \in r.gone}
<1>1. Restored(r, new) = Insert(E, Pair(r), pairs)
  BY DEF Restored
<1>2. r \in RowSet /\ edges \in SUBSET EdgeRows /\ new \in Ends
  BY DEF Fits, Shapes, Ends
<1>3. CASE f \in E
  <2>1. PICK e \in edges : f = [e EXCEPT !.from = Back(e, "from"), !.to = Back(e, "to")]
    BY <1>3
  <2>2. e \in EdgeRows
    BY <1>2, <2>1
  <2>3. /\ f.key = e.key /\ f.from = Back(e, "from") /\ f.to = Back(e, "to")
        /\ f = [key |-> e.key, from |-> Back(e, "from"), to |-> Back(e, "to")]
    <3> HIDE DEF Back
    <3> QED BY <2>1, <2>2 DEF EdgeRows
  <2>4. e["from"] = e.from /\ e["to"] = e.to /\ e.from \in Ends /\ e.to \in Ends
        /\ e.key \in Author \X Ends \X Ends
    BY <2>2 DEF EdgeRows
  <2>5. f.from = e.from \/ (e.from = r.target /\ f.from = new)
    BY <2>3, <2>4
  <2>6. f.to = e.to \/ (e.to = r.target /\ f.to = new)
    BY <2>3, <2>4
  <2>7. f.from \in Ends /\ f.to \in Ends
    BY <1>2, <2>4, <2>5, <2>6
  <2>8. f \in EdgeRows
    BY <2>3, <2>4, <2>7 DEF EdgeRows
  <2> QED
    BY <2>1, <2>3, <2>5, <2>6, <2>8
<1>4. CASE f \notin E
  <2>1. PICK q \in pairs : f = [key |-> <<Pair(r), q[1], q[2]>>, from |-> q[1], to |-> q[2]]
    <3> HIDE DEF E, pairs
    <3> QED BY <1>1, <1>4, InsertedEdges
  <2>2. PICK p \in r.gone : q = <<Of(p[1]), Of(p[2])>>
    BY <2>1
  <2>3. p[1] \in Ends /\ p[2] \in Ends
    BY <1>2, <2>2 DEF RowSet
  <2>4. q[1] = Of(p[1]) /\ q[2] = Of(p[2]) /\ q[1] \in Ends /\ q[2] \in Ends
    BY <1>2, <2>2, <2>3
  <2>5. Pair(r) \in SUBSET Entity
    BY <1>2 DEF RowSet, Pair
  <2>6. f \in EdgeRows /\ f.key[1] = Pair(r)
    BY <2>1, <2>4, <2>5 DEF EdgeRows, Author
  <2> QED
    BY <2>1, <2>2, <2>4, <2>5, <2>6
<1> QED
  BY <1>3, <1>4

-----------------------------------------------------------------------------
(* What each step writes.                                                   *)

\* What the reads of a transaction find is active at that moment.
LEMMA ReadEffect ==
    ASSUME Shapes, NEW w \in Writer, ReadEntities(w)
    PROVE  \E F \in SUBSET Active, N \in SUBSET Name :
              found' = [found EXCEPT ![w] = F] /\ missing' = [missing EXCEPT ![w] = N]
<1>1. PICK mentioned \in SUBSET Name :
          LET known == {n \in mentioned : Matches(n) # {}}
          IN  /\ found' = [found EXCEPT ![w] = {Min(Matches(n)) : n \in known}]
              /\ missing' = [missing EXCEPT ![w] = mentioned \ known]
  BY DEF ReadEntities
<1> DEFINE known == {n \in mentioned : Matches(n) # {}}
           F     == {Min(Matches(n)) : n \in known}
<1>2. ASSUME NEW n \in known PROVE Min(Matches(n)) \in Active
  <2>1. Matches(n) \in SUBSET Nat /\ Matches(n) # {} /\ Matches(n) \subseteq Active
    BY GraphAssumption DEF Matches, Active, Entity
  <2> HIDE DEF known
  <2> QED
    BY <2>1, LeastIsIn
<1>3. F \in SUBSET Active
  BY <1>2
<1> QED
  BY <1>1, <1>3

\* A candidate is two active rows of a pair no row names.
LEMMA CandidateIs ==
    ASSUME NEW c \in Candidates
    PROVE  \E x, y \in Active : c = <<x, y>> /\ x # y /\ Unseen({x, y})
<1>1. PICK p \in Active \X Active : /\ p[1] < p[2] /\ Unseen({p[1], p[2]})
                                    /\ c \in Orientations(p[1], p[2])
  BY DEF Candidates
<1>2. p[1] \in Active /\ p[2] \in Active
  BY <1>1
<1>3. p[1] \in Nat /\ p[2] \in Nat
  BY <1>2, GraphAssumption DEF Active, Entity
<1>4. p[1] # p[2]
  BY <1>1, <1>3
<1>5. c = <<p[1], p[2]>> \/ c = <<p[2], p[1]>>
  BY <1>1 DEF Orientations
<1>6. {p[1], p[2]} = {p[2], p[1]}
  OBVIOUS
<1> QED
  BY <1>1, <1>2, <1>4, <1>5, <1>6

\* What an unmerge writes.
LEMMA UnmergeEffect ==
    ASSUME NEW r, Unmerge(r)
    PROVE  \E new \in Unused :
              /\ entity' = [entity EXCEPT ![new] = "active"]
              /\ title' = [title EXCEPT ![new] = title[r.source]]
              /\ aliases' = [aliases EXCEPT
                               ![new] = r.labels \ {title[r.target]},
                               ![r.target] = @ \ (r.labels \cup {title[r.source]})]
              /\ edges' = Restored(r, new)
              /\ rows' = (rows \ {r}) \cup {ReversedRow(r, new)}
              /\ apart' = apart \cup {<<new, r.target>>}
<1>1. NextEntity \in Unused
  BY NextIsUnused DEF Unmerge
<1> QED
  BY <1>1 DEF Unmerge

\* A merge, whatever started it.
LEMMA MergeEffect ==
    ASSUME NEW x, NEW y, Merge(<<x, y>>)
    PROVE  /\ x \in Active /\ y \in Active
           /\ edges' = Repointed(x, y)
           /\ aliases' = [aliases EXCEPT ![y] =
                            (@ \cup aliases[x] \cup {title[x]}) \ {title[y]}]
           /\ entity' = [entity EXCEPT ![x] = "merged"]
           /\ late' = late \cup {<<w, x>> : w \in {v \in Writer : x \in found[v]}}
           /\ UNCHANGED <<moment, replaces, title, writers, labels, apart, raced>>
BY DEF Merge

\* The statuses only grow out of "unused".
LEMMA UsedGrows ==
    ASSUME Shapes, [GraphNext]_graphVars
    PROVE  Used \subseteq Used'
<1>1. ASSUME NEW w \in Writer, Write(w) PROVE Used \subseteq Used'
  <2>1. CASE Commit(w)
    <3>1. PICK new \in SUBSET Unused :
             entity' = [e \in Entity |-> IF e \in new THEN "active" ELSE entity[e]]
      BY <2>1, CommitEffect
    <3> QED
      BY <3>1 DEF Used, Unused
  <2>2. CASE Choose(w) \/ ReadEntities(w)
    BY <2>2 DEF Choose, ReadEntities, entities, Used, Unused
  <2> QED
    BY <1>1, <2>1, <2>2 DEF Write
<1>2. ASSUME NEW c, Merge(c) PROVE Used \subseteq Used'
  BY <1>2 DEF Merge, Shapes, Used, Unused
<1>3. ASSUME NEW r \in rows, Unmerge(r) PROVE Used \subseteq Used'
  <2>1. PICK new \in Unused : entity' = [entity EXCEPT ![new] = "active"]
    BY <1>3, UnmergeEffect
  <2> QED
    BY <2>1 DEF Shapes, Used, Unused
<1>4. CASE UNCHANGED entity
  BY <1>4 DEF Used, Unused
<1>5. ASSUME NEW e \in Entity, Label(e) PROVE UNCHANGED entity
  BY <1>5 DEF Label
<1>6. ASSUME NEW s \in Scanner, Scan(s) \/ Drop(s) \/ Ask(s) \/ AutoMergeTooLate(s)
      PROVE  UNCHANGED entity
  BY <1>6 DEF Scan, Drop, Ask, AutoMergeTooLate, entities
<1>7. ASSUME NEW r \in rows, Reject(r) PROVE UNCHANGED entity
  BY <1>7 DEF Reject, entities
<1>8. ASSUME UNCHANGED graphVars PROVE UNCHANGED entity
  BY <1>8 DEF graphVars, entities
<1> QED
  BY <1>1, <1>2, <1>3, <1>4, <1>5, <1>6, <1>7, <1>8
     DEF GraphNext, AutoMerge, Approve

\* Only a commit touches a moment, and makes none "unused".
LEMMA MomentsStay ==
    ASSUME Shapes, GraphNext, ~ \E w \in Writer : Commit(w)
    PROVE  UNCHANGED <<moment, replaces>>
<1>1. ASSUME NEW w \in Writer, Write(w) PROVE UNCHANGED <<moment, replaces>>
  BY <1>1 DEF Write, Choose, ReadEntities, graph
<1>2. ASSUME NEW s \in Scanner, Scan(s) \/ Drop(s) \/ Ask(s) \/ AutoMergeTooLate(s)
      PROVE  UNCHANGED <<moment, replaces>>
  BY <1>2 DEF Scan, Drop, Ask, AutoMergeTooLate, graph
<1> QED
  BY <1>1, <1>2 DEF GraphNext, Label, AutoMerge, Approve, Reject, Unmerge, Merge, graph

LEMMA CommitMoments ==
    ASSUME Shapes, NEW w \in Writer, Commit(w)
    PROVE  /\ moment' \in [Moment -> {"unused", "active", "superseded"}]
           /\ replaces' \in [Moment -> Moment \cup {Nil}]
           /\ drafts[w] \subseteq New /\ New \subseteq Moment
           /\ \A n \in drafts[w] : moment'[n] = "active" /\ replaces'[n] = target[n]
           /\ \A m \in Moment \ drafts[w] :
                 /\ replaces'[m] = replaces[m]
                 /\ m \notin Taken(w) => moment'[m] = moment[m]
                 /\ m \in Taken(w) => moment'[m] = "superseded"
           /\ \A m \in Moment : moment[m] # "unused" => moment'[m] # "unused"
<1>1. drafts[w] \subseteq New /\ New \subseteq Moment
  BY DEF Shapes, Moment
<1>2. \A n \in New : target[n] \in Moment \cup {Nil}
  BY DEF Shapes
<1>3. /\ moment' = Replaced(w)
      /\ replaces' = [m \in Moment |-> IF m \in drafts[w] THEN target[m] ELSE replaces[m]]
  BY DEF Commit
<1>4. moment' \in [Moment -> {"unused", "active", "superseded"}]
  BY <1>3 DEF Replaced, Shapes
<1>5. replaces' \in [Moment -> Moment \cup {Nil}]
  BY <1>1, <1>2, <1>3 DEF Shapes
<1> QED
  BY <1>1, <1>3, <1>4, <1>5 DEF Replaced, Shapes

LEMMA KnownGrows ==
    ASSUME Shapes, [GraphNext]_graphVars
    PROVE  Known \subseteq Known'
<1>1. Used \subseteq Used'
  BY UsedGrows
<1>2. \A m \in Moment : moment[m] # "unused" => moment'[m] # "unused"
  <2>1. CASE GraphNext /\ \E w \in Writer : Commit(w)
    BY <2>1, CommitMoments
  <2>2. CASE GraphNext /\ ~ \E w \in Writer : Commit(w)
    BY <2>2, MomentsStay
  <2>3. CASE UNCHANGED graphVars
    BY <2>3 DEF graphVars, graph
  <2> QED
    BY <2>1, <2>2, <2>3
<1> QED
  BY <1>1, <1>2 DEF Known

-----------------------------------------------------------------------------
(* The steps keep the edges fitting,                                        *)

\* A scanner's candidate, taken apart.
LEMMA CandParts ==
    ASSUME Shapes, HandsFit, NEW s \in Scanner, cand[s] # <<>>
    PROVE  \E x, y \in Used : cand[s] = <<x, y>> /\ x # y
<1>1. cand[s] \in Entity \X Entity
  BY DEF Shapes
<1> QED
  BY <1>1 DEF HandsFit

LEMMA GraphInitFits == GraphInit => Fits
<1> SUFFICES ASSUME GraphInit PROVE Fits
  OBVIOUS
<1>1. First \in Moment /\ 0 \in 0 .. MaxLabels
  BY GraphAssumption DEF Moment
<1>2. moment \in [Moment -> {"unused", "active", "superseded"}] /\ moment[First] = "active"
      /\ \A n \in New : moment[n] = "unused"
  BY <1>1, GraphAssumption DEF GraphInit, Moment
<1>3. entity \in [Entity -> {"unused", "active", "merged"}] /\ Used = Initial
  BY GraphAssumption DEF GraphInit, Used, Unused
<1>4. title \in [Entity -> Name \cup {Nil}] /\ aliases \in [Entity -> SUBSET Name]
  BY GraphAssumption DEF GraphInit
<1>5. ASSUME NEW e \in edges
      PROVE  e \in EdgeRows /\ e.from \in Known /\ e.to \in Known
             /\ (e.from \in Entity => e.to \in Entity)
  <2>1. First \in Ends /\ FirstQuestion \in Ends /\ Nil \in Author /\ First \in Known
        /\ FirstQuestion \in Known
    BY <1>1, <1>2 DEF Ends, Author, Known
  <2>2. CASE e = Edge(Nil, FirstQuestion, First)
    BY <2>1, <2>2, GraphAssumption DEF Edge, EdgeRows
  <2>3. CASE e \in {Edge(Nil, First, x) : x \in Initial \cap {1, 2}}
    <3>1. PICK x \in Initial : e = Edge(Nil, First, x)
      BY <2>3
    <3>2. x \in Entity /\ x \in Ends /\ x \in Known
      BY <1>3, GraphAssumption DEF Ends, Known
    <3> QED
      BY <2>1, <3>1, <3>2 DEF Edge, EdgeRows
  <2> QED
    BY <1>5, <2>2, <2>3 DEF GraphInit
<1>6. Shapes
  BY <1>1, <1>2, <1>3, <1>4, <1>5 DEF GraphInit, Shapes
<1> QED
  BY <1>2, <1>5, <1>6 DEF GraphInit, Fits, EdgesFit, RowsFit, HandsFit

\* The edges a step leaves fit.
EdgeFits(f) == f \in EdgeRows /\ f.from \in Known' /\ f.to \in Known'
               /\ (f.from \in Entity => f.to \in Entity)

LEMMA CommitFits ==
    ASSUME Fits, NEW w \in Writer, Commit(w), NEW f \in edges'
    PROVE  EdgeFits(f)
<1> USE DEF Fits
<1>1. PICK new \in SUBSET Unused, pairs \in SUBSET (Ends \X Ends), heir \in Heirs(w) :
              /\ Written(w, new, pairs)
              /\ edges' = Insert(Superseded(edges, heir), w, pairs)
              /\ entity' = [e \in Entity |-> IF e \in new THEN "active" ELSE entity[e]]
  BY CommitEffect
<1>2. \A n \in drafts[w] : n \in Known' /\ n \in Moment /\ n \notin Entity
  BY CommitMoments, GraphAssumption DEF Known
<1>3. found[w] \cup new \subseteq Known' /\ found[w] \cup new \subseteq Entity
  <2>1. found[w] \subseteq Used /\ new \subseteq Entity
    BY DEF HandsFit, Unused
  <2>2. new \subseteq Used'
    BY <1>1 DEF Used, Unused
  <2>3. Used \subseteq Used'
    BY <1>1 DEF Used, Unused
  <2> QED
    BY <2>1, <2>2, <2>3 DEF Known, Used
<1>4. Known \subseteq Known' /\ FirstQuestion \in Known' /\ FirstQuestion \notin Entity
  BY KnownGrows, GraphAssumption DEF Known, GraphNext, Write
<1>5. f \in EdgeRows
  BY <1>1, CommittedEdges
<1>6. CASE /\ f.key[1] = w
           /\ \/ f.from = FirstQuestion /\ f.to \in drafts[w]
              \/ f.from \in found[w] \cup new /\ f.to \in found[w] \cup new
              \/ f.from \in drafts[w] /\ f.to \in found[w] \cup new
  BY <1>2, <1>3, <1>4, <1>5, <1>6 DEF EdgeFits
<1>7. CASE \E e \in edges :
                   /\ f.key = e.key /\ f.from = e.from
                   /\ e.from \notin Taken(w)
                   /\ \/ f.to = e.to /\ e.to \notin Taken(w)
                      \/ e.to \in Taken(w) /\ f.to \in drafts[w]
  <2>1. PICK e \in edges :
                   /\ f.from = e.from
                   /\ \/ f.to = e.to
                      \/ e.to \in Taken(w) /\ f.to \in drafts[w]
    BY <1>7
  <2>2. e.from \in Known /\ e.to \in Known /\ (e.from \in Entity => e.to \in Entity)
    BY DEF EdgesFit
  <2>3. CASE f.to = e.to
    BY <1>4, <1>5, <2>1, <2>2, <2>3 DEF EdgeFits
  <2>4. CASE e.to \in Taken(w) /\ f.to \in drafts[w]
    <3>1. e.to \notin Entity
      BY <1>1, <2>4, HeirsAre, GraphAssumption
    <3> QED
      BY <1>2, <1>4, <1>5, <2>1, <2>2, <2>4, <3>1 DEF EdgeFits
  <2> QED
    BY <2>1, <2>3, <2>4
<1> QED
  BY <1>1, <1>6, <1>7, CommittedEdges

LEMMA MergeFits ==
    ASSUME Fits, NEW x \in Used, NEW y \in Used, GraphNext,
           edges' = Repointed(x, y), NEW f \in edges'
    PROVE  EdgeFits(f)
<1>1. x \in Entity /\ y \in Entity /\ x \in Known /\ y \in Known
  BY DEF Used, Known
<1>2. f \in EdgeRows
  BY <1>1, MergedEdges DEF Fits
<1>3. PICK e \in edges : /\ f.to = IF e.to = x THEN y ELSE e.to
                         /\ f.from = IF e.from = x THEN y ELSE e.from
  BY <1>1, MergedEdges DEF Fits
<1>4. e.from \in Known /\ e.to \in Known /\ (e.from \in Entity => e.to \in Entity)
  BY DEF Fits, EdgesFit
<1>5. Known \subseteq Known'
  BY KnownGrows DEF Fits
<1> QED
  BY <1>1, <1>2, <1>3, <1>4, <1>5 DEF EdgeFits

LEMMA UnmergeFits ==
    ASSUME Fits, NEW r \in rows, NEW new \in Unused, GraphNext, new \in Used',
           edges' = Restored(r, new), NEW f \in edges'
    PROVE  EdgeFits(f)
<1>1. new \in Entity /\ new \in Known' /\ r.target \in Entity
  BY DEF Used, Known, Unused, Fits, RowsFit
<1>2. f \in EdgeRows
  BY <1>1, RestoredEdges
<1>3. Known \subseteq Known'
  BY KnownGrows DEF Fits
<1>4. CASE \E e \in edges :
                   /\ f.key = e.key
                   /\ f.from = e.from \/ (e.from = r.target /\ f.from = new)
                   /\ f.to = e.to \/ (e.to = r.target /\ f.to = new)
  <2>1. PICK e \in edges :
                   /\ f.from = e.from \/ (e.from = r.target /\ f.from = new)
                   /\ f.to = e.to \/ (e.to = r.target /\ f.to = new)
    BY <1>4
  <2>2. e.from \in Known /\ e.to \in Known /\ (e.from \in Entity => e.to \in Entity)
    BY DEF Fits, EdgesFit
  <2> QED
    BY <1>1, <1>2, <1>3, <2>1, <2>2 DEF EdgeFits
<1>5. CASE \E p \in r.gone : /\ f.from = IF p[1] = r.source THEN new ELSE p[1]
                             /\ f.to = IF p[2] = r.source THEN new ELSE p[2]
  <2>1. PICK p \in r.gone : /\ f.from = IF p[1] = r.source THEN new ELSE p[1]
                            /\ f.to = IF p[2] = r.source THEN new ELSE p[2]
    BY <1>5
  <2>2. p[1] \in Known /\ p[2] \in Known /\ p[2] \in Entity
    BY DEF Fits, RowsFit, Used, Known
  <2> QED
    BY <1>1, <1>2, <1>3, <2>1, <2>2 DEF EdgeFits
<1> QED
  BY <1>1, <1>4, <1>5, RestoredEdges

\* Every step leaves rows of edges between ends that exist.
LEMMA EdgesFitNext ==
    ASSUME Fits, [GraphNext]_graphVars, NEW f \in edges'
    PROVE  EdgeFits(f)
<1>1. CASE UNCHANGED edges
  BY <1>1, KnownGrows DEF Fits, EdgesFit, EdgeFits, Shapes
<1>2. ASSUME NEW w \in Writer, Write(w) PROVE EdgeFits(f)
  BY <1>1, <1>2, CommitFits DEF Write, Choose, ReadEntities, graph
<1>3. ASSUME NEW s \in Scanner, GraphNext, AutoMerge(s) PROVE EdgeFits(f)
  <2>1. PICK x, y \in Used : cand[s] = <<x, y>>
    BY <1>3, CandParts DEF Fits, AutoMerge
  <2> QED
    BY <1>3, <2>1, MergeEffect, MergeFits DEF AutoMerge
<1>4. ASSUME NEW r \in rows, GraphNext, Approve(r) PROVE EdgeFits(f)
  BY <1>4, MergeEffect, MergeFits DEF Approve, Fits, RowsFit
<1>5. ASSUME NEW r \in rows, GraphNext, Unmerge(r) PROVE EdgeFits(f)
  <2>1. PICK new \in Unused : /\ entity' = [entity EXCEPT ![new] = "active"]
                              /\ edges' = Restored(r, new)
    BY <1>5, UnmergeEffect
  <2>2. new \in Used'
    BY <2>1 DEF Fits, Shapes, Used, Unused
  <2> QED
    BY <1>5, <2>1, <2>2, UnmergeFits
<1>6. ASSUME NEW s \in Scanner, Scan(s) \/ Drop(s) \/ Ask(s) \/ AutoMergeTooLate(s)
      PROVE  UNCHANGED edges
  BY <1>6 DEF Scan, Drop, Ask, AutoMergeTooLate, graph
<1> QED
  BY <1>1, <1>2, <1>3, <1>4, <1>5, <1>6 DEF GraphNext, Label, Reject, graph, graphVars

-----------------------------------------------------------------------------
(* the rows of suggestions,                                                 *)

RowFits(r) == /\ r \in RowSet /\ r.source \in Used' /\ r.target \in Used' /\ r.source # r.target
              /\ \A p \in r.gone : p[1] \in Known' /\ p[2] \in Used'

\* A row that is there already, or differs from one in its status alone.
LEMMA OldRowFits ==
    ASSUME Fits, [GraphNext]_graphVars, NEW q \in rows, NEW r \in RowSet,
           r.source = q.source, r.target = q.target, r.gone = q.gone
    PROVE  RowFits(r)
BY UsedGrows, KnownGrows DEF Fits, RowsFit, RowFits

LEMMA NewRowFits ==
    ASSUME Fits, GraphNext, NEW x \in Used, NEW y \in Used, x # y
    PROVE  /\ RowFits(Row(<<x, y>>, "pending"))
           /\ \A st \in {"auto_merged", "approved"} : RowFits(Snapshot(<<x, y>>, st))
<1>1. Used \subseteq Used' /\ Known \subseteq Known'
  BY UsedGrows, KnownGrows DEF Fits
<1>2. RowFits(Row(<<x, y>>, "pending"))
  BY <1>1 DEF Row, RowFits, RowSet, Used
<1>3. ASSUME NEW st \in {"auto_merged", "approved"}
      PROVE  RowFits(Snapshot(<<x, y>>, st))
  BY <1>1, SnapshotFits DEF Fits, RowFits
<1> QED
  BY <1>2, <1>3

LEMMA RowsFitNext ==
    ASSUME Fits, [GraphNext]_graphVars, NEW r \in rows'
    PROVE  RowFits(r)
<1>1. ASSUME r \in rows PROVE RowFits(r)
  BY <1>1, OldRowFits DEF Fits, Shapes
<1>2. ASSUME NEW s \in Scanner, GraphNext, Ask(s) PROVE RowFits(r)
  <2>1. PICK x, y \in Used : cand[s] = <<x, y>> /\ x # y
    BY <1>2, CandParts DEF Fits, Ask
  <2> QED
    BY <1>1, <1>2, <2>1, NewRowFits DEF Ask
<1>3. ASSUME NEW s \in Scanner, GraphNext, AutoMerge(s) PROVE RowFits(r)
  <2>1. PICK x, y \in Used : cand[s] = <<x, y>> /\ x # y
    BY <1>3, CandParts DEF Fits, AutoMerge
  <2> QED
    BY <1>1, <1>3, <2>1, NewRowFits DEF AutoMerge
<1>4. ASSUME NEW q \in rows, GraphNext, Approve(q) PROVE RowFits(r)
  <2>1. CASE r = Snapshot(<<q.source, q.target>>, "approved")
    BY <1>4, <2>1, NewRowFits DEF Fits, RowsFit
  <2>2. CASE \E u \in rows : r = [u EXCEPT !.status = "rejected"]
    <3>1. PICK u \in rows : r = [u EXCEPT !.status = "rejected"]
      BY <2>2
    <3>2. u \in RowSet
      BY DEF Fits, Shapes
    <3>3. r \in RowSet /\ r.source = u.source /\ r.target = u.target /\ r.gone = u.gone
      BY <3>1, <3>2 DEF RowSet
    <3> QED
      BY <1>4, <3>3, OldRowFits
  <2> QED
    BY <1>1, <1>4, <2>1, <2>2 DEF Approve
<1>5. ASSUME NEW q \in rows, GraphNext, Reject(q) PROVE RowFits(r)
  <2>1. CASE r = [q EXCEPT !.status = "rejected"]
    <3>2. q \in RowSet
      BY DEF Fits, Shapes
    <3>3. r \in RowSet /\ r.source = q.source /\ r.target = q.target /\ r.gone = q.gone
      BY <2>1, <3>2 DEF RowSet
    <3> QED
      BY <1>5, <3>3, OldRowFits
  <2> QED
    BY <1>1, <1>5, <2>1 DEF Reject
<1>6. ASSUME NEW q \in rows, GraphNext, Unmerge(q) PROVE RowFits(r)
  <2>1. PICK new \in Unused : /\ entity' = [entity EXCEPT ![new] = "active"]
                              /\ rows' = (rows \ {q}) \cup {ReversedRow(q, new)}
    BY <1>6, UnmergeEffect
  <2>2. CASE r = ReversedRow(q, new)
    <3>1. q \in RowSet /\ new \in Entity
      BY DEF Fits, Shapes, Unused
    <3>2. /\ r \in RowSet /\ r.source = new /\ r.target = q.target /\ r.gone = q.gone
      BY <2>2, <3>1 DEF RowSet, ReversedRow
    <3>3. new \in Used'
      BY <2>1 DEF Fits, Shapes, Used, Unused
    <3>4. q.target # new
      BY DEF Fits, RowsFit, Used
    <3> QED
      BY <1>6, <3>2, <3>3, <3>4, UsedGrows, KnownGrows DEF Fits, RowsFit, RowFits
  <2> QED
    BY <1>1, <2>1, <2>2
<1>7. ASSUME NEW s \in Scanner, Scan(s) \/ Drop(s) \/ AutoMergeTooLate(s)
      PROVE  UNCHANGED rows
  BY <1>7 DEF Scan, Drop, AutoMergeTooLate
<1>8. ASSUME NEW w \in Writer, Write(w) PROVE UNCHANGED rows
  BY <1>8 DEF Write, Choose, ReadEntities, Commit
<1> QED
  BY <1>1, <1>2, <1>3, <1>4, <1>5, <1>6, <1>7, <1>8 DEF GraphNext, Label, graphVars

-----------------------------------------------------------------------------
(* what writers and scanners hold, and the types.                           *)

HandFits(w) == /\ found[w] \subseteq Used
               /\ stage[w] = "done" => drafts[w] = {}
               /\ \A n \in drafts[w] : moment[n] = "unused"
               /\ \A v \in Writer : v # w => drafts[v] \cap drafts[w] = {}

TargetFits(n) == target[n] # Nil => moment[target[n]] # "unused" /\ moment[n] = "unused"

WriterTypes == /\ stage \in [Writer -> {"idle", "read", "done"}]
               /\ drafts \in [Writer -> SUBSET New]
               /\ target \in [New -> Moment \cup {Nil}]
               /\ found \in [Writer -> SUBSET Entity]
               /\ missing \in [Writer -> SUBSET Name]

WritersFit == /\ WriterTypes
              /\ \A v \in Writer : HandFits(v)
              /\ \A n \in New : TargetFits(n)

LEMMA FitWriters == ASSUME Fits PROVE WritersFit
BY DEF Fits, Shapes, HandsFit, WritersFit, WriterTypes, HandFits, TargetFits

LEMMA ChooseFits ==
    ASSUME Fits, NEW w \in Writer, Choose(w)
    PROVE  WritersFit'
<1>1. PICK n \in Fresh, m \in Refinable \cup {Nil} :
          /\ drafts' = [drafts EXCEPT ![w] = @ \cup {n}]
          /\ target' = [target EXCEPT ![n] = m]
  BY DEF Choose
<1>2. /\ m \in Moment \cup {Nil} /\ (m # Nil => moment[m] # "unused")
      /\ n \in New /\ moment[n] = "unused" /\ \A v \in Writer : n \notin drafts[v]
      /\ stage[w] = "idle"
      /\ UNCHANGED <<stage, found, missing, moment, entity>>
  BY <1>1 DEF Refinable, Fresh, Choose, graph, entities
<1>3. /\ drafts \in [Writer -> SUBSET New] /\ target \in [New -> Moment \cup {Nil}]
  BY DEF Fits, Shapes
<1>4. WriterTypes'
  BY <1>1, <1>2, <1>3 DEF Fits, Shapes, WriterTypes
<1>5. Used' = Used
  BY <1>2 DEF Used, Unused
<1>6. /\ drafts'[w] = drafts[w] \cup {n}
      /\ \A v \in Writer : v # w => drafts'[v] = drafts[v]
  BY <1>1, <1>3
<1>7. \A v \in Writer : HandFits(v)'
  BY <1>2, <1>5, <1>6, FitWriters DEF WritersFit, HandFits
<1>8. ASSUME NEW k \in New PROVE TargetFits(k)'
  <2>1. target'[k] = IF k = n THEN m ELSE target[k]
    BY <1>1, <1>3
  <2> QED
    BY <1>2, <2>1, FitWriters DEF WritersFit, TargetFits
<1> QED
  BY <1>4, <1>7, <1>8 DEF WritersFit

LEMMA ReadFits ==
    ASSUME Fits, NEW w \in Writer, ReadEntities(w)
    PROVE  WritersFit'
<1>1. PICK F \in SUBSET Active, N \in SUBSET Name :
              found' = [found EXCEPT ![w] = F] /\ missing' = [missing EXCEPT ![w] = N]
  BY ReadEffect DEF Fits
<1>2. /\ stage' = [stage EXCEPT ![w] = "read"]
      /\ UNCHANGED <<drafts, target, moment, entity>>
  BY DEF ReadEntities, graph, entities
<1>3. F \subseteq Entity /\ F \subseteq Used
  BY DEF Active, Used, Unused
<1>4. WriterTypes'
  BY <1>1, <1>2, <1>3 DEF Fits, Shapes, WriterTypes
<1>5. Used' = Used
  BY <1>2 DEF Used, Unused
<1>6. ASSUME NEW v \in Writer PROVE HandFits(v)'
  <2>1. found'[v] \subseteq Used
    BY <1>1, <1>3 DEF Fits, Shapes, HandsFit
  <2>2. stage'[v] = "done" => stage[v] = "done"
    BY <1>2 DEF Fits, Shapes
  <2> QED
    BY <1>2, <1>5, <2>1, <2>2, FitWriters DEF WritersFit, HandFits
<1>7. ASSUME NEW k \in New PROVE TargetFits(k)'
  BY <1>2, FitWriters DEF WritersFit, TargetFits
<1> QED
  BY <1>4, <1>6, <1>7 DEF WritersFit

LEMMA CommitHandsFit ==
    ASSUME Fits, NEW w \in Writer, Commit(w)
    PROVE  WritersFit'
<1>1. /\ stage' = [stage EXCEPT ![w] = "done"] /\ drafts' = [drafts EXCEPT ![w] = {}]
      /\ target' = [n \in New |-> IF n \in drafts[w] THEN Nil ELSE target[n]]
      /\ found' = [found EXCEPT ![w] = {}] /\ missing' = [missing EXCEPT ![w] = {}]
  BY DEF Commit
<1>2. WriterTypes'
  BY <1>1 DEF Fits, Shapes, WriterTypes
<1>3. Used \subseteq Used'
  BY UsedGrows DEF Fits, GraphNext, Write
<1>4. /\ drafts'[w] = {} /\ found'[w] = {}
      /\ \A v \in Writer : v # w => /\ stage'[v] = stage[v] /\ drafts'[v] = drafts[v]
                                     /\ found'[v] = found[v]
  BY <1>1 DEF Fits, Shapes
<1>5. ASSUME NEW n \in New, n \notin drafts[w], moment[n] = "unused"
      PROVE  moment'[n] = "unused"
  <2>1. n \in Moment /\ n \notin Taken(w)
    BY <1>5, GraphAssumption DEF Fits, Shapes, HandsFit, Taken, Moment
  <2> QED
    BY <1>5, <2>1, CommitMoments DEF Fits
<1>6. ASSUME NEW v \in Writer PROVE HandFits(v)'
  <2>1. CASE v = w
    BY <1>4, <2>1 DEF HandFits
  <2>2. CASE v # w
    <3>1. \A n \in drafts[v] : n \in New /\ n \notin drafts[w] /\ moment[n] = "unused"
      BY <2>2 DEF Fits, Shapes, HandsFit
    <3>2. \A n \in drafts'[v] : moment'[n] = "unused"
      BY <1>4, <1>5, <2>2, <3>1
    <3>3. \A u \in Writer : u # v => drafts'[u] \cap drafts'[v] = {}
      BY <1>4, <2>2 DEF Fits, HandsFit
    <3>4. found'[v] \subseteq Used'
      BY <1>3, <1>4, <2>2 DEF Fits, HandsFit
    <3> QED
      BY <1>4, <2>2, <3>2, <3>3, <3>4 DEF HandFits, Fits, HandsFit
  <2> QED
    BY <2>1, <2>2
<1>7. ASSUME NEW n \in New PROVE TargetFits(n)'
  <2>1. CASE n \in drafts[w]
    BY <1>1, <2>1 DEF TargetFits
  <2>2. CASE n \notin drafts[w]
    <3>1. target'[n] = target[n]
      BY <1>1, <2>2
    <3>2. target[n] # Nil => moment[target[n]] # "unused" /\ moment[n] = "unused"
      BY DEF Fits, HandsFit
    <3>3. target[n] # Nil => target[n] \in Moment
      BY DEF Fits, Shapes
    <3>4. target[n] # Nil => moment'[target[n]] # "unused"
      BY <3>2, <3>3, CommitMoments DEF Fits
    <3> QED
      BY <1>5, <2>2, <3>1, <3>2, <3>4 DEF TargetFits
  <2> QED
    BY <2>1, <2>2
<1> QED
  BY <1>2, <1>6, <1>7 DEF WritersFit

LEMMA WritersFitNext ==
    ASSUME Fits, [GraphNext]_graphVars
    PROVE  WritersFit'
<1>1. Used \subseteq Used'
  BY UsedGrows DEF Fits
<1>2. ASSUME UNCHANGED <<writers, moment>> PROVE WritersFit'
  <2>1. WriterTypes'
    BY <1>2, FitWriters DEF WritersFit, WriterTypes, writers
  <2>2. \A v \in Writer : HandFits(v)'
    BY <1>1, <1>2, FitWriters DEF WritersFit, HandFits, writers
  <2>3. \A n \in New : TargetFits(n)'
    BY <1>2, FitWriters DEF WritersFit, TargetFits, writers
  <2> QED
    BY <2>1, <2>2, <2>3 DEF WritersFit
<1>3. ASSUME NEW w \in Writer, Write(w) PROVE WritersFit'
  BY <1>3, ChooseFits, ReadFits, CommitHandsFit DEF Write
<1>4. ASSUME NEW s \in Scanner, Scan(s) \/ Drop(s) \/ Ask(s) \/ AutoMergeTooLate(s)
      PROVE  UNCHANGED <<writers, moment>>
  BY <1>4 DEF Scan, Drop, Ask, AutoMergeTooLate, graph
<1>5. ASSUME NEW c, Merge(c) PROVE UNCHANGED <<writers, moment>>
  BY <1>5 DEF Merge
<1>6. ASSUME NEW r, Reject(r) \/ Unmerge(r) PROVE UNCHANGED <<writers, moment>>
  BY <1>6 DEF Reject, Unmerge, graph
<1> QED
  BY <1>2, <1>3, <1>4, <1>5, <1>6
     DEF GraphNext, Label, graph, graphVars, AutoMerge, Approve

CandFits == /\ cand \in [Scanner -> {<<>>} \cup (Entity \X Entity)]
            /\ \A s \in Scanner : cand[s] # <<>> =>
                  cand[s][1] \in Used /\ cand[s][2] \in Used /\ cand[s][1] # cand[s][2]

LEMMA CandFitsNext ==
    ASSUME Fits, [GraphNext]_graphVars
    PROVE  CandFits'
<1>0. CandFits
  BY DEF Fits, Shapes, HandsFit, CandFits
<1>1. Used \subseteq Used'
  BY UsedGrows DEF Fits
<1>2. ASSUME UNCHANGED cand PROVE CandFits'
  BY <1>0, <1>1, <1>2 DEF CandFits
<1>3. ASSUME NEW s \in Scanner, Verified(s) PROVE CandFits'
  BY <1>0, <1>1, <1>3 DEF CandFits, Verified
<1>4. ASSUME NEW s \in Scanner, Scan(s) PROVE CandFits'
  <2>1. PICK c \in Candidates : cand' = [cand EXCEPT ![s] = c]
    BY <1>4 DEF Scan
  <2>2. PICK x, y \in Active : c = <<x, y>> /\ x # y
    BY CandidateIs
  <2>3. c \in Entity \X Entity /\ x \in Used /\ y \in Used
    BY <2>2 DEF Active, Used, Unused
  <2> QED
    BY <1>0, <1>1, <2>1, <2>2, <2>3 DEF CandFits
<1>5. ASSUME NEW w \in Writer, Write(w) PROVE UNCHANGED cand
  BY <1>5 DEF Write, Choose, ReadEntities, Commit
<1>6. ASSUME NEW r, Approve(r) \/ Reject(r) \/ Unmerge(r) PROVE UNCHANGED cand
  BY <1>6 DEF Approve, Reject, Unmerge
<1> QED
  BY <1>2, <1>3, <1>4, <1>5, <1>6
     DEF GraphNext, Label, graphVars, Drop, Ask, AutoMerge, AutoMergeTooLate

EntityTypes == /\ entity \in [Entity -> {"unused", "active", "merged"}]
               /\ title \in [Entity -> Name \cup {Nil}]
               /\ \A e \in Entity : entity[e] = "unused" <=> title[e] = Nil
               /\ aliases \in [Entity -> SUBSET Name]

LEMMA EntitiesFitNext ==
    ASSUME Fits, EntityTypes, [GraphNext]_graphVars
    PROVE  EntityTypes'
<1>1. ASSUME UNCHANGED entities PROVE EntityTypes'
  BY <1>1 DEF entities, EntityTypes
<1>2. ASSUME NEW w \in Writer, Commit(w) PROVE EntityTypes'
  <2>1. PICK new \in SUBSET Unused, nm \in Name \cup {Nil} :
              /\ new # {} => nm \in Name
              /\ entity' = [e \in Entity |-> IF e \in new THEN "active" ELSE entity[e]]
              /\ title' = [e \in Entity |-> IF e \in new THEN nm ELSE title[e]]
    BY <1>2, CommitEffect DEF Fits
  <2>2. Nil \notin Name /\ UNCHANGED aliases
    BY <1>2, GraphAssumption DEF Commit
  <2> QED
    BY <2>1, <2>2 DEF EntityTypes
<1>3. ASSUME NEW x \in Used, NEW y \in Used, Merge(<<x, y>>) PROVE EntityTypes'
  <2>1. /\ x \in Active /\ UNCHANGED title /\ entity' = [entity EXCEPT ![x] = "merged"]
        /\ aliases' = [aliases EXCEPT ![y] =
                            (@ \cup aliases[x] \cup {title[x]}) \ {title[y]}]
    BY <1>3, MergeEffect
  <2>2. x \in Entity /\ y \in Entity /\ title[x] \in Name /\ entity[x] # "unused"
    BY <2>1 DEF EntityTypes, Used, Unused
  <2>3. (aliases[y] \cup aliases[x] \cup {title[x]}) \ {title[y]} \in SUBSET Name
    BY <2>2 DEF EntityTypes
  <2> QED
    BY <2>1, <2>2, <2>3 DEF EntityTypes
<1>4. ASSUME NEW r \in rows, Unmerge(r) PROVE EntityTypes'
  <2>1. PICK new \in Unused :
              /\ entity' = [entity EXCEPT ![new] = "active"]
              /\ title' = [title EXCEPT ![new] = title[r.source]]
              /\ aliases' = [aliases EXCEPT
                               ![new] = r.labels \ {title[r.target]},
                               ![r.target] = @ \ (r.labels \cup {title[r.source]})]
    BY <1>4, UnmergeEffect
  <2>2. r.source \in Used /\ r.target \in Used /\ r.labels \in SUBSET Name
    BY DEF Fits, RowsFit, Shapes, RowSet
  <2>3. /\ new \in Entity /\ r.source \in Entity /\ r.target \in Entity
        /\ title[r.source] \in Name
    BY <2>2 DEF EntityTypes, Used, Unused
  <2>4. aliases' \in [Entity -> SUBSET Name]
    BY <2>1, <2>2, <2>3 DEF EntityTypes
  <2>5. Nil \notin Name
    BY GraphAssumption
  <2> QED
    BY <2>1, <2>3, <2>4, <2>5 DEF EntityTypes
<1>5. ASSUME NEW e \in Entity, Label(e) PROVE EntityTypes'
  <2>1. PICK A \in SUBSET Name : aliases' = [aliases EXCEPT ![e] = A]
    BY <1>5 DEF Label
  <2> QED
    BY <1>5, <2>1 DEF EntityTypes, Label
<1>6. ASSUME NEW s \in Scanner, AutoMerge(s) PROVE EntityTypes'
  <2>1. PICK x, y \in Used : cand[s] = <<x, y>>
    BY <1>6, CandParts DEF Fits, AutoMerge
  <2> QED
    BY <1>3, <1>6, <2>1 DEF AutoMerge
<1>7. ASSUME NEW r \in rows, Approve(r) PROVE EntityTypes'
  BY <1>3, <1>7 DEF Approve, Fits, RowsFit
<1>8. ASSUME NEW s \in Scanner, Scan(s) \/ Drop(s) \/ Ask(s) \/ AutoMergeTooLate(s)
      PROVE  UNCHANGED entities
  BY <1>8 DEF Scan, Drop, Ask, AutoMergeTooLate
<1>9. ASSUME NEW w \in Writer, Choose(w) \/ ReadEntities(w) PROVE UNCHANGED entities
  BY <1>9 DEF Choose, ReadEntities
<1> QED
  BY <1>1, <1>2, <1>4, <1>5, <1>6, <1>7, <1>8, <1>9
     DEF GraphNext, Write, Reject, graphVars

LEMMA LabelsFitNext ==
    ASSUME Shapes, [GraphNext]_graphVars
    PROVE  labels' \in 0 .. MaxLabels
<1>1. labels \in 0 .. MaxLabels /\ MaxLabels \in Nat
  BY GraphAssumption DEF Shapes
<1>2. ASSUME NEW e \in Entity, Label(e) PROVE labels' \in 0 .. MaxLabels
  <2>1. labels < MaxLabels /\ labels' = labels + 1
    BY <1>2 DEF Label
  <2> QED
    BY <1>1, <2>1
<1>3. ASSUME NEW w \in Writer, Write(w) PROVE UNCHANGED labels
  BY <1>3 DEF Write, Choose, ReadEntities, Commit
<1>4. ASSUME NEW s \in Scanner, Scan(s) \/ Drop(s) \/ Ask(s) \/ AutoMerge(s) \/ AutoMergeTooLate(s)
      PROVE  UNCHANGED labels
  BY <1>4 DEF Scan, Drop, Ask, AutoMergeTooLate, AutoMerge, Merge
<1>5. ASSUME NEW r \in rows, Approve(r) \/ Reject(r) \/ Unmerge(r) PROVE UNCHANGED labels
  BY <1>5 DEF Approve, Reject, Unmerge, Merge
<1> QED
  BY <1>1, <1>2, <1>3, <1>4, <1>5 DEF GraphNext, graphVars

FitInv == Fits /\ EntityTypes

LEMMA FitInvNext == FitInv /\ [GraphNext]_graphVars => FitInv'
<1> SUFFICES ASSUME Fits, EntityTypes, [GraphNext]_graphVars PROVE FitInv'
  BY DEF FitInv
<1>1. EntityTypes'
  BY EntitiesFitNext
<1>2. WritersFit'
  BY WritersFitNext
<1>3. CandFits'
  BY CandFitsNext
<1>4. \A f \in edges' : EdgeFits(f)
  BY EdgesFitNext
<1>5. \A r \in rows' : RowFits(r)
  BY RowsFitNext
<1>6. /\ moment' \in [Moment -> {"unused", "active", "superseded"}]
      /\ replaces' \in [Moment -> Moment \cup {Nil}]
  <2>1. CASE GraphNext /\ \E w \in Writer : Commit(w)
    BY <2>1, CommitMoments DEF Fits
  <2>2. CASE GraphNext /\ ~ \E w \in Writer : Commit(w)
    BY <2>2, MomentsStay DEF Fits, Shapes
  <2>3. CASE UNCHANGED graphVars
    BY <2>3 DEF graphVars, graph, Fits, Shapes
  <2> QED
    BY <2>1, <2>2, <2>3
<1>7. labels' \in 0 .. MaxLabels
  BY LabelsFitNext DEF Fits
<1>8. edges' \subseteq EdgeRows /\ rows' \subseteq RowSet
  BY <1>4, <1>5 DEF EdgeFits, RowFits
<1>9. Shapes'
  BY <1>1, <1>2, <1>3, <1>6, <1>7, <1>8 DEF Shapes, WritersFit, WriterTypes, CandFits, EntityTypes
<1>10. EdgesFit'
  BY <1>4 DEF EdgesFit, EdgeFits
<1>11. RowsFit'
  BY <1>5 DEF RowsFit, RowFits
<1>12. HandsFit'
  BY <1>2, <1>3 DEF HandsFit, WritersFit, HandFits, TargetFits, CandFits
<1> QED
  BY <1>1, <1>9, <1>10, <1>11, <1>12 DEF FitInv, Fits

LEMMA FitInvInit == GraphInit => FitInv
<1> SUFFICES ASSUME GraphInit PROVE FitInv
  OBVIOUS
<1>1. EntityTypes
  BY GraphAssumption DEF GraphInit, EntityTypes
<1> QED
  BY <1>1, GraphInitFits DEF FitInv

LEMMA FitInvHolds == GraphSpec => []FitInv
BY FitInvInit, FitInvNext, PTL DEF GraphSpec

-----------------------------------------------------------------------------
(* No two edges have the same ends.                                         *)

\* UNIQUE (from, to, type).
Single(E) == \A e, f \in E : (e.from = f.from /\ e.to = f.to) => e = f

LEMMA InsertKeepsSingle ==
    ASSUME NEW E, Single(E), NEW by, NEW pairs PROVE Single(Insert(E, by, pairs))
<1> DEFINE N == Insert(E, by, pairs)
<1> SUFFICES ASSUME NEW e \in N, NEW f \in N, e.from = f.from, e.to = f.to PROVE e = f
  BY DEF Single
<1>1. ASSUME NEW g \in N, g \notin E
      PROVE  /\ g = [key |-> <<by, g.from, g.to>>, from |-> g.from, to |-> g.to]
             /\ \A h \in E : ~ (h.from = g.from /\ h.to = g.to)
  <2>1. PICK p \in pairs : /\ g = Edge(by, p[1], p[2])
                           /\ ~ \E h \in E : h.from = p[1] /\ h.to = p[2]
    BY <1>1 DEF Insert
  <2> QED
    BY <2>1 DEF Edge
<1> HIDE DEF N
<1>2. CASE e \in E /\ f \in E
  BY <1>2 DEF Single
<1>3. CASE e \notin E /\ f \notin E
  <2>1. e = [key |-> <<by, e.from, e.to>>, from |-> e.from, to |-> e.to]
    BY <1>1, <1>3
  <2>2. f = [key |-> <<by, e.from, e.to>>, from |-> e.from, to |-> e.to]
    BY <1>1, <1>3
  <2> QED
    BY <2>1, <2>2, Zenon
<1> QED
  BY <1>1, <1>2, <1>3

LEMMA SupersededKeepsSingle ==
    ASSUME NEW E \in SUBSET EdgeRows, Single(E), NEW Old, NEW heir \in [Old -> Ends],
           \A e \in E : \A m \in Old : e.to # heir[m],
           \A m, n \in Old : heir[m] = heir[n] => m = n
    PROVE  Single(Superseded(E, heir))
<1> DEFINE N == Superseded(E, heir)
<1> SUFFICES ASSUME NEW g \in N, NEW h \in N, g.from = h.from, g.to = h.to PROVE g = h
  BY DEF Single
<1>1. PICK e \in E : g = IF e.to \in Old THEN [e EXCEPT !.to = heir[e.to]] ELSE e
  BY DEF Superseded
<1>2. PICK f \in E : h = IF f.to \in Old THEN [f EXCEPT !.to = heir[f.to]] ELSE f
  BY DEF Superseded
<1> HIDE DEF N
<1>3. e \in EdgeRows /\ f \in EdgeRows
  OBVIOUS
<1>4. e.from = g.from /\ f.from = h.from
  BY <1>1, <1>2, <1>3 DEF EdgeRows
<1>5. e.to = f.to
  <2>1. g.to = IF e.to \in Old THEN heir[e.to] ELSE e.to
    BY <1>1, <1>3 DEF EdgeRows
  <2>2. h.to = IF f.to \in Old THEN heir[f.to] ELSE f.to
    BY <1>2, <1>3 DEF EdgeRows
  <2> QED
    BY <2>1, <2>2
<1>6. e = f
  BY <1>4, <1>5 DEF Single
<1> QED
  BY <1>1, <1>2, <1>6

\* A record of the type is its three fields.
LEMMA EdgeIs ==
    ASSUME NEW e \in EdgeRows, NEW f \in EdgeRows,
           e.key = f.key, e.from = f.from, e.to = f.to
    PROVE  e = f
BY DEF EdgeRows

LEMMA MovedToKeepsSingle ==
    ASSUME NEW E \in SUBSET EdgeRows, Single(E), NEW old \in Ends, NEW new \in Ends
    PROVE  Single(Moved(E, "to", old, new))
<1> DEFINE N == Moved(E, "to", old, new)
<1> SUFFICES ASSUME NEW g \in N, NEW h \in N, g.from = h.from, g.to = h.to PROVE g = h
  BY DEF Single
<1>1. PICK e \in E \ Gone(E, "to", old, new) :
           g = IF e["to"] = old THEN [e EXCEPT !["to"] = new] ELSE e
  BY DEF Moved
<1>2. PICK f \in E \ Gone(E, "to", old, new) :
           h = IF f["to"] = old THEN [f EXCEPT !["to"] = new] ELSE f
  BY DEF Moved
<1> HIDE DEF N
<1>3. e \in EdgeRows /\ f \in EdgeRows
  OBVIOUS
<1>4. e.from = g.from /\ f.from = h.from /\ e.from = f.from
  BY <1>1, <1>2, <1>3 DEF EdgeRows
<1>5. g.to = (IF e.to = old THEN new ELSE e.to) /\ h.to = (IF f.to = old THEN new ELSE f.to)
  BY <1>1, <1>2, <1>3 DEF EdgeRows
<1>6. ASSUME NEW a \in E \ Gone(E, "to", old, new), NEW b \in E,
             a.from = b.from, a.to = old, b.to = new, old # new
      PROVE  FALSE
  <2>1. a \in EdgeRows /\ b \in EdgeRows
    OBVIOUS
  <2> DEFINE c == [[a EXCEPT !["to"] = new] EXCEPT !.key = b.key]
  <2>2. c \in EdgeRows /\ c.key = b.key /\ c.from = a.from /\ c.to = new
    BY <2>1 DEF EdgeRows
  <2> HIDE DEF c
  <2>3. b = c
    BY <1>6, <2>1, <2>2, EdgeIs
  <2>4. a["to"] = old
    BY <1>6, <2>1 DEF EdgeRows
  <2> QED
    BY <2>3, <2>4 DEF c, Gone
<1>7. CASE e.to = f.to
  <2>1. e = f
    BY <1>4, <1>7 DEF Single
  <2> QED
    BY <1>1, <1>2, <2>1
<1>8. CASE e.to # f.to
  BY <1>4, <1>5, <1>6, <1>8
<1> QED
  BY <1>7, <1>8

LEMMA MovedFromKeepsSingle ==
    ASSUME NEW E \in SUBSET EdgeRows, Single(E), NEW old \in Ends, NEW new \in Ends
    PROVE  Single(Moved(E, "from", old, new))
<1> DEFINE N == Moved(E, "from", old, new)
<1> SUFFICES ASSUME NEW g \in N, NEW h \in N, g.from = h.from, g.to = h.to PROVE g = h
  BY DEF Single
<1>1. PICK e \in E \ Gone(E, "from", old, new) :
           g = IF e["from"] = old THEN [e EXCEPT !["from"] = new] ELSE e
  BY DEF Moved
<1>2. PICK f \in E \ Gone(E, "from", old, new) :
           h = IF f["from"] = old THEN [f EXCEPT !["from"] = new] ELSE f
  BY DEF Moved
<1> HIDE DEF N
<1>3. e \in EdgeRows /\ f \in EdgeRows
  OBVIOUS
<1>4. e.to = g.to /\ f.to = h.to /\ e.to = f.to
  BY <1>1, <1>2, <1>3 DEF EdgeRows
<1>5. g.from = (IF e.from = old THEN new ELSE e.from)
      /\ h.from = (IF f.from = old THEN new ELSE f.from)
  BY <1>1, <1>2, <1>3 DEF EdgeRows
<1>6. ASSUME NEW a \in E \ Gone(E, "from", old, new), NEW b \in E,
             a.to = b.to, a.from = old, b.from = new, old # new
      PROVE  FALSE
  <2>1. a \in EdgeRows /\ b \in EdgeRows
    OBVIOUS
  <2> DEFINE c == [[a EXCEPT !["from"] = new] EXCEPT !.key = b.key]
  <2>2. c \in EdgeRows /\ c.key = b.key /\ c.to = a.to /\ c.from = new
    BY <2>1 DEF EdgeRows
  <2> HIDE DEF c
  <2>3. b = c
    BY <1>6, <2>1, <2>2, EdgeIs
  <2>4. a["from"] = old
    BY <1>6, <2>1 DEF EdgeRows
  <2> QED
    BY <2>3, <2>4 DEF c, Gone
<1>7. CASE e.from = f.from
  <2>1. e = f
    BY <1>4, <1>7 DEF Single
  <2> QED
    BY <1>1, <1>2, <2>1
<1>8. CASE e.from # f.from
  BY <1>4, <1>5, <1>6, <1>8
<1> QED
  BY <1>7, <1>8

LEMMA RepointedKeepsSingle ==
    ASSUME Shapes, Single(edges), NEW x \in Entity, NEW y \in Entity
    PROVE  Single(Repointed(x, y))
<1>1. x \in Ends /\ y \in Ends /\ edges \in SUBSET EdgeRows
  BY DEF Ends, Shapes
<1>2. Arrivals(x, y) \in SUBSET EdgeRows
  BY <1>1, MovedTo DEF Arrivals
<1>3. Single(Arrivals(x, y))
  BY <1>1, MovedToKeepsSingle DEF Arrivals
<1> QED
  BY <1>1, <1>2, <1>3, MovedFromKeepsSingle DEF Repointed

LEMMA RestoredKeepsSingle ==
    ASSUME Fits, Single(edges), NEW r \in rows, NEW new \in Unused
    PROVE  Single(Restored(r, new))
<1> DEFINE Back(e, end) == IF e.key \in r.moved /\ e[end] = r.target THEN new ELSE e[end]
           Of(x)        == IF x = r.source THEN new ELSE x
           E            == {[e EXCEPT !.from = Back(e, "from"), !.to = Back(e, "to")] :
                               e \in edges}
           pairs        == {<<Of(p[1]), Of(p[2])>> : p \in r.gone}
<1>1. Restored(r, new) = Insert(E, Pair(r), pairs)
  BY DEF Restored
<1>2. edges \in SUBSET EdgeRows /\ \A e \in edges : e.from # new /\ e.to # new
  BY GraphAssumption DEF Fits, Shapes, EdgesFit, Known, Used, Unused
<1>3. Single(E)
  <2> SUFFICES ASSUME NEW g \in E, NEW h \in E, g.from = h.from, g.to = h.to PROVE g = h
    BY DEF Single
  <2>1. PICK e \in edges : g = [e EXCEPT !.from = Back(e, "from"), !.to = Back(e, "to")]
    OBVIOUS
  <2>2. PICK f \in edges : h = [f EXCEPT !.from = Back(f, "from"), !.to = Back(f, "to")]
    OBVIOUS
  <2>3. e \in EdgeRows /\ f \in EdgeRows
    BY <1>2
  <2>4. /\ g.from = Back(e, "from") /\ g.to = Back(e, "to")
        /\ h.from = Back(f, "from") /\ h.to = Back(f, "to")
    <3> HIDE DEF Back
    <3> QED BY <2>1, <2>2, <2>3 DEF EdgeRows
  <2> HIDE DEF E
  <2>5. e["from"] = e.from /\ f["from"] = f.from /\ e["to"] = e.to /\ f["to"] = f.to
    BY <2>3 DEF EdgeRows
  <2>6. e.from # new /\ e.to # new /\ f.from # new /\ f.to # new
    BY <1>2
  <2>7. e.from = f.from
    BY <2>4, <2>5, <2>6
  <2>8. e.to = f.to
    BY <2>4, <2>5, <2>6
  <2>9. e = f
    BY <2>7, <2>8 DEF Single
  <2> QED
    BY <2>1, <2>2, <2>9
<1> HIDE DEF E, pairs
<1> QED
  BY <1>1, <1>3, InsertKeepsSingle

LEMMA CommitKeepsSingle ==
    ASSUME Fits, Single(edges), NEW w \in Writer, Commit(w)
    PROVE  Single(edges')
<1>1. PICK pairs \in SUBSET (Ends \X Ends), heir \in Heirs(w) :
          edges' = Insert(Superseded(edges, heir), w, pairs)
  BY CommitEffect DEF Fits
<1>2. Single(Superseded(edges, heir))
  <2>1. heir \in [Taken(w) -> drafts[w]] /\ heir \in [Taken(w) -> Ends]
    BY HeirsAre DEF Fits
  <2>2. \A n \in drafts[w] : n \notin Known
    <3>1. \A n \in drafts[w] : n \in Moment /\ moment[n] = "unused"
      BY DEF Fits, Shapes, HandsFit, Moment
    <3> QED
      BY <3>1, GraphAssumption DEF Known, Used
  <2>3. \A e \in edges : \A m \in Taken(w) : e.to # heir[m]
    BY <2>1, <2>2 DEF Fits, EdgesFit
  <2>4. \A m, n \in Taken(w) : heir[m] = heir[n] => m = n
    BY <1>1 DEF Heirs
  <2>5. edges \in SUBSET EdgeRows
    BY DEF Fits, Shapes
  <2> QED
    BY <2>1, <2>3, <2>4, <2>5, SupersededKeepsSingle
<1> QED
  BY <1>1, <1>2, InsertKeepsSingle

LEMMA SingleNext ==
    ASSUME Fits, Single(edges), [GraphNext]_graphVars
    PROVE  Single(edges')
<1>1. CASE UNCHANGED edges
  BY <1>1
<1>2. ASSUME NEW w \in Writer, Write(w) PROVE Single(edges')
  BY <1>1, <1>2, CommitKeepsSingle DEF Write, Choose, ReadEntities, graph
<1>3. ASSUME NEW x \in Used, NEW y \in Used, Merge(<<x, y>>) PROVE Single(edges')
  BY <1>3, MergeEffect, RepointedKeepsSingle DEF Fits, Used
<1>4. ASSUME NEW s \in Scanner, AutoMerge(s) PROVE Single(edges')
  <2>1. PICK x, y \in Used : cand[s] = <<x, y>>
    BY <1>4, CandParts DEF Fits, AutoMerge
  <2> QED
    BY <1>3, <1>4, <2>1 DEF AutoMerge
<1>5. ASSUME NEW r \in rows, Approve(r) PROVE Single(edges')
  BY <1>3, <1>5 DEF Approve, Fits, RowsFit
<1>6. ASSUME NEW r \in rows, Unmerge(r) PROVE Single(edges')
  BY <1>6, UnmergeEffect, RestoredKeepsSingle
<1>7. ASSUME NEW s \in Scanner, Scan(s) \/ Drop(s) \/ Ask(s) \/ AutoMergeTooLate(s)
      PROVE  UNCHANGED edges
  BY <1>7 DEF Scan, Drop, Ask, AutoMergeTooLate, graph
<1> QED
  BY <1>1, <1>2, <1>4, <1>5, <1>6, <1>7 DEF GraphNext, Label, Reject, graph, graphVars

SingleInv == FitInv /\ Single(edges)

LEMMA SingleInvHolds == GraphSpec => []SingleInv
<1>1. GraphInit => SingleInv
  <2> SUFFICES ASSUME GraphInit PROVE Single(edges)
    BY FitInvInit DEF SingleInv
  <2>1. First # FirstQuestion
    BY GraphAssumption DEF Moment
  <2> QED
    BY <2>1 DEF GraphInit, Single, Edge
<1>2. SingleInv /\ [GraphNext]_graphVars => SingleInv'
  <2> SUFFICES ASSUME SingleInv, [GraphNext]_graphVars PROVE SingleInv'
    OBVIOUS
  <2>1. FitInv'
    BY FitInvNext DEF SingleInv
  <2>2. Single(edges')
    BY SingleNext DEF SingleInv, FitInv
  <2> QED
    BY <2>1, <2>2 DEF SingleInv, Single
<1> QED
  BY <1>1, <1>2, PTL DEF GraphSpec

\* Extractions, edits, scans, merges both ways round and unmerges keep the rows
\* and locals of the graph in their shape: a row in use is reused, a survivor is
\* never its own source, and UNIQUE (from, to, type) holds.
THEOREM GraphTypesHold == GraphSpec => []GraphTypeOK
<1>1. SingleInv => GraphTypeOK
  <2> SUFFICES ASSUME SingleInv PROVE GraphTypeOK
    OBVIOUS
  <2>1. \A r \in rows : Pair(r) \subseteq Entity \ Unused /\ r.source # r.target
    BY DEF SingleInv, FitInv, Fits, RowsFit, Pair, Used
  <2>2. \A s \in Scanner : cand[s] = <<>> \/ cand[s] \in Entity \X Entity
    BY DEF SingleInv, FitInv, Fits, Shapes
  <2> QED
    BY <2>1, <2>2 DEF SingleInv, Single, FitInv, Fits, Shapes, EntityTypes, GraphTypeOK
<1> QED
  BY <1>1, SingleInvHolds, PTL

-----------------------------------------------------------------------------
(* Forks and dead ends.                                                     *)

\* The lineage of the moments: what each is to replace or has replaced.
Lineage ==
    /\ \A n \in New : /\ moment[n] = "unused" => replaces[n] = Nil
                      /\ replaces[n] # Nil => moment[replaces[n]] = "superseded"
    /\ \A n, k \in New : n # k /\ target[n] # Nil =>
          /\ target[n] = target[k] => {n, k} \in raced
          /\ target[n] = replaces[k] => {n, k} \in raced
    /\ \A n, k \in New :
          (n # k /\ replaces[n] = replaces[k] /\ replaces[n] # Nil)
              => {n, k} \in raced

LEMMA LineageNext == FitInv /\ Lineage /\ [GraphNext]_graphVars => Lineage'
<1> SUFFICES ASSUME FitInv, Lineage, [GraphNext]_graphVars PROVE Lineage'
  OBVIOUS
<1>0. /\ target \in [New -> Moment \cup {Nil}]
      /\ replaces \in [Moment -> Moment \cup {Nil}]
      /\ drafts \in [Writer -> SUBSET New]
      /\ New \subseteq Moment
  BY DEF FitInv, Fits, Shapes, Moment
<1>1. ASSUME NEW w \in Writer, Choose(w) PROVE Lineage'
  <2>1. PICK n \in Fresh, m \in Refinable \cup {Nil} :
          /\ target' = [target EXCEPT ![n] = m]
          /\ raced' = raced \cup {{n, k} : k \in {k \in New : target[k] = m /\ m # Nil}}
    BY <1>1 DEF Choose
  <2>2. UNCHANGED <<moment, replaces>> /\ n \in New /\ moment[n] = "unused"
    BY <1>1, <2>1 DEF Choose, Fresh, graph
  <2>3. m # Nil => moment[m] = "active"
    BY <2>1 DEF Refinable
  <2>4. \A k \in New : target[k] = m /\ m # Nil => {n, k} \in raced' /\ {k, n} \in raced'
    <3> TAKE k \in New
    <3>1. {n, k} = {k, n}
      OBVIOUS
    <3> QED
      BY <2>1, <3>1
  <2>5. raced \subseteq raced'
    BY <2>1
  <2>6. target'[n] = m /\ \A k \in New : k # n => target'[k] = target[k]
    BY <1>0, <2>1, <2>2
  <2>7. \A k \in New : m # Nil => replaces[k] # m
    BY <2>3 DEF Lineage
  <2>8. replaces[n] = Nil
    BY <2>2 DEF Lineage
  <2>9. ASSUME NEW j \in New, NEW k \in New, j # k, target'[j] # Nil
        PROVE  /\ target'[j] = target'[k] => {j, k} \in raced'
               /\ target'[j] = replaces'[k] => {j, k} \in raced'
    <3>1. CASE j = n
      BY <2>2, <2>4, <2>6, <2>7, <2>9, <3>1
    <3>2. CASE j # n /\ k = n
      BY <2>2, <2>4, <2>5, <2>6, <2>8, <2>9, <3>2 DEF Lineage
    <3>3. CASE j # n /\ k # n
      BY <2>2, <2>5, <2>6, <2>9, <3>3 DEF Lineage
    <3> QED
      BY <3>1, <3>2, <3>3
  <2> QED
    BY <2>2, <2>5, <2>9 DEF Lineage
<1>3. ASSUME NEW w \in Writer, Commit(w) PROVE Lineage'
  <2>1. /\ target' = [n \in New |-> IF n \in drafts[w] THEN Nil ELSE target[n]]
        /\ UNCHANGED raced
    BY <1>3 DEF Commit, history
  <2>2. \A n \in New : n \in drafts[w] => moment[n] = "unused" /\ replaces[n] = Nil
    BY DEF FitInv, Fits, HandsFit, Lineage
  <2>3. \A n \in New : /\ n \in drafts[w] => replaces'[n] = target[n] /\ target'[n] = Nil
                       /\ n \notin drafts[w] => replaces'[n] = replaces[n]
                                                /\ target'[n] = target[n]
    BY <1>0, <1>3, <2>1, CommitMoments DEF FitInv, Fits
  <2>4. \A n \in New : moment'[n] = "unused" => n \notin drafts[w] /\ moment[n] = "unused"
    <3> TAKE n \in New
    <3>1. n \in drafts[w] => moment'[n] = "active"
      BY <1>3, CommitMoments DEF FitInv, Fits
    <3>2. moment[n] # "unused" => moment'[n] # "unused"
      BY <1>0, <1>3, CommitMoments DEF FitInv, Fits
    <3> QED
      BY <3>1, <3>2
  <2>5. \A m \in Moment : moment[m] = "superseded" => moment'[m] = "superseded"
    <3> TAKE m \in Moment
    <3>1. m \in drafts[w] => moment[m] = "unused"
      BY DEF FitInv, Fits, HandsFit
    <3> QED
      BY <1>3, <3>1, CommitMoments DEF FitInv, Fits
  <2>6. ASSUME NEW n \in drafts[w], target[n] # Nil PROVE moment'[target[n]] = "superseded"
    <3>1. n \in New /\ target[n] \in Moment /\ target[n] \in Taken(w)
      BY <1>0, <2>6 DEF Taken
    <3>2. target[n] \notin drafts[w]
      BY <2>6, <3>1 DEF FitInv, Fits, HandsFit
    <3> QED
      BY <1>3, <3>1, <3>2, CommitMoments DEF FitInv, Fits
  <2>7. ASSUME NEW n \in New, replaces'[n] # Nil PROVE moment'[replaces'[n]] = "superseded"
    <3>1. CASE n \in drafts[w]
      BY <2>3, <2>6, <2>7, <3>1
    <3>2. CASE n \notin drafts[w]
      <4>1. replaces[n] \in Moment /\ moment[replaces[n]] = "superseded"
        BY <1>0, <2>3, <2>7, <3>2 DEF Lineage
      <4> QED
        BY <2>3, <2>5, <3>2, <4>1
    <3> QED
      BY <3>1, <3>2
  <2>8. \A n \in New : moment'[n] = "unused" => replaces'[n] = Nil
    BY <2>3, <2>4 DEF Lineage
  <2>9. ASSUME NEW n \in New, NEW k \in New, n # k, target'[n] # Nil
        PROVE  /\ target'[n] = target'[k] => {n, k} \in raced
               /\ target'[n] = replaces'[k] => {n, k} \in raced
    <3>1. n \notin drafts[w] /\ target'[n] = target[n]
      BY <2>3, <2>9
    <3>2. CASE k \in drafts[w]
      BY <2>3, <2>9, <3>1, <3>2 DEF Lineage
    <3>3. CASE k \notin drafts[w]
      BY <2>3, <2>9, <3>1, <3>3 DEF Lineage
    <3> QED
      BY <3>2, <3>3
  <2>10. ASSUME NEW n \in New, NEW k \in New, n # k, replaces'[n] = replaces'[k],
                replaces'[n] # Nil
         PROVE  {n, k} \in raced
    <3>0. {n, k} = {k, n}
      OBVIOUS
    <3>1. CASE n \in drafts[w] /\ k \in drafts[w]
      BY <2>3, <2>10, <3>1 DEF Lineage
    <3>2. CASE n \in drafts[w] /\ k \notin drafts[w]
      BY <2>3, <2>10, <3>2 DEF Lineage
    <3>3. CASE n \notin drafts[w] /\ k \in drafts[w]
      <4>1. target[k] # Nil /\ target[k] = replaces[n]
        BY <2>3, <2>10, <3>3
      <4>2. {k, n} \in raced
        BY <2>10, <4>1 DEF Lineage
      <4> QED
        BY <3>0, <4>2
    <3>4. CASE n \notin drafts[w] /\ k \notin drafts[w]
      BY <2>3, <2>10, <3>4 DEF Lineage
    <3> QED
      BY <3>1, <3>2, <3>3, <3>4
  <2> QED
    BY <2>1, <2>7, <2>8, <2>9, <2>10 DEF Lineage
<1>4. ASSUME UNCHANGED <<moment, replaces, target, raced>> PROVE Lineage'
  BY <1>4 DEF Lineage
<1>5. ASSUME NEW s \in Scanner, Scan(s) \/ Drop(s) \/ Ask(s) \/ AutoMergeTooLate(s)
      PROVE  UNCHANGED <<moment, replaces, target, raced>>
  BY <1>5 DEF Scan, Drop, Ask, AutoMergeTooLate, graph, writers, history
<1>6. ASSUME NEW c, Merge(c) PROVE UNCHANGED <<moment, replaces, target, raced>>
  BY <1>6 DEF Merge, writers
<1>7. ASSUME NEW r, Reject(r) \/ Unmerge(r)
      PROVE  UNCHANGED <<moment, replaces, target, raced>>
  BY <1>7 DEF Reject, Unmerge, graph, writers, history
<1>2. ASSUME NEW w \in Writer, ReadEntities(w)
      PROVE  UNCHANGED <<moment, replaces, target, raced>>
  BY <1>2 DEF ReadEntities, graph, history
<1> QED
  BY <1>1, <1>2, <1>3, <1>4, <1>5, <1>6, <1>7
     DEF GraphNext, Write, Label, AutoMerge, Approve, graph, writers, history, graphVars

\* An end of an edge of an author is alive, or was merged away in his hands.
EdgeAlive(e) == /\ e.to \in Moment => moment[e.to] = "active"
                /\ e.from \in Moment => moment[e.from] = "active" \/ ByUnmerge(e)
                /\ \A x \in {e.from, e.to} \cap Entity :
                      entity[x] = "active" \/ <<e.key[1], x>> \in late \/ ByUnmerge(e)

EndsAlive ==
    /\ \A e \in edges : EdgeAlive(e)
    /\ \A w \in Writer : \A x \in found[w] : entity[x] = "active" \/ <<w, x>> \in late

LEMMA CommitAlive ==
    ASSUME FitInv, EndsAlive, NEW w \in Writer, Commit(w)
    PROVE  EndsAlive'
<1> USE DEF FitInv, Fits
<1>1. PICK new \in SUBSET Unused, pairs \in SUBSET (Ends \X Ends), heir \in Heirs(w) :
              /\ Written(w, new, pairs)
              /\ edges' = Insert(Superseded(edges, heir), w, pairs)
              /\ entity' = [e \in Entity |-> IF e \in new THEN "active" ELSE entity[e]]
  BY CommitEffect
<1>2. UNCHANGED late /\ found' = [found EXCEPT ![w] = {}]
  BY DEF Commit, history
<1>3. \A x \in Entity : entity[x] = "active" => entity'[x] = "active"
  BY <1>1
<1>4. /\ \A n \in drafts[w] : n \in Moment /\ moment[n] = "unused" /\ moment'[n] = "active"
      /\ \A m \in Moment : moment[m] = "active" /\ m \notin Taken(w) => moment'[m] = "active"
  BY CommitMoments DEF HandsFit, Shapes
<1>5. \A x \in found[w] \cup new :
         x \in Entity /\ x \notin Moment /\ (entity'[x] = "active" \/ <<w, x>> \in late)
  BY <1>1, <1>3, GraphAssumption DEF EndsAlive, Shapes, Unused
<1>6. (\A n \in drafts[w] : n \notin Entity) /\ FirstQuestion \notin Entity /\ FirstQuestion \notin Moment
  BY <1>4, GraphAssumption
<1>7. ASSUME NEW f \in edges' PROVE EdgeAlive(f)'
  <2>1. CASE /\ f.key[1] = w
             /\ \/ f.from = FirstQuestion /\ f.to \in drafts[w]
                \/ f.from \in found[w] \cup new /\ f.to \in found[w] \cup new
                \/ f.from \in drafts[w] /\ f.to \in found[w] \cup new
    BY <1>2, <1>4, <1>5, <1>6, <2>1 DEF EdgeAlive
  <2>2. CASE \E e \in edges :
                   /\ f.key = e.key /\ f.from = e.from
                   /\ e.from \notin Taken(w)
                   /\ \/ f.to = e.to /\ e.to \notin Taken(w)
                      \/ e.to \in Taken(w) /\ f.to \in drafts[w]
    <3>1. PICK e \in edges :
                   /\ f.key = e.key /\ f.from = e.from
                   /\ e.from \notin Taken(w)
                   /\ \/ f.to = e.to /\ e.to \notin Taken(w)
                      \/ e.to \in Taken(w) /\ f.to \in drafts[w]
      BY <2>2
    <3>2. EdgeAlive(e) /\ (ByUnmerge(e) <=> ByUnmerge(f)) /\ f.key[1] = e.key[1]
      BY <3>1 DEF EndsAlive, ByUnmerge
    <3>3. Taken(w) \subseteq Moment
      BY <1>1, HeirsAre
    <3>4. f.from \in Moment => moment'[f.from] = "active" \/ ByUnmerge(f)
      BY <1>4, <3>1, <3>2, <3>3 DEF EdgeAlive
    <3>5. f.to \in Moment => moment'[f.to] = "active"
      BY <1>4, <3>1, <3>2, <3>3 DEF EdgeAlive
    <3>6. f.from \in Entity => entity'[f.from] = "active" \/ <<f.key[1], f.from>> \in late \/ ByUnmerge(f)
      BY <1>3, <3>1, <3>2 DEF EdgeAlive
    <3>7. f.to \in Entity => entity'[f.to] = "active" \/ <<f.key[1], f.to>> \in late \/ ByUnmerge(f)
      BY <1>3, <1>6, <3>1, <3>2 DEF EdgeAlive
    <3>8. ByUnmerge(f)' <=> ByUnmerge(f)
      BY DEF ByUnmerge
    <3> QED
      BY <1>2, <3>4, <3>5, <3>6, <3>7, <3>8 DEF EdgeAlive
  <2> QED
    BY <1>1, <2>1, <2>2, CommittedEdges
<1>8. \A v \in Writer : \A x \in found'[v] : entity'[x] = "active" \/ <<v, x>> \in late'
  BY <1>2, <1>3 DEF EndsAlive, Shapes
<1> QED
  BY <1>7, <1>8 DEF EndsAlive

LEMMA MergeAlive ==
    ASSUME FitInv, EndsAlive, NEW x \in Used, NEW y \in Used, x # y, Merge(<<x, y>>)
    PROVE  EndsAlive'
<1> USE DEF FitInv, Fits
<1>1. /\ x \in Active /\ y \in Active
      /\ edges' = Repointed(x, y)
      /\ entity' = [entity EXCEPT ![x] = "merged"]
      /\ late' = late \cup {<<w, x>> : w \in {v \in Writer : x \in found[v]}}
      /\ UNCHANGED <<moment, writers>>
  BY MergeEffect
<1>2. x \in Entity /\ y \in Entity /\ entity'[y] = "active" /\ y \notin Moment
  BY <1>1, GraphAssumption DEF Active, Shapes
<1>3. \A z \in Entity : z # x => entity'[z] = entity[z]
  BY <1>1 DEF Shapes
<1>4. late \subseteq late' /\ \A w \in Writer : x \in found[w] => <<w, x>> \in late'
  BY <1>1
<1>5. ASSUME NEW f \in edges' PROVE EdgeAlive(f)'
  <2>1. PICK e \in edges :
                /\ f.key = e.key
                /\ f.to = IF e.to = x THEN y ELSE e.to
                /\ f.from = IF e.from = x THEN y ELSE e.from
    BY <1>1, <1>2, MergedEdges
  <2>2. EdgeAlive(e) /\ (ByUnmerge(e) <=> ByUnmerge(f)) /\ f.key[1] = e.key[1]
    BY <2>1 DEF EndsAlive, ByUnmerge
  <2>3. f.from \in Moment => moment'[f.from] = "active" \/ ByUnmerge(f)
    BY <1>1, <1>2, <2>1, <2>2 DEF EdgeAlive
  <2>4. f.to \in Moment => moment'[f.to] = "active"
    BY <1>1, <1>2, <2>1, <2>2 DEF EdgeAlive
  <2>5. f.from \in Entity => entity'[f.from] = "active" \/ <<f.key[1], f.from>> \in late' \/ ByUnmerge(f)
    BY <1>2, <1>3, <1>4, <2>1, <2>2 DEF EdgeAlive
  <2>6. f.to \in Entity => entity'[f.to] = "active" \/ <<f.key[1], f.to>> \in late' \/ ByUnmerge(f)
    BY <1>2, <1>3, <1>4, <2>1, <2>2 DEF EdgeAlive
  <2>7. ByUnmerge(f)' <=> ByUnmerge(f)
    BY DEF ByUnmerge
  <2> QED
    BY <2>3, <2>4, <2>5, <2>6, <2>7 DEF EdgeAlive
<1>6. \A w \in Writer : \A z \in found'[w] : entity'[z] = "active" \/ <<w, z>> \in late'
  BY <1>1, <1>3, <1>4 DEF EndsAlive, Shapes, writers
<1> QED
  BY <1>5, <1>6 DEF EndsAlive

LEMMA UnmergeAlive ==
    ASSUME FitInv, EndsAlive, NEW r \in rows, Unmerge(r)
    PROVE  EndsAlive'
<1> USE DEF FitInv, Fits
<1>1. PICK new \in Unused : /\ entity' = [entity EXCEPT ![new] = "active"]
                            /\ edges' = Restored(r, new)
  BY UnmergeEffect
<1>2. UNCHANGED <<moment, writers, late>>
  BY DEF Unmerge
<1>3. new \in Entity /\ entity'[new] = "active" /\ new \notin Moment
  BY <1>1, GraphAssumption DEF Unused, Shapes
<1>4. \A z \in Entity : entity[z] = "active" => entity'[z] = "active"
  BY <1>1 DEF Shapes
<1>5. ASSUME NEW f \in edges' PROVE EdgeAlive(f)'
  <2>1. ByUnmerge(f)' <=> ByUnmerge(f)
    BY DEF ByUnmerge
  <2>2. CASE \E e \in edges :
                   /\ f.key = e.key
                   /\ f.from = e.from \/ (e.from = r.target /\ f.from = new)
                   /\ f.to = e.to \/ (e.to = r.target /\ f.to = new)
    <3>1. PICK e \in edges :
                   /\ f.key = e.key
                   /\ f.from = e.from \/ f.from = new
                   /\ f.to = e.to \/ f.to = new
      BY <2>2
    <3>2. EdgeAlive(e) /\ (ByUnmerge(e) <=> ByUnmerge(f)) /\ f.key[1] = e.key[1]
      BY <3>1 DEF EndsAlive, ByUnmerge
    <3> QED
      BY <1>2, <1>3, <1>4, <2>1, <3>1, <3>2 DEF EdgeAlive
  <2>3. CASE /\ f.key[1] \in SUBSET Entity
             /\ \E p \in r.gone : f.to = IF p[2] = r.source THEN new ELSE p[2]
    <3>1. PICK p \in r.gone : f.to = IF p[2] = r.source THEN new ELSE p[2]
      BY <2>3
    <3>2. f.to \notin Moment
      BY <1>3, <3>1, GraphAssumption DEF RowsFit, Used
    <3>3. ByUnmerge(f)
      BY <2>3 DEF ByUnmerge
    <3> QED
      BY <2>1, <3>2, <3>3 DEF EdgeAlive
  <2> QED
    BY <1>1, <1>3, <2>2, <2>3, RestoredEdges
<1>6. \A w \in Writer : \A z \in found'[w] : entity'[z] = "active" \/ <<w, z>> \in late'
  BY <1>2, <1>4 DEF EndsAlive, Shapes, writers
<1> QED
  BY <1>5, <1>6 DEF EndsAlive

LEMMA EndsAliveNext == FitInv /\ EndsAlive /\ [GraphNext]_graphVars => EndsAlive'
<1> SUFFICES ASSUME FitInv, EndsAlive, [GraphNext]_graphVars PROVE EndsAlive'
  OBVIOUS
<1>1. ASSUME UNCHANGED <<moment, entity, edges, found, late>> PROVE EndsAlive'
  BY <1>1 DEF EndsAlive, EdgeAlive, ByUnmerge
<1>2. ASSUME NEW w \in Writer, Choose(w) PROVE UNCHANGED <<moment, entity, edges, found, late>>
  BY <1>2 DEF Choose, graph, entities
<1>3. ASSUME NEW w \in Writer, ReadEntities(w) PROVE EndsAlive'
  <2>1. PICK F \in SUBSET Active : found' = [found EXCEPT ![w] = F]
    BY <1>3, ReadEffect DEF FitInv, Fits
  <2>2. UNCHANGED <<moment, entity, edges, late>>
    BY <1>3 DEF ReadEntities, graph, entities, history
  <2>3. \A v \in Writer : \A x \in found'[v] : entity'[x] = "active" \/ <<v, x>> \in late'
    BY <2>1, <2>2 DEF EndsAlive, FitInv, Fits, Shapes, Active
  <2> QED
    BY <2>2, <2>3 DEF EndsAlive, EdgeAlive, ByUnmerge
<1>4. ASSUME NEW s \in Scanner, AutoMerge(s) PROVE EndsAlive'
  <2>1. PICK x, y \in Used : cand[s] = <<x, y>> /\ x # y
    BY <1>4, CandParts DEF FitInv, Fits, AutoMerge
  <2> QED
    BY <1>4, <2>1, MergeAlive DEF AutoMerge
<1>5. ASSUME NEW r \in rows, Approve(r) PROVE EndsAlive'
  BY <1>5, MergeAlive DEF Approve, FitInv, Fits, RowsFit
<1>6. ASSUME NEW s \in Scanner, Scan(s) \/ Drop(s) \/ Ask(s) \/ AutoMergeTooLate(s)
      PROVE  UNCHANGED <<moment, entity, edges, found, late>>
  BY <1>6 DEF Scan, Drop, Ask, AutoMergeTooLate, graph, entities, writers, history
<1>7. ASSUME NEW r \in rows, Reject(r) PROVE UNCHANGED <<moment, entity, edges, found, late>>
  BY <1>7 DEF Reject, graph, entities, writers, history
<1>8. ASSUME NEW e \in Entity, Label(e) PROVE UNCHANGED <<moment, entity, edges, found, late>>
  BY <1>8 DEF Label, graph, writers, history
<1>9. ASSUME UNCHANGED graphVars PROVE UNCHANGED <<moment, entity, edges, found, late>>
  BY <1>9 DEF graphVars, graph, entities, writers, history
<1> QED
  BY <1>1, <1>2, <1>3, <1>4, <1>5, <1>6, <1>7, <1>8, <1>9, CommitAlive, UnmergeAlive
     DEF GraphNext, Write

EndsInv == FitInv /\ Lineage /\ EndsAlive

LEMMA EndsInvInit == GraphInit => EndsInv
<1> SUFFICES ASSUME GraphInit PROVE EndsInv
  OBVIOUS
<1>1. FitInv
  BY FitInvInit
<1>2. Lineage
  BY DEF GraphInit, Lineage, Moment
<1>3. ASSUME NEW e \in edges PROVE EdgeAlive(e)
  <2>1. CASE e = Edge(Nil, FirstQuestion, First)
    <3>1. e.from = FirstQuestion /\ e.to = First
      BY <2>1 DEF Edge
    <3>2. First \in Moment /\ First \notin Entity
      BY GraphAssumption DEF Moment
    <3>3. moment[First] = "active"
      BY <3>2 DEF GraphInit
    <3> QED
      BY <3>1, <3>2, <3>3, GraphAssumption DEF EdgeAlive
  <2>2. CASE e \in {Edge(Nil, First, x) : x \in Initial \cap {1, 2}}
    <3>1. PICK x \in Initial : e = Edge(Nil, First, x)
      BY <2>2
    <3>2. e.from = First /\ e.to = x
      BY <3>1 DEF Edge
    <3>3. First \in Moment /\ First \notin Entity /\ x \in Entity /\ x \notin Moment
      BY <3>1, GraphAssumption DEF Moment
    <3>4. moment[First] = "active" /\ entity[x] = "active"
      BY <3>1, <3>3 DEF GraphInit
    <3> QED
      BY <3>2, <3>3, <3>4 DEF EdgeAlive
  <2> QED
    BY <1>3, <2>1, <2>2 DEF GraphInit
<1>4. \A w \in Writer : found[w] = {}
  BY DEF GraphInit
<1> QED
  BY <1>1, <1>2, <1>3, <1>4 DEF EndsInv, EndsAlive

\* For any writers and merges, two moments replace one only if both had chosen it
\* before either was there, for two writers or for one extraction, no edge leads to a superseded moment, and one ends at a merged entity
\* only if the merge came between its author's read and commit (persistence.py
\* looks entities up before the transaction) or an unmerge restored it.
THEOREM DeadEndsHaveACause == GraphSpec => []ForksAndDeadEndsNeedAMishap
<1>1. EndsInv /\ [GraphNext]_graphVars => EndsInv'
  BY FitInvNext, LineageNext, EndsAliveNext DEF EndsInv
<1>2. EndsInv => ForksAndDeadEndsNeedAMishap
  BY DEF EndsInv, Lineage, EndsAlive, EdgeAlive, ForksAndDeadEndsNeedAMishap
<1> QED
  BY <1>1, <1>2, EndsInvInit, PTL DEF GraphSpec

-----------------------------------------------------------------------------
(* Pairs pulled apart.                                                      *)

\* A pair pulled apart: of rows that exist, remembered by a row that says so,
\* and in no scan's hands.
KeptApart(p) ==
    /\ p[1] \in Used /\ p[2] \in Used
    /\ \E r \in rows : Pair(r) = {p[1], p[2]}
    /\ \A r \in rows : Pair(r) = {p[1], p[2]} => r.status = "unmerged"
    /\ \A s \in Scanner : cand[s] # <<>> => {cand[s][1], cand[s][2]} # {p[1], p[2]}

ApartInv == FitInv /\ \A p \in apart : KeptApart(p)

\* A step that takes no row of the pair away, changes none, adds none and
\* gives no scan the pair keeps it apart.
LEMMA ApartKept ==
    ASSUME FitInv, [GraphNext]_graphVars, NEW p, KeptApart(p),
           \A r \in rows : Pair(r) = {p[1], p[2]} => r \in rows',
           \A r \in rows' : Pair(r) = {p[1], p[2]} => r \in rows,
           \A s \in Scanner : cand'[s] # <<>> =>
               cand'[s] = cand[s] \/ {cand'[s][1], cand'[s][2]} # {p[1], p[2]}
    PROVE  KeptApart(p)'
<1>1. p[1] \in Used' /\ p[2] \in Used'
  BY UsedGrows DEF FitInv, Fits, KeptApart
<1>2. \E r \in rows' : Pair(r) = {p[1], p[2]}
  BY DEF KeptApart
<1>3. \A r \in rows' : Pair(r) = {p[1], p[2]} => r.status = "unmerged"
  BY DEF KeptApart
<1>4. \A s \in Scanner : cand'[s] # <<>> => {cand'[s][1], cand'[s][2]} # {p[1], p[2]}
  BY DEF KeptApart
<1> QED
  BY <1>1, <1>2, <1>3, <1>4 DEF KeptApart, Pair

LEMMA CandVerified ==
    ASSUME Shapes, NEW s \in Scanner, Verified(s)
    PROVE  \A t \in Scanner : cand'[t] = cand[t] \/ cand'[t] = <<>>
BY DEF Shapes, Verified

LEMMA ApartInvNext == ApartInv /\ [GraphNext]_graphVars => ApartInv'
<1> SUFFICES ASSUME FitInv, \A p \in apart : KeptApart(p), [GraphNext]_graphVars
             PROVE  \A p \in apart' : KeptApart(p)'
  BY FitInvNext DEF ApartInv
<1>0. Shapes /\ CandFits
  BY DEF FitInv, Fits, Shapes, HandsFit, CandFits
<1>1. ASSUME UNCHANGED <<rows, cand, apart>> PROVE \A p \in apart' : KeptApart(p)'
  BY <1>1, ApartKept
<1>2. ASSUME NEW s \in Scanner, Scan(s) PROVE \A p \in apart' : KeptApart(p)'
  <2>1. PICK c \in Candidates : cand' = [cand EXCEPT ![s] = c]
    BY <1>2 DEF Scan
  <2>2. PICK x, y \in Active : c = <<x, y>> /\ Unseen({x, y})
    BY CandidateIs
  <2>3. UNCHANGED <<rows, apart>>
    BY <1>2 DEF Scan, history
  <2>4. ASSUME NEW p \in apart PROVE {x, y} # {p[1], p[2]}
    BY <2>2, <2>4 DEF Unseen, KeptApart
  <2>5. \A t \in Scanner : cand'[t] = cand[t] \/ cand'[t] = <<x, y>>
    BY <1>0, <2>1, <2>2 DEF Shapes
  <2>6. ASSUME NEW p \in apart PROVE KeptApart(p)'
    <3>1. {x, y} # {p[1], p[2]}
      BY <2>4
    <3>2. \A t \in Scanner : cand'[t] # <<>> =>
             cand'[t] = cand[t] \/ {cand'[t][1], cand'[t][2]} # {p[1], p[2]}
      BY <2>5, <3>1
    <3> QED
      BY <2>3, <3>2, ApartKept
  <2> QED
    BY <2>3, <2>6
<1>3. ASSUME NEW s \in Scanner, Drop(s) \/ AutoMergeTooLate(s)
      PROVE  \A p \in apart' : KeptApart(p)'
  <2>1. UNCHANGED <<rows, apart>> /\ Verified(s)
    BY <1>3 DEF Drop, AutoMergeTooLate, history
  <2> QED
    BY <1>0, <2>1, CandVerified, ApartKept
<1>4. ASSUME NEW s \in Scanner, Ask(s) PROVE \A p \in apart' : KeptApart(p)'
  <2>1. PICK x, y \in Used : cand[s] = <<x, y>>
    BY <1>4, CandParts DEF FitInv, Fits, Ask
  <2>2. UNCHANGED apart /\ Verified(s) /\ rows \subseteq rows'
        /\ \A r \in rows' : r \in rows \/ r = Row(<<x, y>>, "pending")
    BY <1>4, <2>1 DEF Ask, history
  <2>3. Pair(Row(<<x, y>>, "pending")) = {x, y}
    BY DEF Pair, Row
  <2>4. \A p \in apart : {x, y} # {p[1], p[2]}
    <3>1. cand[s] # <<>> /\ cand[s][1] = x /\ cand[s][2] = y
      BY <1>4, <2>1 DEF Ask
    <3> QED
      BY <3>1 DEF KeptApart
  <2> QED
    BY <1>0, <2>2, <2>3, <2>4, CandVerified, ApartKept
<1>5. ASSUME NEW s \in Scanner, AutoMerge(s) PROVE \A p \in apart' : KeptApart(p)'
  <2>1. PICK x, y \in Used : cand[s] = <<x, y>>
    BY <1>5, CandParts DEF FitInv, Fits, AutoMerge
  <2>2. UNCHANGED apart /\ Verified(s) /\ rows \subseteq rows'
        /\ \A r \in rows' : r \in rows \/ r = Snapshot(<<x, y>>, "auto_merged")
    BY <1>5, <2>1 DEF AutoMerge, Merge
  <2>3. Pair(Snapshot(<<x, y>>, "auto_merged")) = {x, y}
    BY DEF Pair, Snapshot
  <2>4. \A p \in apart : {x, y} # {p[1], p[2]}
    <3>1. cand[s] # <<>> /\ cand[s][1] = x /\ cand[s][2] = y
      BY <1>5, <2>1 DEF AutoMerge
    <3> QED
      BY <3>1 DEF KeptApart
  <2> QED
    BY <1>0, <2>2, <2>3, <2>4, CandVerified, ApartKept
<1>6. ASSUME NEW q \in rows, Approve(q) PROVE \A p \in apart' : KeptApart(p)'
  <2>1. UNCHANGED <<apart, cand>> /\ q.status = "pending"
    BY <1>6 DEF Approve, Merge
  <2>2. Pair(Snapshot(<<q.source, q.target>>, "approved")) = Pair(q)
    BY DEF Pair, Snapshot
  <2>3. \A u \in rows : u.status = "pending" =>
           \A p \in apart : Pair(u) # {p[1], p[2]}
    BY DEF KeptApart
  <2>4. \A u \in rows : Pair([u EXCEPT !.status = "rejected"]) = Pair(u)
    BY <1>0 DEF Shapes, RowSet, Pair
  <2>5. \A r \in rows : r.status # "pending" => r \in rows'
    BY <1>6, <2>1 DEF Approve
  <2>6. ASSUME NEW r \in rows', r \notin rows
        PROVE  \E u \in rows : u.status = "pending" /\ Pair(r) = Pair(u)
    BY <1>6, <2>1, <2>2, <2>4, <2>6 DEF Approve
  <2> QED
    BY <2>1, <2>3, <2>5, <2>6, ApartKept
<1>7. ASSUME NEW q \in rows, Reject(q) PROVE \A p \in apart' : KeptApart(p)'
  <2>1. UNCHANGED <<apart, cand>> /\ q.status = "pending"
    BY <1>7 DEF Reject, history
  <2>2. Pair([q EXCEPT !.status = "rejected"]) = Pair(q)
    BY <1>0 DEF Shapes, RowSet, Pair
  <2>3. \A p \in apart : Pair(q) # {p[1], p[2]}
    BY <2>1 DEF KeptApart
  <2>4. (\A r \in rows : r # q => r \in rows')
        /\ \A r \in rows' : r \in rows \/ Pair(r) = Pair(q)
    BY <1>7, <2>2 DEF Reject
  <2> QED
    BY <2>1, <2>3, <2>4, ApartKept
<1>8. ASSUME NEW q \in rows, Unmerge(q) PROVE \A p \in apart' : KeptApart(p)'
  <2>1. PICK new \in Unused :
              /\ entity' = [entity EXCEPT ![new] = "active"]
              /\ rows' = (rows \ {q}) \cup {ReversedRow(q, new)}
              /\ apart' = apart \cup {<<new, q.target>>}
    BY <1>8, UnmergeEffect
  <2>2. UNCHANGED cand /\ q.status # "unmerged"
    BY <1>8 DEF Unmerge
  <2>3. q \in RowSet /\ new \in Entity /\ q.target \in Used
    BY <1>0 DEF Shapes, Unused, FitInv, Fits, RowsFit
  <2>4. /\ Pair(ReversedRow(q, new)) = {new, q.target}
        /\ ReversedRow(q, new).status = "unmerged"
    BY <2>3 DEF ReversedRow, RowSet, Pair
  <2>5. new \notin Used /\ new \in Used'
    BY <1>0, <2>1, <2>3 DEF Used, Unused, Shapes
  <2>6. ASSUME NEW p \in apart PROVE KeptApart(p)'
    <3>1. Pair(q) # {p[1], p[2]} /\ {new, q.target} # {p[1], p[2]}
      BY <2>2, <2>5 DEF KeptApart
    <3> QED
      BY <2>1, <2>2, <2>4, <3>1, ApartKept
  <2>7. KeptApart(<<new, q.target>>)'
    <3>1. q.target \in Used'
      BY <2>3, UsedGrows DEF FitInv, Fits
    <3>2. \A r \in rows : Pair(r) # {new, q.target}
      BY <2>5 DEF FitInv, Fits, RowsFit, Pair
    <3>3. \A s \in Scanner : cand[s] # <<>> => {cand[s][1], cand[s][2]} # {new, q.target}
      BY <1>0, <2>5 DEF CandFits
    <3>4. \E r \in rows' : Pair(r) = {new, q.target}
      BY <2>1, <2>4
    <3>5. \A r \in rows' : Pair(r) = {new, q.target} => r.status = "unmerged"
      BY <2>1, <2>4, <3>2
    <3> QED
      BY <2>2, <2>5, <3>1, <3>3, <3>4, <3>5 DEF KeptApart, Pair
  <2> QED
    BY <2>1, <2>6, <2>7
<1>9. ASSUME NEW w \in Writer, Write(w) PROVE UNCHANGED <<rows, cand, apart>>
  BY <1>9 DEF Write, Choose, ReadEntities, Commit, history
<1>10. ASSUME NEW e \in Entity, Label(e) PROVE UNCHANGED <<rows, cand, apart>>
  BY <1>10 DEF Label, history
<1>11. ASSUME UNCHANGED graphVars PROVE UNCHANGED <<rows, cand, apart>>
  BY <1>11 DEF graphVars, history
<1> QED
  BY <1>1, <1>2, <1>3, <1>4, <1>5, <1>6, <1>7, <1>8, <1>9, <1>10, <1>11 DEF GraphNext

\* Of two entities that unmerge_async pulled apart no scan proposes or merges these
\* two rows again, a verification that was in flight meanwhile included.
THEOREM ApartStaysApart == GraphSpec => []PulledApartStaysApart
<1>1. GraphInit => ApartInv
  BY FitInvInit DEF GraphInit, ApartInv
<1>2. ApartInv => PulledApartStaysApart
  BY DEF ApartInv, KeptApart, PulledApartStaysApart
<1> QED
  BY <1>1, <1>2, ApartInvNext, PTL DEF GraphSpec
=============================================================================
