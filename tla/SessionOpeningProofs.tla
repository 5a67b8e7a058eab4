------------------------ MODULE SessionOpeningProofs ------------------------
(***************************************************************************)
(* Proofs about HttpIdempotency, for any finite number of requests with the  *)
(* key and any number of faults, and about SessionOpening, which extends it: *)
(* for any requests, any bank of questions and any number of faults and      *)
(* lapses.  What the first part shows of an operation left open carries over *)
(* to wraps that have steps of their own.                                    *)
(***************************************************************************)
EXTENDS SessionOpening, FiniteSetTheorems, SequenceTheorems, TLAPS

-----------------------------------------------------------------------------
(* One key, any operation: HttpIdempotency.                                 *)

Ran == {effects[i] : i \in DOMAIN effects}

\* The lock is held by a request that still works under it.
Guarded == lock /\ holder \in Working

\* Requests at work beyond the one the lock guards were each let in by an
\* overrun.
StraysAreOverruns ==
    Cardinality(Working) <= IF Guarded THEN overruns + 1 ELSE overruns

\* Responses come from operations that took effect.
ResponsesAreReal ==
    /\ cache # None => cache \in Ran
    /\ \A r \in Req : /\ pc[r] = "store" => r \in Ran
                      /\ answer[r] # None => answer[r] \in Ran
                      /\ pc[r] = "answered" => answer[r] # None

\* A request that came late only reads; one that has yet to work has no effect.
LateOnlyReads ==
    /\ late # {} => cache # None
    /\ \A r \in Req : /\ r \in late => pc[r] \in {"read", "answered", "crashed"}
                      /\ r \in late => r \notin Ran
                      /\ pc[r] \in {"idle", "read", "acquire"} =>
                            r \notin Ran /\ answer[r] = None

IInv == TypeOK /\ StraysAreOverruns /\ ResponsesAreReal /\ LateOnlyReads

-----------------------------------------------------------------------------
Steps == {"idle", "read", "acquire", "operate", "store", "release", "answered",
          "failed", "conflict", "crashed"}
AtWork == {"operate", "store", "release"}

LEMMA WorkingIsFinite ==
    /\ IsFiniteSet(Working)
    /\ Cardinality(Working) \in Nat
<1>1. Working \in SUBSET Req
  BY DEF Working
<1> QED BY <1>1, ConstantsAssumption, FS_Subset, FS_CardinalityType

\* How a step of one request changes who is at work.
LEMMA WorkingMoves ==
    ASSUME TypeOK, NEW r \in Req, NEW s \in Steps, pc' = [pc EXCEPT ![r] = s]
    PROVE  /\ pc' \in [Req -> Steps]
           /\ \A q \in Req : pc'[q] = IF q = r THEN s ELSE pc[q]
           /\ r \in Working' <=> s \in AtWork
           /\ \A q \in Req \ {r} : q \in Working' <=> q \in Working
           /\ s \in AtWork => Working' = Working \cup {r}
           /\ s \notin AtWork => Working' = Working \ {r}
<1>1. pc \in [Req -> Steps]
  BY DEF TypeOK, Steps
<1>2. pc' \in [Req -> Steps] /\ \A q \in Req : pc'[q] = IF q = r THEN s ELSE pc[q]
  BY <1>1
<1> QED BY <1>2 DEF Working, AtWork

LEMMA WorkingCount ==
    ASSUME TypeOK, NEW r \in Req, NEW s \in Steps, pc' = [pc EXCEPT ![r] = s]
    PROVE  Cardinality(Working') =
              IF s \in AtWork
              THEN IF r \in Working THEN Cardinality(Working)
                   ELSE Cardinality(Working) + 1
              ELSE IF r \in Working THEN Cardinality(Working) - 1
                   ELSE Cardinality(Working)
<1>1. CASE s \in AtWork
  <2>1. Working' = Working \cup {r}
    BY <1>1, WorkingMoves
  <2> QED BY <1>1, <2>1, WorkingIsFinite, FS_AddElement
<1>2. CASE s \notin AtWork
  <2>1. Working' = Working \ {r}
    BY <1>2, WorkingMoves
  <2> QED BY <1>2, <2>1, WorkingIsFinite, FS_RemoveElement
<1> QED BY <1>1, <1>2

LEMMA RanGrows ==
    ASSUME TypeOK, NEW r \in Req, effects' = Append(effects, r)
    PROVE  effects' \in Seq(Req) /\ Ran' = Ran \cup {r}
<1>1. effects \in Seq(Req)
  BY DEF TypeOK
<1>2. /\ effects' \in Seq(Req)
      /\ DOMAIN effects' = DOMAIN effects \cup {Len(effects) + 1}
      /\ \A i \in DOMAIN effects : effects'[i] = effects[i]
      /\ effects'[Len(effects) + 1] = r
  BY <1>1, AppendProperties
<1> QED BY <1>2 DEF Ran

-----------------------------------------------------------------------------
LEMMA InitIInv == Init => IInv
<1> SUFFICES ASSUME Init PROVE IInv
  OBVIOUS
<1>1. TypeOK
  <2>1. effects \in Seq(Req)
    BY DEF Init
  <2>2. answer \in [Req -> Req \cup {None}]
    BY DEF Init
  <2>3. pc \in [Req -> Steps]
    BY DEF Init, Steps
  <2> QED BY <2>1, <2>2, <2>3 DEF Init, TypeOK, Steps
<1>2. Ran = {} /\ Working = {}
  BY DEF Init, Ran, Working
<1>3. StraysAreOverruns
  BY <1>2, FS_EmptySet DEF Init, StraysAreOverruns, Guarded
<1>4. ResponsesAreReal /\ LateOnlyReads
  BY <1>2 DEF Init, ResponsesAreReal, LateOnlyReads
<1> QED BY <1>1, <1>3, <1>4 DEF IInv

\* The step of a request: what it leaves alone it shares with every other.
LEMMA TypeKept ==
    ASSUME IInv, NEW r \in Req, Arrive(r) \/ Handle(r) \/ Crash(r)
    PROVE  /\ TypeOK'
           /\ \E s \in Steps : pc' = [pc EXCEPT ![r] = s]
<1> USE DEF IInv
<1> USE DEF Arrive, Handle, Crash, ReadCache, Acquire, Operate, OperateFails,
            Store, StoreFails, Release, Goto, redis
<1>1. PICK s \in Steps : pc' = [pc EXCEPT ![r] = s]
  BY DEF Steps
<1>2. pc' \in [Req -> Steps]
  BY <1>1, WorkingMoves
<1>3. effects' \in Seq(Req)
  <2>1. effects' = effects \/ effects' = Append(effects, r)
    OBVIOUS
  <2> QED BY <2>1, RanGrows DEF TypeOK
<1>4. cache' \in Req \cup {None} /\ lock' \in BOOLEAN
  BY DEF TypeOK
<1>5. holder' \in Req \cup {None} /\ late' \subseteq Req
  BY DEF TypeOK
<1>6. answer' \in [Req -> Req \cup {None}]
  <2>1. \/ answer' = answer
        \/ answer' = [answer EXCEPT ![r] = cache]
        \/ answer' = [answer EXCEPT ![r] = r]
    OBVIOUS
  <2> QED BY <2>1 DEF TypeOK
<1>7. overruns' \in Nat
  BY DEF TypeOK
<1>8. faults' \in Nat
  <2>1. faults' = faults \/ faults' = faults + 1
    BY DEF Fault
  <2> QED BY <2>1 DEF TypeOK
<1> QED BY <1>1, <1>2, <1>3, <1>4, <1>5, <1>6, <1>7, <1>8 DEF TypeOK, Steps

LEMMA StraysKept ==
    ASSUME IInv, NEW r \in Req, Arrive(r) \/ Handle(r) \/ Crash(r)
    PROVE  StraysAreOverruns'
<1> USE DEF IInv
<1>1. PICK s \in Steps : pc' = [pc EXCEPT ![r] = s]
  BY TypeKept
<1>2. /\ pc \in [Req -> Steps] /\ pc' \in [Req -> Steps]
      /\ pc'[r] = s
      /\ overruns \in Nat /\ Cardinality(Working) \in Nat
  BY <1>1, WorkingMoves, WorkingIsFinite DEF TypeOK, Steps
<1>3. overruns' = overruns
  BY DEF Arrive, Handle, Crash, ReadCache, Acquire, Operate, OperateFails,
         Store, StoreFails, Release
<1>4. CASE /\ UNCHANGED <<lock, holder>>
           /\ s \in AtWork <=> r \in Working
  <2>1. Working' = Working
    <3>1. CASE s \in AtWork
      <4>1. Working' = Working \cup {r} /\ r \in Working
        BY <1>1, <1>4, <3>1, WorkingMoves
      <4> QED BY <4>1
    <3>2. CASE s \notin AtWork
      <4>1. Working' = Working \ {r} /\ r \notin Working
        BY <1>1, <1>4, <3>2, WorkingMoves
      <4> QED BY <4>1
    <3> QED BY <3>1, <3>2
  <2> QED BY <1>3, <1>4, <2>1 DEF StraysAreOverruns, Guarded
<1>5. CASE ~lock /\ lock' /\ holder' = r /\ r \notin Working /\ s \in AtWork
  <2>1. Cardinality(Working') = Cardinality(Working) + 1
    BY <1>1, <1>5, WorkingCount
  <2>2. Guarded' /\ ~Guarded
    BY <1>1, <1>5, WorkingMoves DEF Guarded
  <2> QED BY <1>2, <1>3, <2>1, <2>2 DEF StraysAreOverruns
<1>6. CASE /\ r \in Working /\ s \notin AtWork
           /\ lock' = FALSE \/ UNCHANGED <<lock, holder>>
  <2>1. Cardinality(Working') = Cardinality(Working) - 1
    BY <1>1, <1>6, WorkingCount
  <2>2. Guarded' => Guarded
    <3>1. Working' = Working \ {r}
      BY <1>1, <1>6, WorkingMoves
    <3> QED BY <1>6, <3>1 DEF Guarded
  <2> QED BY <1>2, <1>3, <2>1, <2>2 DEF StraysAreOverruns
<1>7. \/ /\ UNCHANGED <<lock, holder>>
         /\ s \in AtWork <=> r \in Working
      \/ ~lock /\ lock' /\ holder' = r /\ r \notin Working /\ s \in AtWork
      \/ /\ r \in Working /\ s \notin AtWork
         /\ lock' = FALSE \/ UNCHANGED <<lock, holder>>
  <2> USE <1>1, <1>2 DEF Working, AtWork, Goto, redis, TypeOK
  <2>1. CASE Arrive(r) \/ ReadCache(r)
    BY <2>1 DEF Arrive, ReadCache
  <2>2. CASE Acquire(r)
    BY <2>2 DEF Acquire
  <2>3. CASE Operate(r) \/ OperateFails(r)
    BY <2>3 DEF Operate, OperateFails
  <2>4. CASE Store(r) \/ StoreFails(r)
    BY <2>4 DEF Store, StoreFails
  <2>5. CASE Release(r)
    BY <2>5 DEF Release
  <2>6. CASE Crash(r)
    BY <2>6 DEF Crash
  <2> QED BY <2>1, <2>2, <2>3, <2>4, <2>5, <2>6 DEF Handle
<1> QED BY <1>4, <1>5, <1>6, <1>7

LEMMA RealKept ==
    ASSUME IInv, NEW r \in Req, Arrive(r) \/ Handle(r) \/ Crash(r)
    PROVE  ResponsesAreReal' /\ LateOnlyReads'
<1> USE DEF IInv
<1>1. PICK s \in Steps : pc' = [pc EXCEPT ![r] = s]
  BY TypeKept
<1>2. \A q \in Req : pc'[q] = IF q = r THEN s ELSE pc[q]
  BY <1>1, WorkingMoves
<1>3. pc'[r] = s /\ pc \in [Req -> Steps] /\ answer \in [Req -> Req \cup {None}]
  BY <1>2 DEF TypeOK, Steps
<1> USE <1>1, <1>2, <1>3 DEF Goto, redis, ResponsesAreReal, LateOnlyReads
<1>4. CASE Arrive(r)
  <2>1. Ran' = Ran /\ s = "read" /\ pc[r] = "idle"
    BY <1>4 DEF Arrive, Ran
  <2> QED BY <1>4, <2>1 DEF Arrive
<1>5. CASE ReadCache(r)
  <2>1. Ran' = Ran /\ pc[r] = "read" /\ s \in {"acquire", "answered"}
    BY <1>5 DEF ReadCache, Ran
  <2>2. \A q \in Req : answer'[q] = answer[q] \/ (q = r /\ answer'[q] = cache)
    BY <1>5 DEF ReadCache
  <2>3. cache = None => s = "acquire" /\ answer' = answer
    BY <1>5 DEF ReadCache
  <2>4. cache # None => s = "answered" /\ answer'[r] = cache
    BY <1>5 DEF ReadCache
  <2>5. UNCHANGED <<cache, late>>
    BY <1>5 DEF ReadCache
  <2> QED BY <2>1, <2>2, <2>3, <2>4, <2>5
<1>6. CASE Acquire(r)
  <2>1. Ran' = Ran /\ pc[r] = "acquire" /\ s \in {"operate", "conflict"}
    BY <1>6 DEF Acquire, Ran
  <2>2. UNCHANGED <<cache, late, answer>>
    BY <1>6 DEF Acquire
  <2> QED BY <2>1, <2>2
<1>7. CASE Operate(r) \/ OperateFails(r)
  <2>1. pc[r] = "operate" /\ s \in {"store", "release"}
    BY <1>7 DEF Operate, OperateFails
  <2>2. UNCHANGED <<cache, late, answer>>
    BY <1>7 DEF Operate, OperateFails
  <2>3. Ran' \in {Ran, Ran \cup {r}} /\ (s = "store" => r \in Ran')
    <3>1. \/ effects' = Append(effects, r)
          \/ effects' = effects /\ s = "release"
      BY <1>7 DEF Operate, OperateFails
    <3>2. CASE effects' = Append(effects, r)
      BY <3>2, RanGrows
    <3>3. CASE effects' = effects /\ s = "release"
      BY <3>3 DEF Ran
    <3> QED BY <3>1, <3>2, <3>3
  <2> QED BY <2>1, <2>2, <2>3
<1>8. CASE Store(r)
  <2>1. Ran' = Ran /\ pc[r] = "store" /\ s = "release"
    BY <1>8 DEF Store, Ran
  <2>2. cache' = r /\ late' = late
    BY <1>8 DEF Store
  <2>3. \A q \in Req : answer'[q] = IF q = r THEN r ELSE answer[q]
    BY <1>8 DEF Store
  <2> QED BY <2>1, <2>2, <2>3, ConstantsAssumption
<1>9. CASE StoreFails(r)
  <2>1. Ran' = Ran /\ pc[r] = "store" /\ s = "release"
    BY <1>9 DEF StoreFails, Ran
  <2>2. cache' \in {cache, r} /\ UNCHANGED <<late, answer>>
    BY <1>9 DEF StoreFails
  <2> QED BY <2>1, <2>2, ConstantsAssumption
<1>10. CASE Release(r)
  <2>1. /\ Ran' = Ran /\ pc[r] = "release"
        /\ s \in {"answered", "failed"}
        /\ s = "answered" => answer[r] # None
    BY <1>10 DEF Release, Ran
  <2>2. UNCHANGED <<cache, late, answer>>
    BY <1>10 DEF Release
  <2> QED BY <2>1, <2>2
<1>11. CASE Crash(r)
  <2>1. Ran' = Ran /\ s = "crashed"
    BY <1>11 DEF Crash, Ran
  <2>2. UNCHANGED <<cache, late, answer>>
    BY <1>11 DEF Crash
  <2> QED BY <2>1, <2>2
<1> QED BY <1>4, <1>5, <1>6, <1>7, <1>8, <1>9, <1>10, <1>11 DEF Handle

LEMMA LockStepKept ==
    ASSUME IInv, LockExpires \/ LockOverruns
    PROVE  IInv'
<1> USE DEF IInv
<1>1. UNCHANGED <<cache, holder, effects, pc, answer, late>> /\ lock' = FALSE
  BY DEF LockExpires, LockOverruns
<1>2. Working' = Working /\ Ran' = Ran /\ ~Guarded'
  BY <1>1 DEF Working, Ran, Guarded
<1>3. TypeOK'
  <2>1. overruns' = overruns \/ overruns' = overruns + 1
    BY DEF LockExpires, LockOverruns
  <2>2. faults' = faults \/ faults' = faults + 1
    BY DEF LockExpires, LockOverruns, Fault
  <2>3. overruns' \in Nat /\ faults' \in Nat
    BY <2>1, <2>2 DEF TypeOK
  <2> QED BY <1>1, <2>3 DEF TypeOK
<1>4. StraysAreOverruns'
  <2>1. CASE LockExpires
    BY <1>2, <2>1 DEF LockExpires, StraysAreOverruns, Guarded
  <2>2. CASE LockOverruns
    <3>1. overruns' = overruns + 1
      BY <2>2 DEF LockOverruns
    <3> QED BY <1>2, <3>1, WorkingIsFinite DEF StraysAreOverruns, TypeOK
  <2> QED BY <2>1, <2>2
<1>5. ResponsesAreReal' /\ LateOnlyReads'
  BY <1>1, <1>2 DEF ResponsesAreReal, LateOnlyReads
<1> QED BY <1>3, <1>4, <1>5

\* No step, and none that leaves the protocol alone, breaks the invariant.
LEMMA NextKept ==
    ASSUME IInv, [Next]_vars
    PROVE  IInv'
<1>1. ASSUME NEW r \in Req, Arrive(r) \/ Handle(r) \/ Crash(r) PROVE IInv'
  BY <1>1, TypeKept, StraysKept, RealKept DEF IInv
<1>2. CASE LockExpires \/ LockOverruns
  BY <1>2, LockStepKept
<1>3. CASE UNCHANGED vars
  BY <1>3 DEF IInv, vars, TypeOK, StraysAreOverruns, Guarded, Working,
              ResponsesAreReal, LateOnlyReads, Ran
<1> QED BY <1>1, <1>2, <1>3 DEF Next

\* What the invariant says of those at work, and of those that come late.
LEMMA FewAtWork == IInv => OverlapNeedsOverruns
BY WorkingIsFinite DEF IInv, StraysAreOverruns, OverlapNeedsOverruns, TypeOK

LEMMA LateOnesRead == IInv => LateIsReplayed
<1> SUFFICES ASSUME IInv, NEW r \in late
             PROVE  /\ r \notin Working
                    /\ \A i \in DOMAIN effects : effects[i] # r
                    /\ pc[r] = "answered" =>
                          \E i \in DOMAIN effects : effects[i] = answer[r]
  BY DEF LateIsReplayed
<1>1. r \in Req /\ pc[r] \in {"read", "answered", "crashed"} /\ r \notin Ran
  BY DEF IInv, LateOnlyReads, TypeOK
<1>2. pc[r] = "answered" => answer[r] \in Ran
  BY <1>1 DEF IInv, ResponsesAreReal
<1> QED BY <1>1, <1>2 DEF Working, Ran

LEMMA Inductive == Spec => []IInv
<1>1. Init => IInv
  BY InitIInv
<1>2. IInv /\ [Next]_vars => IInv'
  BY NextKept
<1> QED BY <1>1, <1>2, PTL DEF Spec

-----------------------------------------------------------------------------
(* The theorems.                                                           *)

\* run_idempotent keeps every variable in its shape.
THEOREM TypeCorrect == Spec => []TypeOK
<1>1. IInv => TypeOK
  BY DEF IInv
<1> QED BY Inductive, <1>1, PTL

\* However many requests carry the key, each lock that expires under its
\* holder lets at most one more of them run the operation at the same time.
THEOREM OverlapIsBounded == Spec => []OverlapNeedsOverruns
<1> QED BY Inductive, FewAtWork, PTL

\* A retry that comes after a response was cached is answered with a response
\* of an operation that took effect, and runs nothing.
THEOREM RetriesAreReplayed == Spec => []LateIsReplayed
<1> QED BY Inductive, LateOnesRead, PTL

-----------------------------------------------------------------------------
(* Starts, turns and wraps of one session: SessionOpening.                  *)

OpeningVars == <<vars, opening>>

\* Where only starts are, and where only turns are.
StartPlaces == {"person", "resolve", "persist", "opener", "initialize", "write", "append"}
TurnPlaces  == {"state", "decide", "stamp", "signals", "respond", "boundary"}
Places      == StartPlaces \cup TurnPlaces
                   \cup {"select", "seed", "ask", "reply"} \cup Ended
\* A start that is past the commit of the answers, if there was one.
Admitted    == {"opener", "initialize", "write", "append", "seed", "ask", "reply"}
\* A handler that has appended an opener, or serves a session that has one.
Greeted     == {"seed", "ask", "reply"}

Shape ==
    /\ at \in [Handler -> Places]
    /\ person \in [complete : BOOLEAN, persisted : Nat]
    /\ hash \in {None} \cup State
    /\ opened \in BOOLEAN /\ ended \in BOOLEAN /\ raced \subseteq Start
    /\ \A h \in Handler : /\ at[h] \in StartPlaces => h \in Start
                          /\ at[h] \in TurnPlaces => h \in Turn

\* What handlers remember and the register holds.
Chosen == Question \cup {None}
Local  == [sel : Chosen, last : Sources \cup {None}, skip : Chosen, picked : BOOLEAN]
Memory == asked \in Seq(Chosen) /\ loc \in [Handler -> Local]

\* Turns and wraps come after an opener.
Followers ==
    /\ \A h \in Turn : at[h] # "idle" => opened
    /\ \A r \in Req : pc[r] # "idle" => opened

\* The answers were persisted once if the person is through, and the start
\* that did it is still on its way to an opener, or failed.
AdmittedOnce ==
    /\ person.persisted = IF person.complete THEN 1 ELSE 0
    /\ person.complete /\ ~opened =>
          faults > 0 \/ \E h \in Start : at[h] \in Admitted

\* A start of a race has wiped the opener and has yet to append its own, or
\* failed.
Wiped == \E h \in raced : at[h] \in {"append", "failed"}

\* Until the session ends its hash has all fields, and the opener from the
\* step on in which a start appends it, but for a race between two starts that
\* both found no hash.
Usable ==
    ~ended =>
        /\ hash # None => hash.whole
        /\ opened \/ (\E h \in Start : at[h] \in Greeted) =>
              hash # None /\ (hash.opener # None \/ Wiped)
        /\ \A h \in Start : at[h] = "append" => hash # None
        /\ \A h \in Start :
              /\ at[h] = "write"
              /\ hash # None \/ \E g \in Start \ {h} : at[g] = "write"
              => h \in raced

OInv == IInv /\ Shape /\ Memory /\ Followers /\ AdmittedOnce /\ Usable

-----------------------------------------------------------------------------
(* The protocol of the key.                                                *)

\* A start or a turn leaves the key alone; its failures are counted.
LEMMA HandlerLeavesKey ==
    ASSUME NEW h \in Handler,
           \/ BeginStart(h) \/ Onboard(h) \/ SelectStarter(h) \/ Open(h)
           \/ TurnStep(h) \/ Ask(h) \/ Seed(h) \/ Reply(h)
    PROVE  UNCHANGED vars
BY DEF BeginStart, Onboard, SelectStarter, Open, TurnStep, Ask, Seed, Reply,
       Enter, LookAtPerson, ResolveAnswers, PersistAnswers, GenerateOpener,
       LookForHash, InitWorkingMemory, AppendOpener, BeginTurn, Decide, StampDecision,
       ReadState, WriteSignals, SelectQuestion, Respond, Boundary

\* A wrap takes the steps of the protocol, and its own in between.
LEMMA WrapsKeepKey ==
    ASSUME NEW r \in Req, Wraps(r)
    PROVE  Arrive(r) \/ Handle(r) \/ Crash(r) \/ UNCHANGED vars
<1>1. CASE WrapStep(r)
  BY <1>1 DEF WrapStep
<1>2. CASE Wrap(r)
  BY <1>2 DEF Wrap, Handle
<1> QED BY <1>1, <1>2 DEF Wraps, Handle

LEMMA FaultKept ==
    ASSUME IInv, NEW h \in Handler, Fails(h)
    PROVE  IInv'
<1>1. /\ UNCHANGED <<cache, lock, holder, effects, pc, answer, late, overruns>>
      /\ faults' = faults + 1
  BY DEF Fails, Fault
<1>2. faults \in Nat
  BY DEF IInv, TypeOK
<1>3. faults' \in Nat
  BY <1>1, <1>2
<1> QED
  BY <1>1, <1>3 DEF IInv, TypeOK, StraysAreOverruns, Guarded, Working,
                    ResponsesAreReal, LateOnlyReads, Ran

LEMMA KeyKept ==
    ASSUME IInv, [OpeningNext]_OpeningVars
    PROVE  IInv'
<1>1. ASSUME NEW h \in Handler, Fails(h) PROVE IInv'
  BY <1>1, FaultKept
<1>2. ASSUME NEW h \in Handler,
             \/ BeginStart(h) \/ Onboard(h) \/ SelectStarter(h) \/ Open(h)
             \/ TurnStep(h) \/ Ask(h) \/ Seed(h) \/ Reply(h)
      PROVE  IInv'
  BY <1>2, HandlerLeavesKey, NextKept
<1>3. ASSUME NEW r \in Req, Wraps(r) PROVE IInv'
  <2>1. [Next]_vars
    BY <1>3, WrapsKeepKey DEF Next
  <2> QED BY <2>1, NextKept
<1>4. CASE LockExpires \/ LockOverruns
  BY <1>4, LockStepKept
<1>5. CASE LeaseRunsOut \/ UNCHANGED OpeningVars
  <2>1. UNCHANGED vars
    BY <1>5 DEF LeaseRunsOut, OpeningVars
  <2> QED BY <2>1, NextKept
<1> QED BY <1>1, <1>2, <1>3, <1>4, <1>5 DEF OpeningNext

-----------------------------------------------------------------------------
(* Starts and turns.                                                       *)

\* Where a step of a handler may lead it.
Fits(h, s) ==
    /\ s \in Places
    /\ s \in StartPlaces => h \in Start
    /\ s \in TurnPlaces => h \in Turn
    /\ h \in Start /\ at[h] \in Admitted => s \in Admitted
    /\ h \in Turn => opened
    /\ h \in Start /\ s \in Greeted => at[h] \in Greeted \cup {"append"}
    /\ s = "append" => at[h] \in {"initialize", "write"}
    /\ s = "write" => at[h] = "initialize"
    /\ at[h] = "write" => s = "append"
    /\ at[h] # "failed"

LEMMA Apart ==
    ASSUME OInv, NEW h \in Handler
    PROVE  /\ at[h] \in StartPlaces => h \in Start /\ h \notin Turn
           /\ at[h] \in TurnPlaces => h \in Turn /\ h \notin Start
           /\ h \in Start <=> h \notin Turn
           /\ h \in Turn /\ at[h] # "idle" => opened
BY OpeningAssumption DEF OInv, Shape, Followers, Handler

\* Every step of a handler but its last fits.
LEMMA StepFits ==
    ASSUME OInv, NEW h \in Handler,
           \/ BeginStart(h) \/ Onboard(h) \/ SelectStarter(h) \/ Open(h)
           \/ TurnStep(h) \/ Ask(h) \/ Seed(h)
    PROVE  \E s \in Places : at' = [at EXCEPT ![h] = s] /\ Fits(h, s)
<1> USE Apart DEF Fits, Step, StartPlaces, TurnPlaces, Places, Admitted, Greeted, Ended
<1>1. CASE BeginStart(h)
  BY <1>1 DEF BeginStart, Enter
<1>2. CASE Onboard(h)
  BY <1>2 DEF Onboard, LookAtPerson, ResolveAnswers, PersistAnswers
<1>3. CASE SelectStarter(h) \/ Open(h)
  BY <1>3 DEF SelectStarter, Select, Open, GenerateOpener, LookForHash, InitWorkingMemory, AppendOpener
<1>4. CASE Ask(h) \/ Seed(h)
  BY <1>4 DEF Ask, Seed
<1>5. CASE BeginTurn(h)
  BY <1>5 DEF BeginTurn, Enter
<1>6. CASE Decide(h) \/ StampDecision(h) \/ ReadState(h) \/ WriteSignals(h)
  BY <1>6 DEF Decide, StampDecision, ReadState, WriteSignals
<1>7. CASE SelectQuestion(h) \/ Respond(h) \/ Boundary(h)
  BY <1>7 DEF SelectQuestion, Select, Respond, Boundary
<1> QED BY <1>1, <1>2, <1>3, <1>4, <1>5, <1>6, <1>7 DEF TurnStep

\* What a fitting step that neither persists nor replies preserves.
LEMMA PlacesKept ==
    ASSUME OInv, NEW h \in Handler, NEW s \in Places,
           at' = [at EXCEPT ![h] = s], Fits(h, s), UNCHANGED <<opened, pc>>
    PROVE  /\ at' \in [Handler -> Places]
           /\ \A g \in Handler : at'[g] = IF g = h THEN s ELSE at[g]
           /\ \A g \in Handler : /\ at'[g] \in StartPlaces => g \in Start
                                 /\ at'[g] \in TurnPlaces => g \in Turn
           /\ Followers'
<1>1. at \in [Handler -> Places]
  BY DEF OInv, Shape
<1>2. /\ at' \in [Handler -> Places]
      /\ \A g \in Handler : at'[g] = IF g = h THEN s ELSE at[g]
  BY <1>1
<1>3. Followers'
  BY <1>2 DEF OInv, Followers, Fits, Handler
<1> QED BY <1>2, <1>3 DEF OInv, Shape, Fits

LEMMA AdmissionKept ==
    ASSUME OInv, NEW h \in Handler, NEW s \in Places,
           at' = [at EXCEPT ![h] = s], Fits(h, s), UNCHANGED <<opened, person, faults>>
    PROVE  AdmittedOnce'
<1>1. at \in [Handler -> Places]
  BY DEF OInv, Shape
<1>2. \A g \in Start : at'[g] = IF g = h THEN s ELSE at[g]
  BY <1>1 DEF Handler
<1>3. \A g \in Start : at[g] \in Admitted => at'[g] \in Admitted
  BY <1>2 DEF Fits
<1> QED BY <1>3 DEF OInv, AdmittedOnce

\* A write that leaves a hash in place and takes none of its fields away.
HashGrows ==
    /\ hash' \in {None} \cup State
    /\ hash # None => /\ hash' # None
                      /\ hash.whole => hash'.whole
                      /\ hash.opener # None => hash'.opener # None
    /\ hash' # None => hash # None \/ ended

\* Which starts raced: who finds no hash beside another that found none.
Raced(h) ==
    /\ raced \subseteq raced' /\ raced' \subseteq Start
    /\ at[h] = "initialize" =>
          /\ hash' = hash
          /\ at'[h] = "append" => hash # None
          /\ at'[h] = "write" =>
                /\ hash = None
                /\ \A g \in Start \ {h} : at[g] = "write" => {g, h} \subseteq raced'

LEMMA RacedKept ==
    ASSUME OInv, NEW h \in Handler,
           \/ BeginStart(h) \/ Onboard(h) \/ SelectStarter(h) \/ Open(h)
           \/ TurnStep(h) \/ Ask(h) \/ Seed(h)
    PROVE  Raced(h)
<1>1. /\ raced \subseteq Start
      /\ at[h] = "initialize" => h \in Start
      /\ at \in [Handler -> Places]
  BY Apart DEF OInv, Shape, StartPlaces
<1>2. CASE raced' = raced /\ at[h] # "initialize"
  BY <1>1, <1>2 DEF Raced
<1>3. CASE LookForHash(h)
  <2>1. h \in Start /\ hash' = hash
    BY <1>1, <1>3 DEF LookForHash, wm
  <2>2. CASE hash # None
    BY <1>1, <1>3, <2>1, <2>2 DEF LookForHash, Raced, Step
  <2>3. CASE hash = None
    <3>1. at'[h] = "write"
      BY <1>1, <1>3, <2>3 DEF LookForHash, Step
    <3>2. raced \subseteq raced' /\ raced' \subseteq Start
      BY <1>1, <1>3, <2>1, <2>3 DEF LookForHash
    <3>3. \A g \in Start \ {h} : at[g] = "write" => {g, h} \subseteq raced'
      BY <1>3, <2>3 DEF LookForHash
    <3> QED BY <2>1, <2>3, <3>1, <3>2, <3>3 DEF Raced
  <2> QED BY <2>2, <2>3
<1>4. CASE BeginStart(h) \/ Onboard(h) \/ SelectStarter(h) \/ Ask(h) \/ Seed(h)
  BY <1>2, <1>4 DEF BeginStart, Onboard, SelectStarter, Ask, Seed, Enter, LookAtPerson,
        ResolveAnswers, PersistAnswers, history
<1>5. CASE GenerateOpener(h) \/ InitWorkingMemory(h) \/ AppendOpener(h)
  BY <1>2, <1>5 DEF GenerateOpener, InitWorkingMemory, AppendOpener, history
<1>6. CASE BeginTurn(h) \/ Decide(h) \/ StampDecision(h) \/ ReadState(h)
  BY <1>2, <1>6 DEF BeginTurn, Decide, StampDecision, ReadState, Enter, history
<1>7. CASE WriteSignals(h) \/ SelectQuestion(h) \/ Respond(h) \/ Boundary(h)
  BY <1>2, <1>7 DEF WriteSignals, SelectQuestion, Respond, Boundary, history
<1> QED BY <1>3, <1>4, <1>5, <1>6, <1>7 DEF Open, TurnStep

LEMMA UsableKept ==
    ASSUME OInv, NEW h \in Handler, NEW s \in Places,
           at' = [at EXCEPT ![h] = s], Fits(h, s), UNCHANGED <<opened, ended>>,
           hash' \in {None} \cup State, Raced(h),
           at[h] # "write" => HashGrows,
           at[h] = "write" => hash' # None /\ hash'.whole,
           at[h] = "append" => hash' # None /\ hash'.opener # None
    PROVE  Usable'
<1>1. at \in [Handler -> Places] /\ h \in Start \cup Turn
  BY DEF OInv, Shape, Handler
<1>2. \A g \in Start : at'[g] = IF g = h THEN s ELSE at[g]
  BY <1>1 DEF Handler
<1> SUFFICES ASSUME ~ended PROVE Usable'
  BY DEF Usable
<1>3. /\ hash # None => hash.whole
      /\ opened \/ (\E g \in Start : at[g] \in Greeted) =>
            hash # None /\ (hash.opener # None \/ Wiped)
      /\ \A g \in Start : at[g] = "append" => hash # None
      /\ \A g \in Start :
            /\ at[g] = "write"
            /\ hash # None \/ \E f \in Start \ {g} : at[f] = "write"
            => g \in raced
  BY DEF OInv, Usable
<1>4. /\ raced \subseteq raced' /\ raced' \subseteq Start
      /\ raced \subseteq Start /\ (at[h] = "write" => h \in Start)
  BY Apart DEF Raced, OInv, Shape, StartPlaces
<1>5. hash' # None => hash'.whole
  BY <1>3 DEF HashGrows
<1>6. hash # None => hash' # None
  BY <1>3 DEF HashGrows
<1>7. ASSUME NEW g \in Start, at'[g] = "append" PROVE hash' # None
  <2>1. CASE g = h
    BY <1>2, <1>6, <1>7, <2>1 DEF Fits, Raced
  <2>2. CASE g # h
    BY <1>2, <1>3, <1>6, <1>7, <2>2
  <2> QED BY <2>1, <2>2
<1>8. ASSUME opened' \/ \E g \in Start : at'[g] \in Greeted
      PROVE  hash' # None /\ (hash'.opener # None \/ Wiped')
  <2>1. CASE at[h] = "append"
    BY <2>1
  <2>2. CASE at[h] # "append"
    <3>1. opened \/ \E g \in Start : at[g] \in Greeted
      BY <1>2, <1>8, <2>2 DEF Fits
    <3>2. hash # None /\ (hash.opener # None \/ Wiped)
      BY <1>3, <3>1
    <3>3. CASE at[h] = "write"
      <4>1. h \in raced
        BY <1>3, <1>4, <3>2, <3>3
      <4>2. at'[h] = "append"
        BY <1>2, <1>4, <3>3 DEF Fits
      <4> QED BY <1>4, <3>3, <4>1, <4>2 DEF Wiped
    <3>4. CASE at[h] # "write"
      <4>1. hash' # None /\ (hash.opener # None => hash'.opener # None)
        BY <3>2, <3>4 DEF HashGrows
      <4>2. Wiped => Wiped'
        BY <1>2, <1>4, <2>2 DEF Wiped, Fits
      <4> QED BY <3>2, <4>1, <4>2
    <3> QED BY <3>3, <3>4
  <2> QED BY <2>1, <2>2
<1>9. ASSUME NEW g \in Start, at'[g] = "write",
             hash' # None \/ \E f \in Start \ {g} : at'[f] = "write"
      PROVE  g \in raced'
  <2>1. CASE g = h
    <3>1. at[h] = "initialize" /\ at'[h] = "write" /\ hash' = None
      BY <1>2, <1>9, <2>1 DEF Fits, Raced
    <3>2. PICK f \in Start \ {h} : at[f] = "write"
      BY <1>2, <1>9, <2>1, <3>1
    <3> QED BY <2>1, <3>1, <3>2 DEF Raced
  <2>2. CASE g # h /\ at'[h] = "write" /\ at[h] = "initialize"
    <3>1. at[g] = "write"
      BY <1>2, <1>9, <2>2
    <3> QED BY <2>2, <3>1 DEF Raced
  <2>3. CASE g # h /\ ~(at'[h] = "write" /\ at[h] = "initialize")
    <3>1. at[g] = "write" /\ \A f \in Start : at'[f] = "write" => at[f] = "write"
      BY <1>2, <1>9, <2>3 DEF Fits
    <3>2. CASE at[h] = "write"
      BY <1>2, <1>3, <1>4, <2>3, <3>1, <3>2
    <3>3. CASE at[h] # "write"
      <4>1. hash' # None => hash # None
        BY <3>3 DEF HashGrows
      <4> QED BY <1>3, <1>4, <1>9, <3>1, <4>1
    <3> QED BY <3>2, <3>3
  <2> QED BY <1>2, <1>9, <2>1, <2>2, <2>3
<1> QED BY <1>5, <1>7, <1>8, <1>9 DEF Usable

LEMMA PushKept ==
    ASSUME asked \in Seq(Chosen), NEW q \in Chosen, Push(q)
    PROVE  asked' \in Seq(Chosen)
<1> DEFINE long == Append(asked, q)
<1>1. long \in Seq(Chosen) /\ Len(long) = Len(asked) + 1 /\ Len(asked) \in Nat
  BY AppendProperties, LenProperties
<1>2. asked' = SubSeq(long, IF Len(long) > Window THEN 2 ELSE 1, Len(long))
  BY DEF Push
<1> HIDE DEF long
<1>3. CASE Len(long) > Window
  BY <1>1, <1>2, <1>3, SubSeqProperties, OpeningAssumption
<1>4. CASE ~(Len(long) > Window)
  BY <1>1, <1>2, <1>4, SubSeqProperties
<1> QED BY <1>3, <1>4

LEMMA LocalKept ==
    ASSUME Memory, NEW h \in Handler, NEW q \in Chosen
    PROVE  /\ [loc EXCEPT ![h].sel = q] \in [Handler -> Local]
           /\ [loc EXCEPT ![h].skip = q] \in [Handler -> Local]
           /\ [loc EXCEPT ![h].sel = q, ![h].picked = TRUE] \in [Handler -> Local]
           /\ \A o \in Sources \cup {None} :
                 [loc EXCEPT ![h].last = o] \in [Handler -> Local]
           /\ [loc EXCEPT ![h] = NewLocal] \in [Handler -> Local]
<1>1. NewLocal \in Local
  BY DEF NewLocal, Local, Chosen
<1>2. /\ [loc[h] EXCEPT !.sel = q] \in Local
      /\ [loc[h] EXCEPT !.skip = q] \in Local
      /\ [loc[h] EXCEPT !.sel = q, !.picked = TRUE] \in Local
      /\ \A o \in Sources \cup {None} : [loc[h] EXCEPT !.last = o] \in Local
  BY DEF Memory, Local
<1> QED BY <1>1, <1>2 DEF Memory

LEMMA SelectKept ==
    ASSUME Memory, NEW h \in Handler, NEW s, Select(h, s)
    PROVE  loc' \in [Handler -> Local]
<1>1. Candidates(loc[h].last) \subseteq Question
  BY DEF Candidates, Bank
<1>2. PICK q \in Chosen : loc' = [loc EXCEPT ![h].sel = q]
  BY <1>1 DEF Select, Chosen
<1> QED BY <1>2, LocalKept

LEMMA MemoryKept ==
    ASSUME Shape, Memory, NEW h \in Handler,
           \/ BeginStart(h) \/ Onboard(h) \/ SelectStarter(h) \/ Open(h)
           \/ TurnStep(h) \/ Ask(h) \/ Seed(h) \/ Reply(h) \/ Fails(h)
    PROVE  Memory'
<1>1. /\ loc \in [Handler -> Local] /\ asked \in Seq(Chosen)
      /\ loc[h].sel \in Chosen /\ loc[h].skip \in Chosen
  BY DEF Memory, Local
<1>2. CASE UNCHANGED <<asked, loc>>
  BY <1>1, <1>2 DEF Memory
<1>3. CASE BeginStart(h)
  <2>1. asked' = asked
    BY <1>3 DEF BeginStart, Enter, wm
  <2>2. loc' = loc \/ \E q \in Chosen : loc' = [loc EXCEPT ![h].sel = q, ![h].picked = TRUE]
    BY <1>3 DEF BeginStart, Chosen
  <2>3. loc' \in [Handler -> Local]
    <3>1. ASSUME NEW q \in Chosen, loc' = [loc EXCEPT ![h].sel = q, ![h].picked = TRUE]
          PROVE  loc' \in [Handler -> Local]
      BY <3>1, LocalKept
    <3> QED BY <1>1, <2>2, <3>1
  <2> QED BY <1>1, <2>1, <2>3 DEF Memory
<1>4. CASE SelectStarter(h) \/ SelectQuestion(h)
  <2>1. asked' = asked
    BY <1>4 DEF SelectStarter, SelectQuestion, wm
  <2>2. loc' \in [Handler -> Local]
    BY <1>4, SelectKept DEF SelectStarter, SelectQuestion, Memory
  <2> QED BY <1>1, <2>1, <2>2 DEF Memory
<1>5. CASE BeginTurn(h)
  <2>1. asked' = asked
    BY <1>5 DEF BeginTurn, Enter, wm
  <2>2. loc' = loc \/ \E i \in DOMAIN asked : loc' = [loc EXCEPT ![h].skip = asked[i]]
    BY <1>5 DEF BeginTurn
  <2>3. \A i \in DOMAIN asked : asked[i] \in Chosen
    BY <1>1
  <2>4. loc' \in [Handler -> Local]
    <3>1. ASSUME NEW i \in DOMAIN asked, loc' = [loc EXCEPT ![h].skip = asked[i]]
          PROVE  loc' \in [Handler -> Local]
      BY <2>3, <3>1, LocalKept
    <3> QED BY <1>1, <2>2, <3>1
  <2> QED BY <1>1, <2>1, <2>4 DEF Memory
<1>6. CASE StampDecision(h) \/ Ask(h)
  <2>1. loc' = loc
    BY <1>6 DEF StampDecision, Ask
  <2>2. Push(loc[h].skip) \/ Push(loc[h].sel)
    BY <1>6 DEF StampDecision, Ask
  <2> QED BY <1>1, <2>1, <2>2, PushKept DEF Memory
<1>7. CASE ReadState(h)
  <2>1. asked' = asked
    BY <1>7 DEF ReadState, wm
  <2>2. Whole => hash \in State
    BY DEF Whole, Shape
  <2>3. loc' = loc \/ \E o \in Sources \cup {None} : loc' = [loc EXCEPT ![h].last = o]
    BY <1>7, <2>2 DEF ReadState, State, Sources
  <2>4. loc' \in [Handler -> Local]
    <3>1. ASSUME NEW o \in Sources \cup {None}, loc' = [loc EXCEPT ![h].last = o]
          PROVE  loc' \in [Handler -> Local]
      BY <1>1, <3>1, LocalKept
    <3> QED BY <1>1, <2>3, <3>1
  <2> QED BY <1>1, <2>1, <2>4 DEF Memory
<1>8. CASE Reply(h) \/ Fails(h)
  <2>1. asked' = asked /\ loc' = [loc EXCEPT ![h] = NewLocal]
    BY <1>8 DEF Reply, Fails, Leave, wm
  <2>2. None \in Chosen
    BY DEF Chosen
  <2>3. loc' \in [Handler -> Local]
    BY <2>1, <2>2, LocalKept
  <2> QED BY <1>1, <2>1, <2>3 DEF Memory
<1>9. CASE \/ Onboard(h) \/ Open(h) \/ Seed(h) \/ Decide(h) \/ WriteSignals(h)
           \/ Respond(h) \/ Boundary(h)
  BY <1>2, <1>9 DEF Onboard, LookAtPerson, ResolveAnswers, PersistAnswers, Open,
        GenerateOpener, LookForHash, InitWorkingMemory, AppendOpener, Seed, Decide, WriteSignals,
        Respond, Boundary, wm
<1> QED BY <1>3, <1>4, <1>5, <1>6, <1>7, <1>8, <1>9 DEF TurnStep

\* What the steps of a handler do to the hash, none of which ends a session.
LEMMA HashKept ==
    ASSUME OInv, NEW h \in Handler,
           \/ BeginStart(h) \/ Onboard(h) \/ SelectStarter(h) \/ Open(h)
           \/ TurnStep(h) \/ Ask(h) \/ Seed(h)
    PROVE  /\ UNCHANGED ended /\ hash' \in {None} \cup State
           /\ at[h] # "write" => HashGrows
           /\ at[h] = "write" => hash' # None /\ hash'.whole
           /\ at[h] = "append" => hash' # None /\ hash'.opener # None
<1>1. /\ hash = None \/ hash \in State
      /\ None \notin State
      /\ at[h] = "append" => h \in Start /\ h # None
      /\ h \in Start /\ at[h] \in {"append", "seed"} => ended \/ hash # None
      /\ h \in Turn /\ at[h] # "idle" => ended \/ hash # None
  BY Apart, OpeningAssumption DEF OInv, Shape, Usable, Greeted, StartPlaces
<1>2. CASE UNCHANGED <<hash, ended>> /\ at[h] \notin {"write", "append"}
  BY <1>1, <1>2 DEF HashGrows
<1>3. CASE InitWorkingMemory(h)
  <2>1. [whole |-> TRUE, opener |-> None, seeded |-> None] \in State
    BY DEF State
  <2>2. hash' = [whole |-> TRUE, opener |-> None, seeded |-> None]
    BY <1>3 DEF InitWorkingMemory
  <2>3. UNCHANGED ended /\ at[h] = "write"
    BY <1>3 DEF InitWorkingMemory
  <2>4. hash' \in State /\ hash'.whole /\ hash' # None
    BY <1>1, <2>1, <2>2
  <2> QED BY <2>3, <2>4
<1> DEFINE Base == [whole |-> FALSE, opener |-> None, seeded |-> None]
<1>4. Hash \in State /\ (hash # None => Hash = hash)
  <2>1. Base \in State
    BY DEF State
  <2> QED BY <1>1, <2>1 DEF Hash
<1>5. CASE AppendOpener(h)
  <2>1. /\ hash' = [Hash EXCEPT !.opener = h]
        /\ UNCHANGED ended /\ at[h] = "append"
    BY <1>5 DEF AppendOpener
  <2>2. hash' \in State /\ hash'.whole = Hash.whole /\ hash'.opener = h
    BY <1>1, <1>4, <2>1 DEF State
  <2>3. hash' # None /\ hash'.opener # None
    BY <1>1, <2>1, <2>2
  <2> QED BY <1>1, <1>4, <2>1, <2>2, <2>3 DEF HashGrows
<1>6. CASE WriteSignals(h)
  BY <1>1, <1>4, <1>6, Apart DEF WriteSignals, HashGrows, TurnPlaces
<1>7. CASE Seed(h)
  <2>1. /\ hash' = [Hash EXCEPT !.seeded = loc[h].sel]
        /\ UNCHANGED ended /\ at[h] = "seed"
    BY <1>7 DEF Seed
  <2>2. loc[h].sel \in Question \cup {None}
    BY DEF OInv, Memory, Local, Chosen
  <2>3. hash' \in State /\ hash'.whole = Hash.whole /\ hash'.opener = Hash.opener
    BY <1>4, <2>1, <2>2 DEF State
  <2> QED BY <1>1, <1>4, <2>1, <2>3, Apart DEF HashGrows
<1>8. CASE Boundary(h)
  <2>1. UNCHANGED ended /\ at[h] = "boundary"
    BY <1>8 DEF Boundary
  <2>2. CASE hash' = hash
    BY <1>1, <2>1, <2>2 DEF HashGrows
  <2>3. CASE hash # None /\ hash' = [hash EXCEPT !.seeded = None]
    <3>1. hash' \in State /\ hash'.whole = hash.whole /\ hash'.opener = hash.opener
      BY <1>1, <2>3 DEF State
    <3> QED BY <1>1, <2>1, <2>3, <3>1 DEF HashGrows
  <2> QED BY <1>8, <2>2, <2>3 DEF Boundary, Whole
<1>9. CASE \/ BeginStart(h) \/ Onboard(h) \/ SelectStarter(h) \/ GenerateOpener(h)
           \/ LookForHash(h) \/ Ask(h)
  BY <1>2, <1>9 DEF BeginStart, Onboard, SelectStarter, GenerateOpener, LookForHash, Ask, Enter,
        LookAtPerson, ResolveAnswers, PersistAnswers, wm
<1>10. CASE \/ BeginTurn(h) \/ Decide(h) \/ StampDecision(h) \/ ReadState(h)
            \/ SelectQuestion(h) \/ Respond(h)
  BY <1>2, <1>10 DEF BeginTurn, Decide, StampDecision, ReadState, SelectQuestion,
        Respond, Enter, wm
<1> QED
  BY <1>3, <1>5, <1>6, <1>7, <1>8, <1>9, <1>10 DEF Open, TurnStep

\* A handler changes the person row in one place, and replies in another.
LEMMA PersonKept ==
    ASSUME NEW h \in Handler,
           \/ BeginStart(h) \/ Onboard(h) \/ SelectStarter(h) \/ Open(h)
           \/ TurnStep(h) \/ Ask(h) \/ Seed(h)
    PROVE  /\ opened' = opened
           /\ \/ person' = person
              \/ /\ at[h] = "persist" /\ ~person.complete
                 /\ person' = [complete |-> TRUE, persisted |-> person.persisted + 1]
                 /\ at' = [at EXCEPT ![h] = "opener"]
<1>1. CASE PersistAnswers(h)
  BY <1>1 DEF PersistAnswers, Step, client
<1>2. CASE \/ BeginStart(h) \/ LookAtPerson(h) \/ ResolveAnswers(h) \/ SelectStarter(h)
           \/ Open(h) \/ Ask(h) \/ Seed(h)
  BY <1>2 DEF BeginStart, LookAtPerson, ResolveAnswers, SelectStarter, Open, GenerateOpener,
        LookForHash, InitWorkingMemory, AppendOpener, Ask, Seed, Enter, client
<1>3. CASE TurnStep(h)
  BY <1>3 DEF TurnStep, BeginTurn, Decide, StampDecision, ReadState, WriteSignals,
        SelectQuestion, Respond, Boundary, Enter, client
<1> QED BY <1>1, <1>2, <1>3 DEF Onboard

LEMMA HandlerKept ==
    ASSUME OInv, NEW h \in Handler,
           \/ BeginStart(h) \/ Onboard(h) \/ SelectStarter(h) \/ Open(h)
           \/ TurnStep(h) \/ Ask(h) \/ Seed(h)
    PROVE  OInv'
<1>1. IInv' /\ UNCHANGED <<pc, faults>>
  BY HandlerLeavesKey, NextKept DEF OInv, vars, redis
<1>2. PICK s \in Places : at' = [at EXCEPT ![h] = s] /\ Fits(h, s)
  BY StepFits
<1>3. /\ ended' = ended /\ hash' \in {None} \cup State
      /\ at[h] # "write" => HashGrows
      /\ at[h] = "write" => hash' # None /\ hash'.whole
      /\ at[h] = "append" => hash' # None /\ hash'.opener # None
      /\ Raced(h)
  BY HashKept, RacedKept
<1>4. /\ opened' = opened
      /\ \/ person' = person
         \/ /\ at[h] = "persist" /\ ~person.complete
            /\ person' = [complete |-> TRUE, persisted |-> person.persisted + 1]
            /\ at' = [at EXCEPT ![h] = "opener"]
  BY PersonKept
<1>5. Memory'
  BY MemoryKept DEF OInv
<1>6. Usable'
  BY <1>2, <1>3, <1>4, UsableKept
<1>7. /\ at' \in [Handler -> Places]
      /\ \A g \in Handler : /\ at'[g] \in StartPlaces => g \in Start
                            /\ at'[g] \in TurnPlaces => g \in Turn
      /\ Followers'
  BY <1>1, <1>2, <1>4, PlacesKept
<1>8. person' \in [complete : BOOLEAN, persisted : Nat] /\ AdmittedOnce'
  <2>1. person \in [complete : BOOLEAN, persisted : Nat]
    BY DEF OInv, Shape
  <2>2. CASE person' = person
    BY <1>1, <1>2, <1>4, <2>1, <2>2, AdmissionKept
  <2>3. CASE /\ at[h] = "persist" /\ ~person.complete
             /\ person' = [complete |-> TRUE, persisted |-> person.persisted + 1]
             /\ at' = [at EXCEPT ![h] = "opener"]
    <3>1. person.persisted = 0 /\ h \in Start
      BY <2>3, Apart DEF OInv, AdmittedOnce, StartPlaces
    <3>2. at'[h] \in Admitted
      BY <2>3 DEF OInv, Shape, Admitted
    <3>3. person'.complete /\ person'.persisted = 1
      BY <2>3, <3>1
    <3> QED BY <2>1, <2>3, <3>1, <3>2, <3>3 DEF AdmittedOnce
  <2> QED BY <1>4, <2>2, <2>3
<1>9. Shape'
  BY <1>3, <1>4, <1>7, <1>8 DEF OInv, Shape, Raced
<1> QED BY <1>1, <1>5, <1>6, <1>7, <1>8, <1>9 DEF OInv

\* The end of a start or a turn: it has replied, or it has failed.
LEMMA LeaveKept ==
    ASSUME OInv, NEW h \in Handler, Reply(h) \/ Fails(h)
    PROVE  OInv'
<1>1. IInv' /\ pc' = pc
  BY HandlerLeavesKey, NextKept, FaultKept DEF OInv, vars, redis, Fails
<1>2. UNCHANGED <<hash, ended, person, raced>> /\ Memory'
  BY MemoryKept DEF OInv, Reply, Fails, wm, history
<1>3. PICK s \in {"done", "failed"} : at' = [at EXCEPT ![h] = s]
  BY DEF Reply, Fails, Leave, Step
<1>4. /\ at' \in [Handler -> Places]
      /\ \A g \in Handler : at'[g] = IF g = h THEN s ELSE at[g]
  BY <1>3 DEF OInv, Shape, Places, Ended
<1>5. s \notin StartPlaces \cup TurnPlaces \cup Admitted \cup Greeted \cup {"append", "write"}
  BY DEF StartPlaces, TurnPlaces, Admitted, Greeted
<1>6. \/ opened' /\ (h \in Start => at[h] \in Greeted) /\ (h \in Turn => opened)
      \/ /\ opened' = opened /\ faults' > 0
         /\ h \in Turn => opened
  <2>1. CASE Reply(h)
    BY <2>1, Apart DEF Reply, Greeted
  <2>2. CASE Fails(h)
    <3>1. faults \in Nat /\ faults' = faults + 1
      BY <2>2 DEF OInv, IInv, TypeOK, Fails, Fault
    <3>2. opened' = opened /\ at[h] # "idle"
      BY <2>2 DEF Fails, client, Running, Ended
    <3> QED BY <3>1, <3>2, Apart
  <2> QED BY <2>1, <2>2
<1>7. Shape'
  BY <1>2, <1>4, <1>5, <1>6 DEF OInv, Shape
<1>8. Followers'
  BY <1>1, <1>4, <1>6 DEF OInv, Followers, Handler
<1>9. AdmittedOnce'
  BY <1>2, <1>6 DEF OInv, AdmittedOnce
<1>10. Usable'
  <2>1. \A g \in Start : at'[g] \in Greeted \cup {"append", "write"} => at'[g] = at[g]
    BY <1>4, <1>5 DEF Handler
  <2>2. Wiped => Wiped'
    <3>1. raced \subseteq Handler
      BY DEF OInv, Shape, Handler
    <3>2. Reply(h) => at[h] = "reply"
      BY DEF Reply
    <3>3. Fails(h) => at'[h] = "failed"
      BY <1>4 DEF Fails, Leave, Step, OInv, Shape
    <3> QED BY <1>2, <1>4, <3>1, <3>2, <3>3 DEF Wiped
  <2>3. opened' \/ (\E g \in Start : at'[g] \in Greeted) =>
            ended \/ (hash # None /\ (hash.opener # None \/ Wiped))
    BY <1>6, <2>1, Apart DEF OInv, Usable
  <2> QED BY <1>2, <2>1, <2>2, <2>3 DEF OInv, Usable
<1> QED BY <1>1, <1>2, <1>7, <1>8, <1>9, <1>10 DEF OInv

-----------------------------------------------------------------------------
(* Wraps, locks and leases.                                                *)

\* A step beside the handlers that ends the session or takes nothing away.
LEMMA BesideKept ==
    ASSUME OInv, IInv', UNCHANGED <<at, loc, opened, person, raced>>,
           faults' >= faults,
           asked' = asked \/ asked' = <<>>,
           \A r \in Req : pc'[r] # "idle" => opened,
           ended' \in BOOLEAN, ended => ended',
           hash' \in {None} \cup State,
           ended' \/ HashGrows
    PROVE  OInv'
<1>1. Shape'
  BY DEF OInv, Shape
<1>2. Memory'
  <2>1. asked \in Seq(Chosen) /\ <<>> \in Seq(Chosen) /\ loc \in [Handler -> Local]
    BY EmptySeq DEF OInv, Memory
  <2>2. asked' \in Seq(Chosen)
    BY <2>1
  <2> QED BY <2>1, <2>2 DEF Memory
<1>3. Followers'
  BY DEF OInv, Followers
<1>4. AdmittedOnce'
  BY DEF OInv, AdmittedOnce, IInv, TypeOK
<1>5. Usable'
  <2>1. Wiped' <=> Wiped
    BY DEF Wiped
  <2>2. CASE ended'
    BY <2>2 DEF Usable
  <2>3. CASE HashGrows /\ ~ended'
    BY <2>1, <2>3 DEF OInv, Usable, HashGrows
  <2> QED BY <2>2, <2>3
<1> QED BY <1>1, <1>2, <1>3, <1>4, <1>5 DEF OInv

\* Nobody handles a key before he has come.
LEMMA ArrivedFirst ==
    ASSUME OInv, NEW r \in Req,
           (Arrive(r) /\ opened) \/ Handle(r) \/ Crash(r)
    PROVE  faults' >= faults /\ \A q \in Req : pc'[q] # "idle" => opened
<1>1. faults \in Nat /\ pc \in [Req -> Steps]
  BY DEF OInv, IInv, TypeOK, Steps
<1>2. faults' >= faults
  BY <1>1 DEF Arrive, Handle, Crash, ReadCache, Acquire, Operate, OperateFails, Store,
        StoreFails, Release, Fault
<1>3. opened \/ pc[r] # "idle"
  BY DEF Arrive, Handle, Crash, ReadCache, Acquire, Operate, OperateFails, Store,
        StoreFails, Release
<1>4. \E t \in Steps : pc' = [pc EXCEPT ![r] = t]
  <2>1. CASE Arrive(r) \/ ReadCache(r) \/ Acquire(r) \/ Operate(r) \/ OperateFails(r)
    BY <2>1 DEF Arrive, ReadCache, Acquire, Operate, OperateFails, Goto, Steps
  <2>2. CASE Store(r) \/ StoreFails(r) \/ Release(r) \/ Crash(r)
    BY <2>2 DEF Store, StoreFails, Release, Crash, Goto, Steps
  <2> QED BY <2>1, <2>2 DEF Handle
<1>5. \A q \in Req \ {r} : pc'[q] = pc[q]
  BY <1>1, <1>4
<1>6. opened \/ \A q \in Req : pc[q] = "idle"
  BY DEF OInv, Followers
<1> QED BY <1>2, <1>3, <1>5, <1>6

LEMMA WrapKept ==
    ASSUME OInv, NEW r \in Req, Wraps(r)
    PROVE  OInv'
<1>1. /\ faults \in Nat /\ ended \in BOOLEAN /\ IInv
      /\ hash \in {None} \cup State
      /\ \A q \in Req : pc[q] # "idle" => opened
      /\ opened => ended \/ hash # None
  BY DEF OInv, IInv, TypeOK, Shape, Followers, Usable
<1>2. CASE /\ (Arrive(r) /\ opened) \/ Handle(r) \/ Crash(r)
           /\ UNCHANGED opening
  <2>1. faults' >= faults /\ \A q \in Req : pc'[q] # "idle" => opened
    BY <1>2, ArrivedFirst
  <2>2. UNCHANGED <<at, loc, opened, person, raced, asked, ended, hash>>
    BY <1>2 DEF opening, wm, client, history
  <2>3. IInv'
    BY <1>1, <1>2, NextKept DEF Next
  <2>4. HashGrows
    BY <1>1, <2>2, OpeningAssumption DEF HashGrows, OInv, Usable
  <2> QED BY <1>1, <2>1, <2>2, <2>3, <2>4, BesideKept
<1>3. CASE WrapStep(r)
  <2>1. UNCHANGED <<at, loc, opened, person, raced, asked, ended>> /\ UNCHANGED vars
    BY <1>3 DEF WrapStep, client, history
  <2>2. pc' = pc /\ faults' = faults /\ IInv'
    BY <1>1, <2>1, NextKept DEF vars
  <2>3. opened /\ (ended \/ hash # None)
    BY <1>1, <1>3 DEF WrapStep
  <2>4. hash' \in {None} \cup State /\ (ended' \/ HashGrows)
    <3>1. hash' = hash \/ hash' = [Hash EXCEPT !.seeded = None]
      BY <1>3 DEF WrapStep
    <3>2. CASE hash' = hash
      BY <1>1, <3>2, OpeningAssumption DEF HashGrows, OInv, Usable
    <3>3. CASE hash' = [Hash EXCEPT !.seeded = None]
      <4>1. Hash \in State /\ (hash # None => Hash = hash)
        BY <1>1 DEF Hash, State
      <4>2. hash' \in State /\ hash'.whole = Hash.whole /\ hash'.opener = Hash.opener
        BY <3>3, <4>1 DEF State
      <4> QED BY <1>1, <2>1, <2>3, <4>1, <4>2, OpeningAssumption DEF HashGrows
    <3> QED BY <3>1, <3>2, <3>3
  <2> QED BY <1>1, <2>1, <2>2, <2>4, BesideKept
<1>4. CASE Wrap(r)
  <2>1. UNCHANGED <<at, loc, opened, person, raced>>
    BY <1>4 DEF Wrap, client, history
  <2>2. faults' >= faults /\ \A q \in Req : pc'[q] # "idle" => opened
    BY <1>4, ArrivedFirst DEF Wrap, Handle
  <2>3. IInv'
    BY <1>1, <1>4, NextKept DEF Wrap, Next, Handle
  <2>4. CASE Cleared
    BY <1>1, <2>1, <2>2, <2>3, <2>4, BesideKept DEF Cleared
  <2>5. CASE UNCHANGED wm
    <3>1. UNCHANGED <<hash, asked, ended>>
      BY <2>5 DEF wm
    <3>2. HashGrows
      BY <1>1, <3>1, OpeningAssumption DEF HashGrows, OInv, Usable
    <3> QED BY <1>1, <2>1, <2>2, <2>3, <3>1, <3>2, BesideKept
  <2> QED BY <1>4, <2>4, <2>5 DEF Wrap
<1> QED BY <1>2, <1>3, <1>4 DEF Wraps, Handle

\* Locks and leases that run out.
LEMMA TimeKept ==
    ASSUME OInv,
           \/ (LockExpires \/ LockOverruns) /\ UNCHANGED opening
           \/ LeaseRunsOut
           \/ UNCHANGED OpeningVars
    PROVE  OInv'
<1>1. /\ faults \in Nat /\ ended \in BOOLEAN /\ IInv
      /\ hash \in {None} \cup State
      /\ \A q \in Req : pc[q] # "idle" => opened
  BY DEF OInv, IInv, TypeOK, Shape, Followers
<1>2. /\ UNCHANGED <<at, loc, opened, person, raced, pc>>
      /\ faults' >= faults
  BY <1>1 DEF LockExpires, LockOverruns, Fault, LeaseRunsOut, OpeningVars, opening,
        client, history, vars
<1>3. IInv'
  BY <1>1, KeyKept DEF OpeningNext
<1>4. CASE UNCHANGED <<hash, ended>> /\ (asked' = asked \/ asked' = <<>>)
  <2>1. HashGrows
    BY <1>1, <1>4, OpeningAssumption DEF HashGrows, OInv, Usable
  <2> QED BY <1>1, <1>2, <1>3, <1>4, <2>1, BesideKept
<1>5. CASE Cleared
  BY <1>1, <1>2, <1>3, <1>5, BesideKept DEF Cleared
<1> QED BY <1>4, <1>5 DEF LeaseRunsOut, OpeningVars, opening, wm

-----------------------------------------------------------------------------
LEMMA InitOInv == OpeningInit => OInv
<1> SUFFICES ASSUME OpeningInit PROVE OInv
  OBVIOUS
<1>1. IInv
  BY InitIInv DEF OpeningInit
<1>2. /\ Shape
      /\ \A h \in Handler : at[h] = "idle"
      /\ \A r \in Req : pc[r] = "idle"
  BY DEF OpeningInit, Init, Shape, Places, Ended, StartPlaces, TurnPlaces
<1>3. Memory
  BY DEF OpeningInit, Memory, Local, Chosen, NewLocal
<1>4. Followers /\ AdmittedOnce /\ Usable
  BY <1>2 DEF OpeningInit, Followers, AdmittedOnce, Usable, Handler, Greeted
<1> QED BY <1>1, <1>2, <1>3, <1>4 DEF OInv

LEMMA OpeningInductive == OpeningSpec => []OInv
<1>1. OpeningInit => OInv
  BY InitOInv
<1>2. OInv /\ [OpeningNext]_OpeningVars => OInv'
  <2> SUFFICES ASSUME OInv, [OpeningNext]_OpeningVars PROVE OInv'
    OBVIOUS
  <2> QED BY HandlerKept, LeaveKept, WrapKept, TimeKept DEF OpeningNext
<1> QED BY <1>1, <1>2, PTL DEF OpeningSpec, OpeningVars

\* Wraps of a session that retry one key work at the same time only as often
\* as a lock ran out under its holder, whatever starts and turns do meanwhile.
THEOREM WrapsOverlapIsBounded == OpeningSpec => []OverlapNeedsOverruns
<1>1. OInv => OverlapNeedsOverruns
  BY FewAtWork DEF OInv
<1> QED BY <1>1, OpeningInductive, PTL

\* A wrap that comes after a response was cached is given the response of a
\* wrap that took effect, and does not wrap the session again.
THEOREM WrapsAreReplayed == OpeningSpec => []LateIsReplayed
<1>1. OInv => LateIsReplayed
  BY LateOnesRead DEF OInv
<1> QED BY <1>1, OpeningInductive, PTL

\* However many starts bring the answers, and wherever they fail, the answers
\* are persisted once, and who is through without an opener met a failure.
THEOREM AnswersPersistOnce == OpeningSpec => []OnboardedOnce
<1>1. OInv => OnboardedOnce
  <2> SUFFICES ASSUME OInv PROVE OnboardedOnce
    OBVIOUS
  <2>1. person.persisted <= 1
    BY DEF OInv, AdmittedOnce
  <2>2. \A h \in Start : at[h] \in Admitted => h \in Running
    BY DEF Running, Handler, Admitted, Ended
  <2> QED BY <2>1, <2>2 DEF OnboardedOnce, OInv, AdmittedOnce
<1> QED BY <1>1, OpeningInductive, PTL

\* A session whose opener reached a client has a whole state with an opener
\* until it ends, whatever other starts, turns and wraps do or leave half done,
\* but for two starts that both looked for the hash before either wrote it.
THEOREM StartStaysUsable == OpeningSpec => []StartedIsUsable
<1>1. OInv => StartedIsUsable
  <2> SUFFICES ASSUME OInv, opened, ~ended
               PROVE  /\ Whole
                      /\ hash.opener # None \/ \E h \in raced : at[h] \in {"append", "failed"}
    BY DEF StartedIsUsable
  <2> QED BY DEF OInv, Usable, Wiped, Whole
<1> QED BY <1>1, OpeningInductive, PTL

-----------------------------------------------------------------------------
(* What is asked again.  A handler that has chosen holds a question that is   *)
(* off the register, and stays off it until another one asks the same.       *)

Undecided == {"idle", "person", "resolve", "persist"}

\* Where a handler holds the question it is to ask.
Deciding(h) ==
    IF h \in Start THEN at[h] \in {"opener", "initialize", "write", "append", "seed", "ask"}
                   ELSE at[h] \in {"respond", "ask"}

Asking(h) == at[h] = "ask" \/ (h \in Start /\ at[h] = "seed")

FreshAt(h) ==
    /\ h \in Start /\ at[h] \in Undecided => loc[h].sel = None
    /\ Asking(h) => loc[h].sel # None
    /\ Deciding(h) /\ loc[h].sel # None /\ ~loc[h].picked =>
          <<h, loc[h].sel>> \in crossed \/ told[loc[h].sel] = Window

\* What was asked lately is on the register, as far from its end as it is old.
RegisterKnows ==
    /\ told \in [Question -> 0 .. Window]
    /\ Len(asked) <= Window
    /\ \A q \in Question : told[q] < Window =>
          \E i \in DOMAIN asked : asked[i] = q /\ Len(asked) - i <= told[q]

RaceInv ==
    /\ OInv /\ RegisterKnows /\ RepeatsNeedARace
    /\ \A h \in Handler : FreshAt(h)

\* A question is appended, and the others are one append older.
LEMMA PushRemembers ==
    ASSUME RegisterKnows, asked \in Seq(Chosen), NEW x \in Chosen, Push(x),
           \/ told' = Aged
           \/ x \in Question /\ told' = [Aged EXCEPT ![x] = 0]
    PROVE  RegisterKnows'
<1> DEFINE long == Append(asked, x)
           n    == Len(asked)
<1>1. /\ long \in Seq(Chosen) /\ Len(long) = n + 1 /\ n \in Nat
      /\ \A i \in 1 .. n : long[i] = asked[i]
      /\ long[n + 1] = x
  BY AppendProperties, LenProperties
<1>2. Window \in Nat \ {0} /\ n <= Window /\ told \in [Question -> 0 .. Window]
  BY OpeningAssumption DEF RegisterKnows
<1>3. asked' = SubSeq(long, IF Len(long) > Window THEN 2 ELSE 1, Len(long))
  BY DEF Push
<1> HIDE DEF long
<1>4. /\ Len(asked') <= Window
      /\ DOMAIN asked' = 1 .. Len(asked')
      /\ Len(asked') \in Nat \ {0}
      /\ asked'[Len(asked')] = x
      /\ \A i \in 1 .. n : \/ i = 1 /\ n = Window
                           \/ \E j \in 1 .. Len(asked') :
                                 asked'[j] = asked[i] /\ Len(asked') - j = n - i + 1
  <2>1. CASE n = Window
    <3>1. asked' = SubSeq(long, 2, n + 1)
      BY <1>1, <1>2, <1>3, <2>1
    <3>2. Len(asked') = n /\ DOMAIN asked' = 1 .. n /\ \A j \in 1 .. n : asked'[j] = long[j + 1]
      BY <1>1, <1>2, <2>1, <3>1, SubSeqProperties
    <3>3. ASSUME NEW i \in 1 .. n, i # 1
          PROVE  asked'[i - 1] = asked[i] /\ i - 1 \in 1 .. n /\ n - (i - 1) = n - i + 1
      BY <1>1, <3>2, <3>3
    <3>4. asked'[n] = x
      BY <1>1, <1>2, <2>1, <3>2
    <3>5. \A i \in 1 .. n : i # 1 => \E j \in 1 .. Len(asked') :
                                 asked'[j] = asked[i] /\ Len(asked') - j = n - i + 1
      BY <3>2, <3>3
    <3> QED BY <1>1, <1>2, <2>1, <3>2, <3>4, <3>5
  <2>2. CASE n < Window
    <3>1. asked' = SubSeq(long, 1, n + 1)
      BY <1>1, <1>2, <1>3, <2>2
    <3>2. /\ Len(asked') = n + 1 /\ DOMAIN asked' = 1 .. n + 1
          /\ \A j \in 1 .. n + 1 : asked'[j] = long[j]
      BY <1>1, <1>2, <2>2, <3>1, SubSeqProperties
    <3>3. ASSUME NEW i \in 1 .. n
          PROVE  asked'[i] = asked[i] /\ i \in 1 .. n + 1 /\ (n + 1) - i = n - i + 1
      BY <1>1, <3>2
    <3>4. \A i \in 1 .. n : \E j \in 1 .. Len(asked') :
                                 asked'[j] = asked[i] /\ Len(asked') - j = n - i + 1
      BY <3>2, <3>3
    <3> QED BY <1>1, <1>2, <2>2, <3>2, <3>4
  <2> QED BY <1>1, <1>2, <2>1, <2>2
<1>5. /\ Aged \in [Question -> 0 .. Window]
      /\ \A q \in Question : Aged[q] = IF told[q] = Window THEN Window ELSE told[q] + 1
  BY <1>2 DEF Aged
<1>6. ASSUME NEW q \in Question, Aged[q] < Window
      PROVE  \E j \in DOMAIN asked' : asked'[j] = q /\ Len(asked') - j <= Aged[q]
  <2>1. told[q] \in 0 .. Window /\ told[q] < Window /\ Aged[q] = told[q] + 1
    BY <1>2, <1>5, <1>6
  <2>2. PICK i \in DOMAIN asked : asked[i] = q /\ n - i <= told[q]
    BY <2>1 DEF RegisterKnows
  <2>3. i \in 1 .. n
    BY <2>2
  <2>4. ~(i = 1 /\ n = Window)
    BY <1>2, <1>6, <2>1, <2>2
  <2>5. PICK j \in 1 .. Len(asked') : asked'[j] = asked[i] /\ Len(asked') - j = n - i + 1
    BY <1>4, <2>3, <2>4
  <2>6. j \in DOMAIN asked' /\ asked'[j] = q
    BY <1>4, <2>2, <2>5
  <2>7. n - i + 1 <= told[q] + 1
    BY <1>1, <2>1, <2>2, <2>3
  <2> QED BY <2>1, <2>5, <2>6, <2>7
<1>7. told' \in [Question -> 0 .. Window]
  BY <1>2, <1>5
<1>8. ASSUME NEW q \in Question, told'[q] < Window
      PROVE  \E j \in DOMAIN asked' : asked'[j] = q /\ Len(asked') - j <= told'[q]
  <2>1. CASE told'[q] = Aged[q]
    BY <1>6, <1>8, <2>1
  <2>2. CASE q = x /\ told'[q] = 0
    BY <1>4, <2>2
  <2> QED BY <1>5, <1>8, <2>1, <2>2
<1> QED BY <1>4, <1>7, <1>8 DEF RegisterKnows

\* What the fallbacks of the selection have in common.
LEMMA CandidatesAreFresh ==
    ASSUME RegisterKnows, NEW last, NEW q \in Candidates(last)
    PROVE  q \in Question /\ told[q] = Window
<1>1. q \in Question /\ \A i \in DOMAIN asked : asked[i] # q
  BY DEF Candidates, Bank
<1>2. told[q] \in 0 .. Window /\ ~(told[q] < Window)
  BY <1>1 DEF RegisterKnows
<1> QED BY <1>1, <1>2, OpeningAssumption

\* What a step of a handler leaves to the others, and to history.
LEMMA OthersUntouched ==
    ASSUME OInv, NEW h \in Handler,
           \/ BeginStart(h) \/ Onboard(h) \/ SelectStarter(h) \/ Open(h)
           \/ TurnStep(h) \/ Ask(h) \/ Seed(h) \/ Reply(h) \/ Fails(h)
    PROVE  /\ \A g \in Handler \ {h} : at'[g] = at[g] /\ loc'[g] = loc[g]
           /\ Ask(h) \/ UNCHANGED <<repeats, crossed>>
           /\ Ask(h) \/ StampDecision(h) \/ told' = told
<1>1. at \in [Handler -> Places] /\ loc \in [Handler -> Local]
  BY DEF OInv, Shape, Memory
<1>2. CASE BeginStart(h) \/ BeginTurn(h)
  <2>1. UNCHANGED <<told, repeats, crossed>>
    BY <1>2 DEF BeginStart, BeginTurn, Enter, wm, history
  <2>2. \A g \in Handler \ {h} : at'[g] = at[g] /\ loc'[g] = loc[g]
    BY <1>1, <1>2 DEF BeginStart, BeginTurn, Step
  <2> QED BY <2>1, <2>2
<1>3. CASE Onboard(h) \/ Ask(h) \/ Seed(h)
  BY <1>1, <1>3 DEF Onboard, LookAtPerson, ResolveAnswers, PersistAnswers,
        Ask, Seed, Step, wm, history
<1>4. CASE SelectStarter(h) \/ SelectQuestion(h)
  <2>1. UNCHANGED <<told, repeats, crossed>>
    BY <1>4 DEF SelectStarter, SelectQuestion, wm, history
  <2>2. PICK q, s : loc' = [loc EXCEPT ![h].sel = q] /\ at' = [at EXCEPT ![h] = s]
    BY <1>4 DEF SelectStarter, SelectQuestion, Select, Step
  <2> QED BY <1>1, <2>1, <2>2
<1>5. CASE Decide(h) \/ StampDecision(h) \/ ReadState(h) \/ WriteSignals(h)
           \/ Respond(h) \/ Boundary(h)
  BY <1>1, <1>5 DEF Decide, StampDecision, ReadState, WriteSignals, Respond, Boundary,
        Step, wm, history
<1>6. CASE Fails(h)
  BY <1>1, <1>6 DEF Fails, Leave, Step, wm, history
<1>7. CASE Reply(h)
  BY <1>1, <1>7 DEF Reply, Leave, Step, wm, history
<1>8. CASE Open(h)
  <2>1. UNCHANGED <<told, repeats, crossed, loc>>
    BY <1>8 DEF Open, GenerateOpener, LookForHash, InitWorkingMemory, AppendOpener, wm, history
  <2>2. \E s \in {"initialize", "write", "append", "reply", "seed"} : at' = [at EXCEPT ![h] = s]
    BY <1>8 DEF Open, GenerateOpener, LookForHash, InitWorkingMemory, AppendOpener, Step
  <2> QED BY <1>1, <2>1, <2>2
<1> QED BY <1>2, <1>3, <1>4, <1>5, <1>6, <1>7, <1>8 DEF TurnStep

\* What a step of a handler does to the register.
LEMMA RegisterKept ==
    ASSUME RaceInv, NEW h \in Handler,
           \/ BeginStart(h) \/ Onboard(h) \/ SelectStarter(h) \/ Open(h)
           \/ TurnStep(h) \/ Ask(h) \/ Seed(h) \/ Reply(h) \/ Fails(h)
    PROVE  RegisterKnows' /\ (UNCHANGED told \/ at[h] \in {"ask", "stamp"})
<1>1. /\ RegisterKnows /\ asked \in Seq(Chosen)
      /\ loc[h].sel \in Chosen /\ loc[h].skip \in Chosen
      /\ at[h] = "ask" => loc[h].sel # None
  BY DEF RaceInv, OInv, Memory, Local, FreshAt, Asking
<1>2. CASE UNCHANGED <<asked, told>>
  BY <1>1, <1>2 DEF RegisterKnows
<1>3. CASE Ask(h)
  <2>1. /\ Push(loc[h].sel) /\ told' = [Aged EXCEPT ![loc[h].sel] = 0]
        /\ at[h] = "ask"
    BY <1>3 DEF Ask
  <2>2. loc[h].sel \in Question
    BY <1>1, <2>1 DEF Chosen
  <2> QED BY <1>1, <2>1, <2>2, PushRemembers
<1>4. CASE StampDecision(h)
  BY <1>1, <1>4, PushRemembers DEF StampDecision
<1>5. CASE BeginStart(h) \/ Onboard(h) \/ SelectStarter(h) \/ Open(h) \/ Seed(h)
           \/ Reply(h) \/ Fails(h)
  BY <1>2, <1>5 DEF BeginStart, Onboard, LookAtPerson, ResolveAnswers, PersistAnswers,
        SelectStarter, Open, GenerateOpener, LookForHash, InitWorkingMemory, AppendOpener, Seed, Reply,
        Fails, Enter, wm
<1>6. CASE \/ BeginTurn(h) \/ Decide(h) \/ ReadState(h) \/ WriteSignals(h)
           \/ SelectQuestion(h) \/ Respond(h) \/ Boundary(h)
  BY <1>2, <1>6 DEF BeginTurn, Decide, ReadState, WriteSignals, SelectQuestion,
        Respond, Boundary, Enter, wm
<1> QED BY <1>3, <1>4, <1>5, <1>6 DEF TurnStep

\* A question ages when another is pushed, and is asked only in an Ask that
\* every handler that holds it is crossed by.
LEMMA OthersStayFresh ==
    ASSUME RaceInv, NEW h \in Handler, NEW g \in Handler \ {h},
           \/ BeginStart(h) \/ Onboard(h) \/ SelectStarter(h) \/ Open(h)
           \/ TurnStep(h) \/ Ask(h) \/ Seed(h) \/ Reply(h) \/ Fails(h)
    PROVE  FreshAt(g)'
<1>1. /\ at'[g] = at[g] /\ loc'[g] = loc[g]
      /\ Ask(h) \/ UNCHANGED <<repeats, crossed>>
      /\ Ask(h) \/ StampDecision(h) \/ told' = told
  BY OthersUntouched DEF RaceInv
<1>2. FreshAt(g) /\ told \in [Question -> 0 .. Window] /\ loc[g].sel \in Question \cup {None}
  BY DEF RaceInv, RegisterKnows, OInv, Memory, Local, Chosen
<1>3. (Deciding(g)' <=> Deciding(g)) /\ (Asking(g)' <=> Asking(g))
  BY <1>1 DEF Deciding, Asking
<1>4. \A q \in Question : told[q] = Window => Aged[q] = Window
  BY DEF Aged
<1>5. CASE Ask(h)
  <2>1. /\ told' = [Aged EXCEPT ![loc[h].sel] = 0]
        /\ crossed' = crossed \cup {<<f, loc[h].sel>> : f \in {e \in Handler \ {h} : Holds(e, loc[h].sel)}}
    BY <1>5 DEF Ask
  <2>2. CASE Deciding(g) /\ loc[g].sel = loc[h].sel
    <3>1. Holds(g, loc[h].sel)
      BY <2>2 DEF Holds, Deciding
    <3>2. <<g, loc[g].sel>> \in crossed'
      BY <2>1, <2>2, <3>1
    <3> QED BY <1>1, <1>2, <1>3, <3>2 DEF FreshAt
  <2>3. CASE ~(Deciding(g) /\ loc[g].sel = loc[h].sel)
    <3>1. loc[g].sel \in Question /\ loc[g].sel # loc[h].sel => told'[loc[g].sel] = Aged[loc[g].sel]
      BY <2>1 DEF Aged
    <3> QED BY <1>1, <1>2, <1>3, <1>4, <2>1, <2>3, <3>1 DEF FreshAt
  <2> QED BY <2>2, <2>3
<1>6. CASE ~Ask(h) /\ StampDecision(h)
  <2>1. told' = Aged /\ crossed' = crossed
    BY <1>1, <1>6 DEF StampDecision
  <2> QED BY <1>1, <1>2, <1>3, <1>4, <2>1 DEF FreshAt
<1>7. CASE told' = told /\ crossed' = crossed
  BY <1>1, <1>2, <1>3, <1>7 DEF FreshAt
<1> QED BY <1>1, <1>5, <1>6, <1>7

\* A handler comes to its question by choosing it, or a client picked it.
LEMMA ChoosesFresh ==
    ASSUME RaceInv, NEW h \in Handler,
           BeginStart(h) \/ SelectStarter(h) \/ SelectQuestion(h)
    PROVE  FreshAt(h)'
<1> USE DEF FreshAt, Deciding, Asking, Undecided
<1>1. /\ at \in [Handler -> Places] /\ loc \in [Handler -> Local]
      /\ RegisterKnows /\ FreshAt(h)
      /\ h \in Start <=> h \notin Turn
  BY Apart DEF RaceInv, OInv, Shape, Memory
<1>2. told' = told
  BY DEF BeginStart, SelectStarter, SelectQuestion, Enter, wm
<1>3. loc[h] \in Local
  BY <1>1
<1>4. CASE BeginStart(h)
  <2>1. h \in Start /\ loc[h].sel = None
    BY <1>1, <1>4 DEF BeginStart, Enter
  <2>2. \/ at'[h] \in {"person", "select"} /\ loc' = loc
        \/ /\ at'[h] = "opener"
           /\ \E q \in Question : loc' = [loc EXCEPT ![h].sel = q, ![h].picked = TRUE]
    BY <1>1, <1>4 DEF BeginStart, Step
  <2>3. CASE at'[h] \in {"person", "select"} /\ loc' = loc
    BY <2>1, <2>3
  <2>4. CASE /\ at'[h] = "opener"
             /\ \E q \in Question : loc' = [loc EXCEPT ![h].sel = q, ![h].picked = TRUE]
    <3>1. loc'[h].picked
      BY <1>1, <1>3, <2>4 DEF Local
    <3> QED BY <2>1, <2>4, <3>1
  <2> QED BY <2>2, <2>3, <2>4
<1>5. CASE SelectStarter(h) \/ SelectQuestion(h)
  <2>1. PICK q \in {None} \cup Candidates(loc[h].last) : loc' = [loc EXCEPT ![h].sel = q]
    BY <1>5 DEF SelectStarter, SelectQuestion, Select
  <2>2. at'[h] \in {"opener", "respond"}
    BY <1>1, <1>5 DEF SelectStarter, SelectQuestion, Select, Step
  <2>3. loc'[h].sel = q
    BY <1>1, <1>3, <2>1 DEF Local
  <2>4. q # None => told[q] = Window
    BY <1>1, <2>1, CandidatesAreFresh
  <2> QED BY <1>2, <2>2, <2>3, <2>4
<1> QED BY <1>4, <1>5

\* And keeps it until it is on the register.
LEMMA KeepsFresh ==
    ASSUME RaceInv, NEW h \in Handler,
           \/ Onboard(h) \/ Open(h) \/ BeginTurn(h) \/ Decide(h) \/ StampDecision(h)
           \/ ReadState(h) \/ WriteSignals(h) \/ Respond(h) \/ Boundary(h)
           \/ Ask(h) \/ Seed(h) \/ Reply(h) \/ Fails(h)
    PROVE  FreshAt(h)'
<1> USE DEF FreshAt, Deciding, Asking, Undecided
<1>1. /\ at \in [Handler -> Places] /\ loc \in [Handler -> Local]
      /\ FreshAt(h)
      /\ h \in Start <=> h \notin Turn
      /\ at[h] \in StartPlaces => h \in Start
      /\ at[h] \in TurnPlaces => h \in Turn
  BY Apart DEF RaceInv, OInv, Shape, Memory
<1>2. /\ Ask(h) \/ crossed' = crossed
      /\ told' = told \/ at[h] \in {"ask", "stamp"}
  <2>1. \/ BeginStart(h) \/ Onboard(h) \/ SelectStarter(h) \/ Open(h)
        \/ TurnStep(h) \/ Ask(h) \/ Seed(h) \/ Reply(h) \/ Fails(h)
    BY DEF TurnStep
  <2> QED BY <2>1, OthersUntouched, RegisterKept DEF RaceInv
<1>3. CASE Onboard(h)
  <2>1. /\ loc' = loc /\ h \in Start /\ loc[h].sel = None
        /\ at'[h] \in {"refused", "resolve", "persist", "opener"}
    BY <1>1, <1>3 DEF Onboard, LookAtPerson, ResolveAnswers, PersistAnswers, Step, StartPlaces
  <2> QED BY <2>1
<1>4. CASE Open(h)
  <2>1. /\ loc' = loc /\ h \in Start /\ told' = told /\ crossed' = crossed
        /\ \/ at[h] = "opener" /\ at'[h] = "initialize"
           \/ at[h] = "initialize" /\ at'[h] \in {"append", "write"}
           \/ at[h] = "write" /\ at'[h] = "append"
           \/ at[h] = "append" /\ at'[h] = "reply"
           \/ at[h] = "append" /\ at'[h] = "seed" /\ loc[h].sel # None
    BY <1>1, <1>2, <1>4 DEF Open, GenerateOpener, LookForHash, InitWorkingMemory, AppendOpener,
          Step, StartPlaces, history, wm
  <2> QED BY <1>1, <1>2, <2>1
<1>5. CASE Respond(h)
  <2>1. /\ loc' = loc /\ h \notin Start /\ told' = told /\ crossed' = crossed
        /\ at[h] = "respond"
        /\ at'[h] = "boundary" \/ (at'[h] = "ask" /\ loc[h].sel # None)
    BY <1>1, <1>2, <1>5 DEF Respond, Step, TurnPlaces, history
  <2> QED BY <1>1, <1>2, <2>1
<1>6. CASE Seed(h)
  <2>1. /\ loc' = loc /\ told' = told /\ at[h] = "seed" /\ crossed' = crossed
        /\ at'[h] = IF h \in Start THEN "ask" ELSE "boundary"
    BY <1>1, <1>2, <1>6 DEF Seed, Step, history
  <2> QED BY <1>1, <1>2, <2>1
<1>7. CASE Ask(h)
  <2>1. /\ loc' = loc
        /\ at'[h] = IF h \in Start THEN "reply" ELSE "seed"
    BY <1>1, <1>7 DEF Ask, Step
  <2> QED BY <1>1, <2>1
<1>8. CASE \/ BeginTurn(h) \/ Decide(h) \/ StampDecision(h) \/ ReadState(h)
           \/ WriteSignals(h) \/ Boundary(h)
  <2>1. h \notin Start
    BY <1>1, <1>8 DEF BeginTurn, Decide, StampDecision, ReadState, WriteSignals,
          Boundary, TurnPlaces
  <2>2. at'[h] \in {"refused", "state", "decide", "stamp", "signals", "failed", "select",
                    "boundary", "reply"}
    BY <1>1, <1>8 DEF BeginTurn, Decide, StampDecision, ReadState, WriteSignals,
          Boundary, Step
  <2> QED BY <2>1, <2>2
<1>9. CASE Reply(h) \/ Fails(h)
  <2>1. at'[h] \in {"done", "failed"}
    BY <1>1, <1>9 DEF Reply, Fails, Leave, Step
  <2> QED BY <2>1
<1> QED BY <1>3, <1>4, <1>5, <1>6, <1>7, <1>8, <1>9

LEMMA RepeatsKept ==
    ASSUME RaceInv, NEW h \in Handler,
           \/ BeginStart(h) \/ Onboard(h) \/ SelectStarter(h) \/ Open(h)
           \/ TurnStep(h) \/ Ask(h) \/ Seed(h) \/ Reply(h) \/ Fails(h)
    PROVE  RepeatsNeedARace'
<1>1. /\ RepeatsNeedARace /\ FreshAt(h)
      /\ Ask(h) \/ UNCHANGED <<repeats, crossed>>
  BY OthersUntouched DEF RaceInv
<1>2. CASE Ask(h)
  <2>1. /\ \/ repeats' = repeats
           \/ /\ repeats' = repeats \cup {<<h, loc[h].sel>>}
              /\ told[loc[h].sel] < Window /\ ~loc[h].picked
        /\ crossed \subseteq crossed'
        /\ at[h] = "ask"
    BY <1>2 DEF Ask
  <2>2. told[loc[h].sel] < Window /\ ~loc[h].picked => <<h, loc[h].sel>> \in crossed
    BY <1>1, <2>1, OpeningAssumption DEF FreshAt, Deciding, Asking
  <2> QED BY <1>1, <2>1, <2>2 DEF RepeatsNeedARace
<1> QED BY <1>1, <1>2 DEF RepeatsNeedARace

\* A wrap or a lease that runs out empties the register, and its memory.
LEMMA EmptiedRegister ==
    ASSUME RaceInv, UNCHANGED <<at, loc, crossed, repeats>>,
           \/ UNCHANGED <<asked, told>>
           \/ asked' = <<>> /\ told' = [q \in Question |-> Window]
    PROVE  RegisterKnows' /\ RepeatsNeedARace' /\ \A h \in Handler : FreshAt(h)'
<1>1. RegisterKnows /\ RepeatsNeedARace /\ \A h \in Handler : FreshAt(h)
  BY DEF RaceInv
<1>2. RepeatsNeedARace'
  BY <1>1 DEF RepeatsNeedARace
<1>3. RegisterKnows'
  BY <1>1, OpeningAssumption DEF RegisterKnows
<1>4. ASSUME NEW h \in Handler PROVE FreshAt(h)'
  <2>1. loc[h].sel \in Question \cup {None}
    BY DEF RaceInv, OInv, Memory, Local, Chosen
  <2> QED BY <1>1, <2>1 DEF FreshAt, Deciding, Asking
<1> QED BY <1>2, <1>3, <1>4

LEMMA RaceKept ==
    ASSUME RaceInv, [OpeningNext]_OpeningVars
    PROVE  RaceInv'
<1>1. OInv'
  BY HandlerKept, LeaveKept, WrapKept, TimeKept DEF OpeningNext, RaceInv
<1>2. ASSUME NEW h \in Handler,
             \/ BeginStart(h) \/ Onboard(h) \/ SelectStarter(h) \/ Open(h)
             \/ TurnStep(h) \/ Ask(h) \/ Seed(h) \/ Reply(h) \/ Fails(h)
      PROVE  RaceInv'
  <2>1. RegisterKnows' /\ RepeatsNeedARace'
    BY <1>2, RegisterKept, RepeatsKept
  <2>2. \A g \in Handler \ {h} : FreshAt(g)'
    BY <1>2, OthersStayFresh
  <2>3. FreshAt(h)'
    BY <1>2, ChoosesFresh, KeepsFresh DEF TurnStep
  <2> QED BY <1>1, <2>1, <2>2, <2>3 DEF RaceInv
<1>3. CASE /\ UNCHANGED <<at, loc, crossed, repeats>>
           /\ \/ UNCHANGED <<asked, told>>
              \/ asked' = <<>> /\ told' = [q \in Question |-> Window]
  BY <1>1, <1>3, EmptiedRegister DEF RaceInv
<1>4. ASSUME NEW r \in Req, Wraps(r)
      PROVE  /\ UNCHANGED <<at, loc, crossed, repeats>>
             /\ \/ UNCHANGED <<asked, told>>
                \/ asked' = <<>> /\ told' = [q \in Question |-> Window]
  BY <1>4 DEF Wraps, WrapStep, Wrap, Cleared, opening, wm, history
<1>5. ASSUME \/ LeaseRunsOut
             \/ (LockExpires \/ LockOverruns) /\ UNCHANGED opening
             \/ UNCHANGED OpeningVars
      PROVE  /\ UNCHANGED <<at, loc, crossed, repeats>>
             /\ \/ UNCHANGED <<asked, told>>
                \/ asked' = <<>> /\ told' = [q \in Question |-> Window]
  BY <1>5 DEF LeaseRunsOut, Cleared, OpeningVars, opening, wm, history
<1>6. CASE \E h \in Handler :
             \/ BeginStart(h) \/ Onboard(h) \/ SelectStarter(h) \/ Open(h)
             \/ TurnStep(h) \/ Ask(h) \/ Seed(h) \/ Reply(h) \/ Fails(h)
  BY <1>2, <1>6
<1>7. CASE \E r \in Req : Wraps(r)
  BY <1>3, <1>4, <1>7
<1>8. CASE \/ LeaseRunsOut
           \/ (LockExpires \/ LockOverruns) /\ UNCHANGED opening
           \/ UNCHANGED OpeningVars
  BY <1>3, <1>5, <1>8
<1> QED BY <1>6, <1>7, <1>8 DEF OpeningNext

\* However the bank runs dry and its fallbacks take back what was skipped, a
\* question that is among the last Window pushes of a register that has not
\* run out comes back only by a client's pick, or after another handler asked
\* it while this one had chosen it already.
THEOREM AskedAgainOnlyInARace == OpeningSpec => []RepeatsNeedARace
<1>1. OpeningInit => RaceInv
  <2> SUFFICES ASSUME OpeningInit PROVE RaceInv
    OBVIOUS
  <2>1. OInv
    BY InitOInv
  <2>2. \A h \in Handler : loc[h].sel = None /\ at[h] = "idle"
    BY DEF OpeningInit, NewLocal
  <2>3. RegisterKnows
    BY OpeningAssumption DEF OpeningInit, RegisterKnows
  <2>4. RepeatsNeedARace
    BY DEF OpeningInit, RepeatsNeedARace
  <2>5. \A h \in Handler : FreshAt(h)
    BY <2>2 DEF FreshAt, Asking, Deciding
  <2> QED BY <2>1, <2>3, <2>4, <2>5 DEF RaceInv
<1>2. RaceInv /\ [OpeningNext]_OpeningVars => RaceInv'
  BY RaceKept
<1>3. RaceInv => RepeatsNeedARace
  BY DEF RaceInv
<1> QED BY <1>1, <1>2, <1>3, PTL DEF OpeningSpec, OpeningVars
=============================================================================
