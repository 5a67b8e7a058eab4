-------------------------- MODULE HttpIdempotency --------------------------
(***************************************************************************)
(* run_idempotent: requests that carry the same Idempotency-Key, the        *)
(* response cached in Valkey under it and the lock that marks the key as in *)
(* flight.  The operation behind the key (a turn, a wrap, the approval of a *)
(* merge, the creation of a person or a node edit) is one step that may     *)
(* take effect; it is not made atomic with anything else.                   *)
(*                                                                         *)
(* Each Valkey command is an action.  The 24 hours of the cached response   *)
(* are longer than any behaviour modelled here.                             *)
(***************************************************************************)
EXTENDS Naturals, Sequences, FiniteSets

CONSTANTS Req,      \* the requests with the key, retries included
          None,     \* no request: an empty cache, no answer, no holder
          MaxFaults \* bound: failed calls, crashes, locks that expire too soon

ASSUME ConstantsAssumption ==
    /\ IsFiniteSet(Req)
    /\ None \notin Req
    /\ MaxFaults \in Nat

VARIABLES
    cache,    \* the request whose response is cached
    lock,     \* the lock key exists
    holder,   \* history: who set the lock last
    effects,  \* history: the operations that took effect, in order
    pc,       \* where each request is
    answer,   \* the request whose response each request was given
    late,     \* history: requests that came after a response was cached
    overruns, \* history: locks that expired under a working holder
    faults    \* faults so far

redis == <<cache, lock, holder>>
vars  == <<cache, lock, holder, effects, pc, answer, late, overruns, faults>>

-----------------------------------------------------------------------------
Working == {r \in Req : pc[r] \in {"operate", "store", "release"}}

Goto(r, step) == pc' = [pc EXCEPT ![r] = step]
Fault == faults < MaxFaults /\ faults' = faults + 1

Init ==
    /\ cache = None
    /\ lock = FALSE
    /\ holder = None
    /\ effects = <<>>
    /\ pc = [r \in Req |-> "idle"]
    /\ answer = [r \in Req |-> None]
    /\ late = {}
    /\ overruns = 0
    /\ faults = 0

Arrive(r) ==
    /\ pc[r] = "idle"
    /\ late' = IF cache = None THEN late ELSE late \cup {r}
    /\ Goto(r, "read")
    /\ UNCHANGED <<redis, effects, answer, overruns, faults>>

\* Mutant: the cached response is not looked for.
ReadNothing(r) ==
    /\ pc[r] = "read"
    /\ Goto(r, "acquire")
    /\ UNCHANGED <<redis, effects, answer, late, overruns, faults>>

ReadCache(r) ==
    /\ pc[r] = "read"
    /\ IF cache = None
       THEN Goto(r, "acquire") /\ UNCHANGED answer
       ELSE Goto(r, "answered") /\ answer' = [answer EXCEPT ![r] = cache]
    /\ UNCHANGED <<redis, effects, late, overruns, faults>>

\* Mutant: SET without NX.
AcquireAnyway(r) ==
    /\ pc[r] = "acquire"
    /\ lock' = TRUE
    /\ holder' = r
    /\ Goto(r, "operate")
    /\ UNCHANGED <<cache, effects, answer, late, overruns, faults>>

\* SET NX EX: 409 when the key is in flight.
Acquire(r) ==
    /\ pc[r] = "acquire"
    /\ IF lock
       THEN Goto(r, "conflict") /\ UNCHANGED <<lock, holder>>
       ELSE /\ lock' = TRUE
            /\ holder' = r
            /\ Goto(r, "operate")
    /\ UNCHANGED <<cache, effects, answer, late, overruns, faults>>

Operate(r) ==
    /\ pc[r] = "operate"
    /\ effects' = Append(effects, r)
    /\ Goto(r, "store")
    /\ UNCHANGED <<redis, answer, late, overruns, faults>>

\* The operation refuses or fails, before or after it took effect.
OperateFails(r) ==
    /\ pc[r] = "operate"
    /\ effects' \in {effects, Append(effects, r)}
    /\ Goto(r, "release")
    /\ UNCHANGED <<redis, answer, late, overruns, faults>>

Store(r) ==
    /\ pc[r] = "store"
    /\ cache' = r
    /\ answer' = [answer EXCEPT ![r] = r]
    /\ Goto(r, "release")
    /\ UNCHANGED <<lock, holder, effects, late, overruns, faults>>

\* The SET raises, or it was done and its answer was lost.
StoreFails(r) ==
    /\ pc[r] = "store"
    /\ Fault
    /\ cache' \in {cache, r}
    /\ Goto(r, "release")
    /\ UNCHANGED <<lock, holder, effects, answer, late, overruns>>

\* The finally block deletes the lock, whoever holds it by now.
Release(r) ==
    /\ pc[r] = "release"
    /\ lock' = FALSE
    /\ Goto(r, IF answer[r] = None THEN "failed" ELSE "answered")
    /\ UNCHANGED <<cache, holder, effects, answer, late, overruns, faults>>

\* The process dies, or cannot reach Valkey to delete the lock.
Crash(r) ==
    /\ pc[r] \in {"read", "acquire", "operate", "store", "release"}
    /\ Fault
    /\ Goto(r, "crashed")
    /\ UNCHANGED <<redis, effects, answer, late, overruns>>

\* The lock outlives a holder that died by its TTL at most.
LockExpires ==
    /\ lock
    /\ holder \notin Working
    /\ lock' = FALSE
    /\ UNCHANGED <<cache, holder, effects, pc, answer, late, overruns, faults>>

\* An operation takes longer than the TTL: nothing extends the lock.
LockOverruns ==
    /\ lock
    /\ holder \in Working
    /\ Fault
    /\ lock' = FALSE
    /\ overruns' = overruns + 1
    /\ UNCHANGED <<cache, holder, effects, pc, answer, late>>

Handle(r) ==
    \/ ReadCache(r) \/ Acquire(r) \/ Operate(r) \/ OperateFails(r)
    \/ Store(r) \/ StoreFails(r) \/ Release(r)

Next ==
    \/ \E r \in Req : Arrive(r) \/ Handle(r) \/ Crash(r)
    \/ LockExpires \/ LockOverruns

Spec == Init /\ [][Next]_vars

-----------------------------------------------------------------------------
(* Properties.                                                             *)

\* Every variable stays in the shape the code gives it.
TypeOK ==
    /\ cache \in Req \cup {None}
    /\ lock \in BOOLEAN
    /\ holder \in Req \cup {None}
    /\ effects \in Seq(Req)
    /\ pc \in [Req -> {"idle", "read", "acquire", "operate", "store",
                       "release", "answered", "failed", "conflict",
                       "crashed"}]
    /\ answer \in [Req -> Req \cup {None}]
    /\ late \subseteq Req
    /\ overruns \in Nat
    /\ faults \in Nat

\* Each lock that expires under its holder lets one more request work at the
\* same time, and no more than one: although the late holder then deletes a
\* lock that is not its own, which lets in another, it leaves itself.  Without
\* an overrun requests with the same key never overlap.
OverlapNeedsOverruns == Cardinality(Working) <= 1 + overruns

\* A request that comes after a response was cached never runs the operation,
\* and what it is given is the response of an operation that took effect.
LateIsReplayed ==
    \A r \in late : /\ r \notin Working
                    /\ \A i \in DOMAIN effects : effects[i] # r
                    /\ pc[r] = "answered" =>
                          \E i \in DOMAIN effects : effects[i] = answer[r]
=============================================================================
