---------------------------- MODULE RenderJobs -----------------------------
(***************************************************************************)
(* The renders of one storybook or one tribute video.  A call composes a    *)
(* render context onto the row, which reads 'generating' from then on, and  *)
(* pushes a trigger; a render worker loads the context, draws, uploads and  *)
(* reports.  A context is superseded by the next one: composed_at, compared *)
(* when the trigger is loaded and at no later time, tells them apart.       *)
(***************************************************************************)
EXTENDS Naturals, FiniteSets

CONSTANTS Call, Worker, Nobody,
          MaxAttempts,      \* deliveries after which a failure is final
          MaxMishaps        \* bound: crashes, lost pushes, lapses, refusals, no text

ASSUME RenderAssumption ==
    /\ Nobody \notin Call /\ IsFiniteSet(Call)
    /\ MaxAttempts \in Nat \ {0} /\ MaxMishaps \in Nat

VARIABLES
    kind,       \* "storybook" or "tribute"
    status,     \* of the row; "none" before a storybook is created
    ctx,        \* its render context: by whom, with which text, redraw only?
    script,     \* storybook: the text last assembled and saved
    url,        \* tribute: Node has written the URL of a finished render
    aged,       \* the context is older than RENDER_INFLIGHT_GRACE
    at, op,     \* where each call is and what it asks for
    prior,      \* the status it would restore
    basis,      \* the context it has read
    triggers, hidden, received, \* triggers; the invisible ones; deliveries
    step, msg, attempt, \* where each worker is, its trigger, which delivery
    draws,      \* the context it draws
    art,        \* what the uploaded files show
    spent,      \* how often something has gone wrong
    lastText,   \* history: the last text asked for
    mishaps     \* history: what has gone wrong so far

row    == <<status, ctx, script, url, aged>>
calls  == <<at, op, prior, basis>>
jobs   == <<triggers, hidden, received>>
worker == <<step, msg, attempt, draws>>
renderVars == <<kind, row, calls, jobs, worker, art, spent, lastText, mishaps>>

Context   == [by    : Call \cup {Nobody},
              text  : Call \cup {Nobody},
              reuse : BOOLEAN]
NoContext == [by |-> Nobody, text |-> Nobody, reuse |-> FALSE]
Nothing   == [by |-> Nobody, text |-> Nobody]

RenderInit ==
    /\ kind \in {"storybook", "tribute"}
    /\ status = IF kind = "storybook" THEN "none" ELSE "draft"
    /\ ctx = NoContext
    /\ script = Nobody
    /\ url = FALSE /\ aged = FALSE
    /\ at = [c \in Call |-> "idle"]
    /\ op = [c \in Call |-> "create"]
    /\ prior = [c \in Call |-> "none"]
    /\ basis = [c \in Call |-> Nobody]
    /\ triggers = {} /\ hidden = {}
    /\ received = [c \in Call |-> 0]
    /\ step = [w \in Worker |-> "idle"]
    /\ msg = [w \in Worker |-> Nobody]
    /\ attempt = [w \in Worker |-> 0]
    /\ draws = [w \in Worker |-> NoContext]
    /\ art = Nothing
    /\ spent = 0
    /\ lastText = Nobody /\ mishaps = {}

-----------------------------------------------------------------------------
Moves(c, s) == at' = [at EXCEPT ![c] = s]
\* What the request held goes with it.
End(c)      == /\ Moves(c, "done")
               /\ op' = [op EXCEPT ![c] = "create"]
               /\ prior' = [prior EXCEPT ![c] = "none"]
               /\ basis' = [basis EXCEPT ![c] = Nobody]
Then(w, s)  == step' = [step EXCEPT ![w] = s]
GoesWrong(what) ==
    /\ spent < MaxMishaps
    /\ spent' = spent + 1
    /\ mishaps' = mishaps \cup what

(* The calls: create, generate, regenerate, edit.                          *)

\* A first tribute video is made once: not over a finished render, nor over
\* one in flight for less than the grace.
MayGenerate == /\ status # "complete" /\ ~url
               /\ status = "generating" => aged

Admits(o) ==
    CASE o = "create" -> IF kind = "storybook" THEN TRUE ELSE MayGenerate
      [] OTHER        -> IF kind = "storybook" THEN status # "none"
                                               ELSE ctx # NoContext

\* The request reads the row and the moments to draw.
Enter(c, o) ==
    /\ Admits(o)
    /\ Moves(c, "read")
    /\ op' = [op EXCEPT ![c] = o]
    /\ prior' = [prior EXCEPT ![c] = status]
    /\ basis' = [basis EXCEPT ![c] = ctx.text]

\* Too few stories, a tribute that is not ready, a missing row or a duplicate
\* end the call without a write.
Read(c) ==
    /\ at[c] = "idle"
    /\ End(c) \/ \E o \in {"create", "regenerate", "edit"} : Enter(c, o)
    /\ UNCHANGED <<kind, row, jobs, worker, art, spent, lastText, mishaps>>

\* A render is under way, or was when the call read the row, or another call is.
Overtakes(c) == \/ "generating" \in {status, prior[c]}
                \/ \E w \in Worker : step[w] # "idle"
                \/ \E d \in Call \ {c} : at[d] \in {"read", "written", "unsent"}

\* Mutant: an edit keeps the stored script.
ComposedReusing(c) == [by |-> c, text |-> c, reuse |-> TRUE]

\* A tribute's regenerate keeps the inputs stored in the context it has read.
Recompose(c) == IF op[c] = "regenerate" THEN basis[c] ELSE c

\* The text a render of it shows: the storybook worker assembles anew unless
\* asked to reuse the script.
Composed(c) ==
    [by    |-> c,
     text  |-> IF kind = "tribute" THEN Recompose(c) ELSE c,
     reuse |-> kind = "storybook" /\ op[c] = "regenerate"]

\* The id of the new storybook is taken: a conflict.
Conflict(c) ==
    /\ at[c] = "read" /\ kind = "storybook"
    /\ op[c] = "create" /\ status # "none"
    /\ End(c)
    /\ UNCHANGED <<kind, row, jobs, worker, art, spent, lastText, mishaps>>

\* The row waits for the render of this call's context.
Rewritten(c) ==
    /\ ctx' = Composed(c)
    /\ status' = "generating"
    /\ aged' = FALSE

\* The context and status 'generating', in one transaction; a tribute's
\* re-render reads there the status to restore.
Compose(c) ==
    /\ at[c] = "read"
    /\ (kind = "storybook" /\ op[c] = "create") => status = "none"
    /\ Rewritten(c)
    /\ prior' = [prior EXCEPT ![c] = IF op[c] = "create" THEN @ ELSE status]
    /\ lastText' = IF op[c] = "regenerate" THEN lastText ELSE c
    /\ mishaps' = IF Overtakes(c) THEN mishaps \cup {"overtaken"} ELSE mishaps
    /\ Moves(c, "written")
    /\ UNCHANGED <<kind, script, url, op, basis, jobs, worker, art, spent>>

Push(c) ==
    /\ at[c] = "written"
    /\ triggers' = triggers \cup {c}
    /\ End(c)
    /\ UNCHANGED <<kind, row, hidden, received, worker, art, spent, lastText,
                   mishaps>>

\* The push fails, or only its answer is lost.
TriggerFails(c) ==
    /\ at[c] = "written"
    /\ GoesWrong({"push"})
    /\ triggers' \in {triggers, triggers \cup {c}}
    /\ Moves(c, "unsent")
    /\ UNCHANGED <<kind, row, op, prior, basis, hidden, received, worker, art,
                   lastText>>

\* Mutant: a failed push leaves the row as it is.
LeaveStatus(c) ==
    /\ at[c] = "unsent"
    /\ End(c)
    /\ UNCHANGED <<kind, row, jobs, worker, art, spent, lastText, mishaps>>

\* A storybook is marked failed, a tribute gets back the status read before,
\* whatever has happened since.
RestoreStatus(c) ==
    /\ at[c] = "unsent"
    /\ status' = IF kind = "storybook" THEN "failed" ELSE prior[c]
    /\ End(c)
    /\ UNCHANGED <<kind, ctx, script, url, aged, jobs, worker, art, spent,
                   lastText, mishaps>>

\* The process dies before the push or the repair, or the repair fails too.
CallDies(c) ==
    /\ at[c] \in {"written", "unsent"}
    /\ GoesWrong({"crash"})
    /\ End(c)
    /\ UNCHANGED <<kind, row, jobs, worker, art, lastText>>

-----------------------------------------------------------------------------
(* The render worker.                                                      *)

Capped(n) == IF n < MaxAttempts THEN n + 1 ELSE n

Receive(w, c) ==
    /\ step[w] = "idle"
    /\ c \in triggers \ hidden
    /\ Then(w, "load")
    /\ msg' = [msg EXCEPT ![w] = c]
    /\ hidden' = hidden \cup {c}
    /\ received' = [received EXCEPT ![c] = Capped(@)]
    /\ attempt' = [attempt EXCEPT ![w] = Capped(received[c])]
    /\ UNCHANGED <<kind, row, calls, triggers, draws, art, spent, lastText,
                   mishaps>>

\* A trigger of another composition is skipped, and acknowledged.
Load(w) ==
    /\ step[w] = "load"
    /\ IF ctx.by = msg[w]
       THEN /\ Then(w, "assemble")
            /\ draws' = [draws EXCEPT ![w] = ctx]
       ELSE Then(w, "ack") /\ UNCHANGED draws
    /\ UNCHANGED <<kind, row, calls, jobs, msg, attempt, art, spent, lastText,
                   mishaps>>

\* Only a storybook's regenerate redraws the stored script, if there is one;
\* else the text is written from the context, and a storybook's is saved on the
\* row.
Assemble(w) ==
    /\ step[w] = "assemble"
    /\ IF draws[w].reuse /\ script # Nobody
       THEN draws' = [draws EXCEPT ![w].text = script] /\ UNCHANGED script
       ELSE /\ script' = IF kind = "storybook" THEN draws[w].text ELSE script
            /\ UNCHANGED draws
    /\ Then(w, "draw")
    /\ UNCHANGED <<kind, status, ctx, url, aged, calls, jobs, msg, attempt,
                   art, spent, lastText, mishaps>>

\* The LLM gives no usable book: a tribute's is made from the titles of its
\* moments, without what the family has asked for, and is rendered all the same.
AssemblePlain(w) ==
    /\ step[w] = "assemble" /\ kind = "tribute"
    /\ draws' = [draws EXCEPT ![w].text = Nobody]
    /\ GoesWrong({"unwritten"})
    /\ Then(w, "draw")
    /\ UNCHANGED <<kind, row, calls, jobs, msg, attempt, art, lastText>>

\* Files go under keys of the row's id: the last upload is what is there.
Upload(w) ==
    /\ step[w] = "draw"
    /\ art' = [by |-> draws[w].by, text |-> draws[w].text]
    /\ Then(w, "complete")
    /\ UNCHANGED <<kind, row, calls, jobs, msg, attempt, draws, spent,
                   lastText, mishaps>>

\* A presigned URL is refused (it has expired): reported, and complete.
UploadRefused(w) ==
    /\ step[w] = "draw"
    /\ GoesWrong({"upload"})
    /\ Then(w, "complete")
    /\ UNCHANGED <<kind, row, calls, jobs, msg, attempt, draws, art, lastText>>

\* What was drawn goes with the attempt.
Drawn(w) == draws' = [draws EXCEPT ![w] = NoContext]

\* Whatever the row says by now; Node, if it listens, writes a tribute's URL.
MarkComplete(w) ==
    /\ step[w] = "complete"
    /\ status' = "complete"
    /\ url' \in {url, kind = "tribute"}
    /\ Then(w, "ack")
    /\ Drawn(w)
    /\ UNCHANGED <<kind, ctx, script, aged, calls, jobs, msg, attempt, art,
                   spent, lastText, mishaps>>

Rest(w) == /\ Then(w, "idle")
           /\ msg' = [msg EXCEPT ![w] = Nobody]
           /\ attempt' = [attempt EXCEPT ![w] = 0]
           /\ Drawn(w)

Raises(w) ==
    /\ Then(w, "failing")
    /\ Drawn(w)
    /\ UNCHANGED <<kind, row, calls, jobs, msg, attempt, art, lastText>>

\* The LLM gives no script, for which a storybook has no substitute.
AssembleFails(w) == /\ step[w] = "assemble" /\ kind = "storybook"
                    /\ Raises(w) /\ GoesWrong({"unwritten"})
\* One scene that cannot be drawn fails a film; a storybook leaves the panel
\* blank, and fails on its files and templates.
DrawFails(w)     == step[w] = "draw" /\ Raises(w) /\ UNCHANGED <<spent, mishaps>>
ReportFails(w)   == step[w] = "complete" /\ Raises(w) /\ UNCHANGED <<spent, mishaps>>
RenderFails(w)   == AssembleFails(w) \/ DrawFails(w) \/ ReportFails(w)

\* Not acknowledged: delivered again.
Retry(w) ==
    /\ step[w] = "failing"
    /\ attempt[w] < MaxAttempts
    /\ hidden' = hidden \ {msg[w]}
    /\ Rest(w)
    /\ UNCHANGED <<kind, row, calls, triggers, received, art, spent, lastText,
                   mishaps>>

\* Mutant: the last failure is acknowledged and the row left alone.
GiveUp(w) ==
    /\ step[w] = "failing"
    /\ attempt[w] >= MaxAttempts
    /\ Then(w, "ack")
    /\ UNCHANGED <<kind, row, calls, jobs, msg, attempt, draws, art, spent,
                   lastText, mishaps>>

MarkFailed(w) ==
    /\ step[w] = "failing"
    /\ attempt[w] >= MaxAttempts
    /\ status' = IF status = "generating" THEN "failed" ELSE status
    /\ Then(w, "ack")
    /\ UNCHANGED <<kind, ctx, script, url, aged, calls, jobs, msg, attempt,
                   draws, art, spent, lastText, mishaps>>

Ack(w) ==
    /\ step[w] = "ack"
    /\ triggers' = triggers \ {msg[w]}
    /\ hidden' = hidden \ {msg[w]}
    /\ received' = [received EXCEPT ![msg[w]] = 0]
    /\ Rest(w)
    /\ UNCHANGED <<kind, row, calls, art, spent, lastText, mishaps>>

\* The worker dies, or cannot acknowledge; its trigger is delivered again.
WorkerDies(w) ==
    /\ step[w] # "idle"
    /\ GoesWrong({})
    /\ hidden' = hidden \ {msg[w]}
    /\ Rest(w)
    /\ UNCHANGED <<kind, row, calls, triggers, received, art, lastText>>

\* A render outlives the visibility timeout, which nothing extends.
VisibilityLapses(w) ==
    /\ step[w] # "idle" /\ msg[w] \in hidden
    /\ GoesWrong({})
    /\ hidden' = hidden \ {msg[w]}
    /\ UNCHANGED <<kind, row, calls, triggers, received, worker, art,
                   lastText>>

GraceElapses ==
    /\ status = "generating" /\ kind = "tribute" /\ ~aged
    /\ GoesWrong({})
    /\ aged' = TRUE
    /\ UNCHANGED <<kind, status, ctx, script, url, calls, jobs, worker, art,
                   lastText>>

-----------------------------------------------------------------------------
CallStep(c) ==
    Read(c) \/ Conflict(c) \/ Compose(c) \/ Push(c) \/ RestoreStatus(c)
Progress(w) == \/ Load(w) \/ Assemble(w) \/ Upload(w) \/ MarkComplete(w)
               \/ Retry(w) \/ MarkFailed(w) \/ Ack(w)
WorkerStep(w) == (\E c \in Call : Receive(w, c)) \/ Progress(w)
Mishap == \/ \E c \in Call : TriggerFails(c) \/ CallDies(c)
          \/ \E w \in Worker : \/ AssemblePlain(w) \/ RenderFails(w)
                               \/ UploadRefused(w)
                               \/ WorkerDies(w) \/ VisibilityLapses(w)
          \/ GraceElapses

RenderNext ==
    \/ \E c \in Call : CallStep(c)
    \/ \E w \in Worker : WorkerStep(w)
    \/ Mishap

\* A call that has written goes on to push; workers poll and carry on.  No
\* call has to be made.
Fairness == /\ \A c \in Call : WF_renderVars(Push(c))
            /\ \A w \in Worker : WF_renderVars(WorkerStep(w))

RenderSpec == RenderInit /\ [][RenderNext]_renderVars /\ Fairness

-----------------------------------------------------------------------------
(* Properties.                                                             *)

Statuses == {"none", "draft", "generating", "complete", "failed"}

\* Every variable stays in the shape the code gives it.
RenderTypeOK ==
    /\ kind \in {"storybook", "tribute"} /\ status \in Statuses
    /\ ctx \in Context
    /\ script \in Call \cup {Nobody}
    /\ url \in BOOLEAN /\ aged \in BOOLEAN
    /\ at \in [Call -> {"idle", "read", "written", "unsent", "done"}]
    /\ op \in [Call -> {"create", "regenerate", "edit"}]
    /\ prior \in [Call -> Statuses] /\ basis \in [Call -> Call \cup {Nobody}]
    /\ triggers \subseteq Call /\ hidden \subseteq triggers
    /\ received \in [Call -> 0..MaxAttempts]
    /\ step \in [Worker -> {"idle", "load", "assemble", "draw", "complete",
                            "failing", "ack"}]
    /\ attempt \in [Worker -> 0..MaxAttempts]
    /\ msg \in [Worker -> Call \cup {Nobody}] /\ draws \in [Worker -> Context]
    /\ art \in [by : Call \cup {Nobody}, text : Call \cup {Nobody}]
    /\ spent \in Nat /\ lastText \in Call \cup {Nobody}
    /\ mishaps \subseteq {"overtaken", "push", "upload", "unwritten", "crash"}

\* A row that reads 'generating' has a trigger to come or to be read, except
\* after a crash between the write and the push, or a failed push that put
\* back 'generating' over a render it had superseded.
StrandedNeedsAMishap ==
    status = "generating" =>
        \/ ctx.by \in triggers \/ at[ctx.by] \in {"written", "unsent"}
        \/ "crash" \in mishaps \/ {"push", "overtaken"} \subseteq mishaps

\* Only when the LLM wrote no text: a storybook then keeps an older script for
\* the next redraw, a tribute shows the plain book, which is nobody's.
Excused(text) == /\ "unwritten" \in mishaps
                 /\ kind = "tribute" => text = Nobody

\* A finished row shows its newest composition with the last text asked for,
\* unless calls overtook a render or each other, a push failed or an upload
\* was refused; and the text, unless the LLM wrote none.  Dead workers, lapsed
\* visibility and repeated deliveries alone never make it show an older one.
OutdatedNeedsOvertaking ==
    status = "complete" =>
        \/ art.by = ctx.by /\ (art.text = lastText \/ Excused(art.text))
        \/ {"overtaken", "push", "upload"} \cap mishaps # {}

\* Every render ends, finished or failed, however often its worker dies and
\* its trigger is repeated, unless the trigger was never sent.
RendersEnd ==
    status = "generating" ~> \/ status # "generating"
                             \/ {"push", "crash"} \cap mishaps # {}
=============================================================================
