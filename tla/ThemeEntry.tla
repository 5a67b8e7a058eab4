----------------------------- MODULE ThemeEntry -----------------------------
(***************************************************************************)
(* The way into a tribute: the theme of one person with its answers to the   *)
(* opening questions, saved as a draft while it is locked, committed when a  *)
(* session starts, or unlocked by an extraction that finds the theme rich;   *)
(* and the tribute rows, one for the keepsake and one for each occasion,     *)
(* which a session start looks up or creates and adds its answers to.        *)
(* A session start is one READ COMMITTED transaction: what it writes is seen *)
(* by others when it commits, and the theme row is locked from its UPDATE on.*)
(***************************************************************************)
EXTENDS Naturals, FiniteSets, FiniteSetsExt

CONSTANTS Request,          \* calls and extractions, each made once
          Occasion,         \* slugs of campaigns
          Question, None,
          MaxRow,           \* bound: rows of tributes
          MaxVersion,       \* bound: edits of a campaign
          MaxGiven          \* bound: questions one call answers

ASSUME ConstantsAssumption ==
    /\ MaxRow \in Nat /\ MaxVersion \in Nat /\ MaxGiven \in Nat
    /\ None \notin Request \cup Occasion \cup Question

Row     == 1 .. MaxRow      \* in the order of their creation
Answers == [Question -> Request \cup {None}]   \* who gave the answer that stands
Blank   == [q \in Question |-> None]           \* NULL and the empty list
Merged(old, new) == [q \in Question |-> IF new[q] # None THEN new[q] ELSE old[q]]

VARIABLES
    theme,      \* state, archetype_answers_draft, archetype_answers
    lock,       \* the transaction that has updated the theme row
    row,        \* tributes
    version,    \* of each campaign: a new id under the old slug
    op, at,     \* each request: what it is and where
    occasion,   \* the campaign it names
    given,      \* the answers it brings or promotes
    seen,       \* was the theme locked when it looked?
    open,       \* the tribute row it found or created
    basis,      \* the answers it read there
    newest,     \* history: the last request whose answers were accepted
    stale,      \* history: requests whose view of the theme was overtaken
    raced,      \* history: such a request wrote
    unserialised,   \* history: entries looked up rows side by side, one bare
    last        \* history: each row's answers, one by one as they were committed

request == <<op, at, occasion, given, seen, open, basis>>
history == <<newest, stale, raced, unserialised, last>>
vars    == <<theme, lock, row, version, request, history>>

Unused     == [status |-> "none", campaign |-> None, version |-> 0,
               tx |-> None, answers |-> Blank]
Draft(c, v, tx) == [status |-> "draft", campaign |-> c, version |-> v,
                    tx |-> tx, answers |-> Blank]

\* Creating a person seeds the keepsake's row; old legacies may lack it.
Init ==
    /\ theme = [state |-> "locked", draft |-> Blank, answers |-> Blank]
    /\ lock = None
    /\ \E first \in {Unused, Draft(None, 0, None)} :
            row = [i \in Row |-> IF i = 1 THEN first ELSE Unused]
    /\ version = [c \in Occasion |-> 0]
    /\ op = [r \in Request |-> None]
    /\ at = [r \in Request |-> "idle"]
    /\ occasion = [r \in Request |-> None]
    /\ given = [r \in Request |-> Blank]
    /\ seen = [r \in Request |-> "locked"]
    /\ open = [r \in Request |-> 0]
    /\ basis = [r \in Request |-> Blank]
    /\ newest = None /\ stale = {} /\ raced = FALSE /\ unserialised = FALSE
    /\ last = [i \in Row |-> Blank]

Goto(r, s)  == at' = [at EXCEPT ![r] = s]
\* A request that has ended leaves nothing behind.
End(r) == /\ Goto(r, "done")
          /\ op' = [op EXCEPT ![r] = None]
          /\ occasion' = [occasion EXCEPT ![r] = None]
          /\ given' = [given EXCEPT ![r] = Blank]
          /\ seen' = [seen EXCEPT ![r] = "locked"]
          /\ open' = [open EXCEPT ![r] = 0]
          /\ basis' = [basis EXCEPT ![r] = Blank]
By(r, those) == [q \in Question |-> IF q \in those THEN r ELSE None]
Inside(r)   == at[r] \in {"standalone", "open", "merge", "commit"}
Visible(r)  == {i \in Row : row[i].status # "none" /\ row[i].tx \in {None, r}}
Spare       == {i \in Row : row[i].status = "none"}

(***************************************************************************)
(* Calls that only touch the theme                                           *)
(***************************************************************************)
Start(r, kind) ==
    /\ at[r] = "idle"
    /\ op' = [op EXCEPT ![r] = kind]
    /\ seen' = [seen EXCEPT ![r] = theme.state]

\* POST /themes/{id}/archetype_progress looks at the state ...
BeginSave(r) ==
    /\ Start(r, "save")
    /\ \E those \in SUBSET Question :
            /\ those # {} /\ Cardinality(those) <= MaxGiven
            /\ given' = [given EXCEPT ![r] = By(r, those)]
    /\ theme.state = "locked"       \* else 409
    /\ Goto(r, "write")
    /\ UNCHANGED <<theme, lock, row, version, occasion, open, basis, history>>

\* Who looked at the theme before this write and has not written yet.
Overtakes(r) == stale' = (stale \ {r}) \cup {s \in Request \ {r} : at[s] \in {"unlock", "write"}}

\* ... and the UPDATE asks for it again.
Save(r) ==
    /\ at[r] = "write" /\ op[r] = "save" /\ lock = None
    /\ End(r)
    /\ IF theme.state = "locked"
       THEN /\ theme' = [theme EXCEPT !.draft = given[r]]
            /\ newest' = r
            /\ Overtakes(r)
       ELSE UNCHANGED <<theme, newest, stale>>
    /\ UNCHANGED <<lock, row, version, raced, unserialised, last>>

\* An extraction selects the locked themes that are rich ...
FindRich(r) ==
    /\ Start(r, "unlock")
    /\ theme.state = "locked"
    /\ Goto(r, "write")
    /\ UNCHANGED <<theme, lock, row, version, occasion, given, open, basis, history>>

\* Mutant: the draft is dropped.
PromotedLater == [theme EXCEPT !.state = "unlocked", !.answers = Blank, !.draft = Blank]

\* The draft becomes the answers, whatever these were.
Promoted == [theme EXCEPT !.state = "unlocked", !.answers = theme.draft, !.draft = Blank]

\* ... and updates them.  A transaction that waited for the row joins the row
\* as it is now with its list of rich themes as it was.
AutoUnlock(r) ==
    /\ at[r] = "write" /\ op[r] = "unlock" /\ lock = None
    /\ theme' = Promoted
    /\ raced' = (raced \/ r \in stale)
    /\ Overtakes(r)
    /\ End(r)
    /\ UNCHANGED <<lock, row, version, newest, unserialised, last>>

(***************************************************************************)
(* A session start with a theme: apply_theme_unlock                          *)
(***************************************************************************)
\* The theme is read without a lock; a call without answers takes the draft.
BeginEntry(r) ==
    /\ Start(r, "entry")
    /\ \E c \in Occasion \cup {None} : occasion' = [occasion EXCEPT ![r] = c]
    /\ \E those \in SUBSET Question :
            /\ Cardinality(those) <= MaxGiven
            /\ given' = [given EXCEPT ![r] = IF those = {} THEN theme.draft
                                             ELSE By(r, those)]
    /\ Goto(r, "unlock")
    /\ UNCHANGED <<theme, lock, row, version, open, basis, history>>

\* Mutant: answers are added to the tribute without touching the theme again.
Unlocked(r) == seen[r] = "unlocked"

\* An entry without answers into an unlocked theme updates nothing.
Bare(r)     == seen[r] = "unlocked" /\ given[r] = Blank
Lockless(r) == Bare(r)

\* It meets another session start, and one of the two is bare.
Crosses(r) == LET others == {s \in Request \ {r} : Inside(s)}
              IN  others # {} /\ \E s \in others \cup {r} : Bare(s)

\* unlock_theme_async: from here to the commit the theme row is locked.
Unlock(r) ==
    /\ at[r] = "unlock"
    /\ IF Lockless(r) THEN UNCHANGED lock ELSE lock = None /\ lock' = r
    /\ Goto(r, "standalone")
    /\ unserialised' = (unserialised \/ Crosses(r))
    /\ UNCHANGED <<theme, row, version, op, occasion, given, seen, open, basis,
                   newest, stale, raced, last>>

\* ensure_standalone_tribute_async, then the relationship group, which may
\* wait for an LLM.
EnsureStandalone(r) ==
    /\ at[r] = "standalone"
    /\ IF \E i \in Visible(r) : row[i].campaign = None
       THEN UNCHANGED row
       ELSE /\ Spare # {}
            /\ row' = [row EXCEPT ![Min(Spare)] = Draft(None, 0, r)]
    /\ Goto(r, "open")
    /\ UNCHANGED <<theme, lock, version, op, occasion, given, seen, open, basis, history>>

\* Mutant: only the version on sale today is looked for.
OfThisVersion(i, c) == /\ row[i].campaign = c
                       /\ c # None => row[i].version = version[c]

\* A campaign's rows are found by slug, under whichever version they began.
OfOccasion(i, c) == row[i].campaign = c

OpenAmong(rows) == {i \in rows : row[i].status \in {"draft", "ready", "generating"}}

\* The latest of the open rows of a campaign; without one the latest of all
\* open rows, those of campaigns first.
Preferred(rows) == LET those == {i \in rows : row[i].campaign # None}
                   IN  Max(IF those = {} THEN rows ELSE those)
OpenRow(rows, c) ==
    LET fits == {i \in OpenAmong(rows) : c # None => OfOccasion(i, c)}
    IN  IF fits = {} THEN 0 ELSE Preferred(fits)

\* ensure_open_tribute_async: looks up and inserts without a lock of its own.
EnsureOpen(r) ==
    /\ at[r] = "open"
    /\ LET c     == occasion[r]
           found == OpenRow(Visible(r), c)
       IN  IF found # 0
           THEN open' = [open EXCEPT ![r] = found] /\ UNCHANGED row
           ELSE /\ Spare # {}
                /\ open' = [open EXCEPT ![r] = Min(Spare)]
                /\ row' = [row EXCEPT ![Min(Spare)] =
                        Draft(c, IF c = None THEN 0 ELSE version[c], r)]
    /\ Goto(r, IF given[r] = Blank THEN "commit" ELSE "merge")
    /\ UNCHANGED <<theme, lock, version, op, occasion, given, seen, basis, history>>

\* merge_tribute_archetype_answers_async reads the row's answers ...
ReadAnswers(r) ==
    /\ at[r] = "merge"
    /\ basis' = [basis EXCEPT ![r] = row[open[r]].answers]
    /\ Goto(r, "commit")
    /\ UNCHANGED <<theme, lock, row, version, op, occasion, given, seen, open, history>>

\* ... and writes them back with the new ones; the transaction commits.
Commit(r) ==
    /\ at[r] = "commit"
    /\ End(r)
    /\ row' = [i \in Row |->
                [row[i] EXCEPT !.tx = IF @ = r THEN None ELSE @,
                               !.answers = IF i = open[r] /\ given[r] # Blank
                                           THEN Merged(basis[r], given[r]) ELSE @]]
    /\ last' = [last EXCEPT ![open[r]] = Merged(@, given[r])]
    /\ IF lock = r
       THEN /\ lock' = None
            /\ theme' = [theme EXCEPT !.state = "unlocked", !.draft = Blank,
                                      !.answers = given[r]]
            /\ newest' = IF \E q \in Question : given[r][q] = r THEN r ELSE newest
            /\ raced' = (raced \/ r \in stale)
            /\ Overtakes(r)
       ELSE UNCHANGED <<lock, theme, newest, raced, stale>>
    /\ UNCHANGED <<version, unserialised>>

\* The transaction fails or its process dies: nothing it wrote remains.
RollBack(r) ==
    /\ op[r] = "entry" /\ at[r] \notin {"idle", "done"}
    /\ End(r)
    /\ lock' = IF lock = r THEN None ELSE lock
    /\ row' = [i \in Row |-> IF row[i].tx = r THEN Unused ELSE row[i]]
    /\ UNCHANGED <<theme, version, history>>

(***************************************************************************)
(* What happens to rows and campaigns meanwhile                              *)
(***************************************************************************)
\* A render begins, again after a failure or to replace a film, and ends.
Render(i, from, to) ==
    /\ row[i].tx = None /\ row[i].status \in from
    /\ row' = [row EXCEPT ![i].status = to]
    /\ UNCHANGED <<theme, lock, version, request, history>>

\* supersede_edit: the campaign gets a new version, and id.
EditCampaign(c) ==
    /\ version[c] < MaxVersion
    /\ version' = [version EXCEPT ![c] = @ + 1]
    /\ UNCHANGED <<theme, lock, row, request, history>>

Entry(r) == BeginEntry(r) \/ Unlock(r) \/ EnsureStandalone(r) \/ EnsureOpen(r)
                \/ ReadAnswers(r) \/ Commit(r) \/ RollBack(r)
Next ==
    \/ \E r \in Request : BeginSave(r) \/ Save(r) \/ FindRich(r) \/ AutoUnlock(r)
                            \/ Entry(r)
    \/ \E i \in Row : \/ Render(i, {"draft", "complete", "failed"}, "generating")
                      \/ Render(i, {"generating"}, "complete")
                      \/ Render(i, {"generating"}, "failed")
    \/ \E c \in Occasion : EditCampaign(c)

Spec == Init /\ [][Next]_vars

Stored == {i \in Row : row[i].status # "none" /\ row[i].tx = None}

\* The newest tribute of the occasion, finished or not; 0 for none.
Latest(c) == Max({i \in Stored : OfOccasion(i, c)} \cup {0})

\* What POST /themes/{id}/unlock_prepare shows as answered when a campaign is
\* entered: its open tribute, else its latest one; if that has no answers,
\* those of the theme.
Prefill(c) ==
    LET found == IF OpenRow(Stored, c) # 0 THEN OpenRow(Stored, c) ELSE Latest(c)
    IN  IF found = 0 \/ row[found].answers = Blank THEN theme.answers
        ELSE row[found].answers

-----------------------------------------------------------------------------
(***************************************************************************)
(* Properties                                                                *)
(***************************************************************************)
\* Types.  Only a transaction that has not ended holds the theme row or rows
\* nobody else sees, and no draft outlives the lock of its theme.
TypeOK ==
    /\ theme \in [state : {"locked", "unlocked"}, draft : Answers, answers : Answers]
    /\ theme.state = "unlocked" => theme.draft = Blank
    /\ lock \in Request \cup {None}
    /\ lock # None => Inside(lock)
    /\ row \in [Row -> [status : {"none", "draft", "generating", "complete", "failed"},
                        campaign : Occasion \cup {None}, version : 0 .. MaxVersion,
                        tx : Request \cup {None}, answers : Answers]]
    /\ \A i \in Row : row[i].tx # None => Inside(row[i].tx)
    /\ version \in [Occasion -> 0 .. MaxVersion]
    /\ op \in [Request -> {"save", "unlock", "entry", None}]
    /\ at \in [Request -> {"idle", "write", "unlock", "standalone", "open",
                           "merge", "commit", "done"}]
    /\ occasion \in [Request -> Occasion \cup {None}]
    /\ given \in [Request -> Answers] /\ basis \in [Request -> Answers]
    /\ seen \in [Request -> {"locked", "unlocked"}]
    /\ open \in [Request -> Row \cup {0}]
    /\ newest \in Request \cup {None} /\ stale \in SUBSET Request
    /\ raced \in BOOLEAN /\ unserialised \in BOOLEAN
    /\ last \in [Row -> Answers]

\* The answers accepted last, as a draft or with a session start, stand on the
\* theme, unless a session start or an automatic unlock wrote what it had read
\* before another call's write.
LossNeedsARace ==
    newest # None =>
        \/ \E q \in Question : newest \in {theme.draft[q], theme.answers[q]}
        \/ raced

\* One occasion gets two tributes only if two session starts looked for one
\* side by side, one of them without answers for a theme already unlocked: any
\* other pair waits for each other at the theme row.
TwinsNeedALocklessEntry ==
    (\E i, j \in Stored : /\ i # j /\ row[i].campaign = row[j].campaign
                          /\ row[i].status = "draft" /\ row[j].status = "draft")
    => unserialised

\* No answer committed to a tribute is ever lost from it: the theme row
\* serialises the read and the write back.  And the next entry of its campaign
\* is shown them, however often the campaign was edited and the film rendered,
\* unless the campaign has a later tribute or an older one that is open.
AnswersAddUp ==
    \A i \in Stored :
        /\ row[i].answers = last[i]
        /\ \/ last[i] = Blank \/ row[i].campaign = None
           \/ \E j \in Stored \ {i} : /\ row[j].campaign = row[i].campaign
                                      /\ j > i \/ j \in OpenAmong(Stored)
           \/ Prefill(row[i].campaign) = last[i]
=============================================================================
