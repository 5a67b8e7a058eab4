--------------------------- MODULE CampaignConfig ---------------------------
(***************************************************************************)
(* The tables that style a tribute: visual themes, and the campaigns (or     *)
(* relationship profiles) that refer to one by its row.  Editors create,       *)
(* edit, publish, archive, delete, roll back and regenerate rows; an edit      *)
(* supersedes a row by a new one of the next version, and what referred to it  *)
(* is repointed.  A candidate that replaces a draft is not followed until it   *)
(* is published.  A render snapshot pins the rows that were live.             *)
(*                                                                         *)
(* A request is what it reads first, its locking UPDATE with the scan for     *)
(* references, and its commit; under READ COMMITTED others come in between.   *)
(* Rows are numbered as they are inserted.                                   *)
(***************************************************************************)
EXTENDS Naturals, Sequences, FiniteSets

CONSTANTS Editor, Nothing,
          Carried,      \* the theme of an edit that does not name one
          ThemeSlug, CampaignSlug,
          MaxInFlight   \* bound: requests at once

Slug == ThemeSlug \cup CampaignSlug

\* A row of either table.
Record == [slug : Slug, state : {"draft", "published", "archived"},
           active : BOOLEAN, theme : Nat \cup {Nothing}]

ASSUME ConfigAssumption ==
    /\ ThemeSlug \cap CampaignSlug = {}
    /\ Nothing # Carried /\ Nothing \notin Editor \cup Record
    /\ {Nothing, Carried} \cap Nat = {}
    /\ MaxInFlight \in Nat

VARIABLES
    rows,     \* every row inserted: [slug, state, active, theme], or Nothing
              \* once it is deleted
    held,     \* who holds the lock on each row
    pc, loc,  \* where each request is, and its locals
    stamp,    \* the campaign row of a tribute
    awaited,     \* whether that tribute has been a draft, ready or generating all along
    pins,     \* the rows that render snapshots pin
    lost,     \* history: slugs whose deletion took a pinned row
    beside,   \* history: requests that were in flight beside another
    mixed,    \* history: slugs two requests worked on at once
    renamed,  \* history: slugs a row was renamed from
    replaced, \* history: rows whose slug a candidate took and nobody published since
    excused   \* history: rows inserted with a reference that may be old

configVars == <<rows, held, pc, loc, stamp, awaited, pins,
                lost, beside, mixed, renamed, replaced, excused>>
past       == <<lost, beside, mixed, renamed, replaced, excused>>

-----------------------------------------------------------------------------
Present == {i \in DOMAIN rows : rows[i] # Nothing}
Live   == {i \in Present : rows[i].active}
Of(s)  == {i \in Present : rows[i].slug = s}
Holder(s) == Live \cap Of(s)               \* the active row of a slug, if any
Themes    == {i \in Present : rows[i].slug \in ThemeSlug}
SameTable(s) == IF s \in ThemeSlug THEN ThemeSlug ELSE CampaignSlug

Flying == {a \in Editor : pc[a] \notin {"idle", "done"}}
Becomes(a, s) == pc' = [pc EXCEPT ![a] = s]
\* A theme has no theme of its own.
Version(s, state, t) ==
    [slug |-> s, state |-> state, active |-> TRUE, theme |-> IF s \in ThemeSlug THEN Nothing ELSE t]
Free(i, a) == held[i] \in {Nothing, a}

\* A theme, still a draft or published, a published campaign that refers to it
\* and a tribute of that campaign.
ConfigInit ==
    /\ \E t \in ThemeSlug, c \in CampaignSlug, state \in {"draft", "published"} :
          rows = <<Version(t, state, Nothing), Version(c, "published", 1)>>
    /\ held = [i \in 1 .. 2 |-> Nothing]
    /\ pc = [a \in Editor |-> "idle"]
    /\ loc = [a \in Editor |-> Nothing]
    /\ stamp = 2 /\ awaited = TRUE /\ pins = {}
    /\ lost = {} /\ beside = {} /\ mixed = {} /\ renamed = {} /\ replaced = {} /\ excused = {}

-----------------------------------------------------------------------------
(* What a request reads before its first write.                              *)

\* op; row: the row named by the request; slug: of the row it works on; new:
\* the slug it inserts under; theme: the reference it was given, or Carried.
Local(op, i, s, new, t) == [op |-> op, row |-> i, slug |-> s, new |-> new, theme |-> t, refs |-> {}]

\* A payload that its validation refuses (422) is not begun and writes nothing.
Begin(a, l) ==
    /\ pc[a] = "idle" /\ Cardinality(Flying) < MaxInFlight
    /\ Becomes(a, "write")
    /\ loc' = [loc EXCEPT ![a] = l]
    /\ beside' = IF Flying = {} THEN beside ELSE beside \cup Flying \cup {a}
    /\ mixed' = mixed \cup {s \in {l.slug, l.new} :
                               \E b \in Flying : s \in {loc[b].slug, loc[b].new}}
    /\ UNCHANGED <<rows, held, stamp, awaited, pins, lost, renamed, replaced, excused>>

\* Any column can be edited: the slug, and the theme by the id of a row, live or
\* not.
Edit(a) ==
    \E i \in Live : \E new \in SameTable(rows[i].slug) :
       \E t \in IF i \in Themes THEN {Carried} ELSE {Carried, Nothing} \cup Themes :
          Begin(a, Local("edit", i, rows[i].slug, new, t))

Publish(a) == \E i \in Live : Begin(a, Local("publish", i, rows[i].slug, rows[i].slug, Nothing))
Archive(a) == \E i \in Live : Begin(a, Local("archive", i, rows[i].slug, rows[i].slug, Nothing))

\* Mutant: whatever its state.
LookToDeleteAny(a) ==
    \E i \in Live : Begin(a, Local("delete", i, rows[i].slug, rows[i].slug, Nothing))

\* delete_draft_chain: the active row must be a draft; nothing locks it.
LookToDelete(a) ==
    \E i \in Live : /\ rows[i].state = "draft"
                    /\ Begin(a, Local("delete", i, rows[i].slug, rows[i].slug, Nothing))

\* To whatever row is named, the active one too.
LookToRollback(a) ==
    \E i \in Present : Begin(a, Local("rollback", i, rows[i].slug, rows[i].slug, Nothing))

Create(a) ==
    \E s \in Slug : \E t \in IF s \in ThemeSlug THEN {Nothing} ELSE {Nothing} \cup Themes :
       Begin(a, Local("create", Nothing, s, s, t))

\* A candidate replaces an active draft of its slug; one that is live or
\* archived is left alone, and the candidate takes another slug.
LookToGenerate(a) ==
    \E s \in ThemeSlug :
       LET replaces == Holder(s) # {} /\ \A i \in Holder(s) : rows[i].state = "draft"
       IN  \E new \in IF replaces \/ Holder(s) = {} THEN {s}
                      ELSE {n \in ThemeSlug : Holder(n) = {}} :
              Begin(a, Local(IF replaces THEN "generate" ELSE "create", Nothing, new, new, Nothing))

-----------------------------------------------------------------------------
(* The locking UPDATE, and the rows that what follows will find.             *)

\* repoint_references, by the row that is replaced, and the siblings of a
\* theme that is published, by its slug; a campaign has none to look for.
Referring(olds) == {i \in Live : rows[i].theme \in olds}
Siblings(i)     == IF i \in Themes THEN Of(rows[i].slug) \ {i} ELSE {}

Lock(a, i, refs) ==
    /\ held' = IF i = Nothing THEN held ELSE [held EXCEPT ![i] = a]
    /\ loc' = [loc EXCEPT ![a].row = i, ![a].refs = refs]
    /\ Becomes(a, "commit")
    /\ UNCHANGED <<rows, stamp, awaited, pins, past>>

NotFound(a) ==
    /\ Becomes(a, "done") /\ loc' = [loc EXCEPT ![a] = Nothing]
    /\ UNCHANGED <<rows, held, stamp, awaited, pins, past>>

\* By id, where the row is still active.
WriteById(a) ==
    LET i == loc[a].row
    IN  /\ pc[a] = "write" /\ loc[a].op \in {"edit", "publish", "archive"}
        /\ held[i] = Nothing
        /\ IF i \notin Live THEN NotFound(a)
           ELSE Lock(a, i, IF loc[a].op = "publish" THEN Referring(Siblings(i)) ELSE Referring({i}))

\* By slug, whatever row is active: supersede_active_slug, which repoints nothing,
\* and rollback_to.  A statement that waits for another's edit finds nothing left
\* to supersede.  rollback_to keeps the row it restores in "theme".
WriteBySlug(a) ==
    /\ pc[a] = "write" /\ loc[a].op \in {"generate", "rollback"}
    /\ loc[a].op = "rollback" => loc[a].row \in Present
    /\ \E i \in Holder(loc[a].slug) \cup {Nothing} :
          /\ i = Nothing => \A j \in Holder(loc[a].slug) : held[j] # Nothing
          /\ i # Nothing => held[i] = Nothing
          /\ held' = IF i = Nothing THEN held ELSE [held EXCEPT ![i] = a]
          /\ loc' = [loc EXCEPT ![a].row = i, ![a].theme = loc[a].row,
                                ![a].refs = IF i = Nothing \/ loc[a].op = "generate"
                                            THEN {} ELSE Referring({i})]
    /\ Becomes(a, "commit")
    /\ UNCHANGED <<rows, stamp, awaited, pins, past>>

\* A delete and an insert lock nothing before; a row to restore is gone.
WriteNothing(a) ==
    /\ pc[a] = "write"
    /\ \/ loc[a].op = "create" /\ Lock(a, Nothing, {})
       \/ loc[a].op = "delete" /\ Lock(a, Nothing, Of(loc[a].slug))
       \/ loc[a].op = "rollback" /\ loc[a].row \notin Present /\ NotFound(a)

-----------------------------------------------------------------------------
(* The commit.                                                               *)

\* Mutant: what referred to the row keeps doing so.
RepointNothing(old, new, i, a) == rows[i]

\* The rows found before are looked at again: one that was superseded since is
\* left alone.
Repoint(old, new, i, a) ==
    IF i \in loc[a].refs \cap Live /\ rows[i].theme \in old THEN [rows[i] EXCEPT !.theme = new]
    ELSE rows[i]

Leave(a) ==
    /\ Becomes(a, "done")
    /\ loc' = [loc EXCEPT ![a] = Nothing]

\* The locks end with the transaction.
Released(a) == [i \in DOMAIN rows |-> IF held[i] = a THEN Nothing ELSE held[i]]

\* The request fails, and nothing happened.
Refuse(a) ==
    /\ held' = Released(a)
    /\ UNCHANGED <<rows, stamp, replaced, excused, renamed>>

\* The index keeps a second active row of the slug out, the foreign key a theme
\* that is gone.
Refused(olds, row) ==
    Holder(row.slug) \ olds # {} \/ row.theme \notin Present \cup {Nothing}

\* A row is inserted, and what is replaced (no row, or one) superseded.  A tribute
\* that was finished follows its campaign only if it is generating again.
Insert(a, olds, row) ==
    LET new == Len(rows) + 1
    IN  /\ rows' = Append([i \in DOMAIN rows |->
                              IF rows[i] = Nothing THEN Nothing
                              ELSE IF i \in olds THEN [rows[i] EXCEPT !.active = FALSE]
                              ELSE Repoint(olds, new, i, a)], row)
        /\ held' = Append(Released(a), Nothing)
        /\ stamp' \in IF stamp \notin olds \/ loc[a].op = "generate" THEN {stamp}
                      ELSE IF awaited THEN {new} ELSE {stamp, new}
        /\ replaced' = IF loc[a].op = "generate" THEN replaced \cup olds ELSE replaced
        /\ renamed' = IF olds # {} /\ loc[a].slug # row.slug
                      THEN renamed \cup {loc[a].slug} ELSE renamed
        /\ excused' = IF \/ a \in beside \/ olds \cap excused # {} \/ loc[a].op = "rollback"
                         \/ loc[a].theme \in Present \ Live
                      THEN excused \cup {new} ELSE excused

Supersede(a, olds, row) == IF Refused(olds, row) THEN Refuse(a) ELSE Insert(a, olds, row)

CommitInsert(a) ==
    /\ pc[a] = "commit"
    /\ \A i \in loc[a].refs : Free(i, a)
    /\ LET l    == loc[a]
           olds == {l.row} \ {Nothing}
       IN  \/ /\ l.op = "create"
              /\ Supersede(a, {}, Version(l.new, "draft", l.theme))
           \/ /\ l.op = "generate"
              /\ Supersede(a, olds, Version(l.new, "draft", Nothing))
           \/ /\ l.op = "edit"
              /\ Supersede(a, olds,
                     Version(l.new, rows[l.row].state,
                         IF l.theme = Carried THEN rows[l.row].theme ELSE l.theme))
           \/ /\ l.op = "rollback" /\ l.theme \in Present
              /\ Supersede(a, olds, Version(l.new, "published", rows[l.theme].theme))
           \/ /\ l.op = "rollback" /\ l.theme \notin Present
              /\ Refuse(a)
    /\ Leave(a)
    /\ UNCHANGED <<awaited, pins, lost, beside, mixed>>

CommitState(a) ==
    /\ pc[a] = "commit" /\ loc[a].op \in {"publish", "archive"}
    /\ \A i \in loc[a].refs : Free(i, a)
    /\ LET r == loc[a].row
           siblings == IF loc[a].op = "publish" THEN Siblings(r) ELSE {}
           state    == IF loc[a].op = "publish" THEN "published" ELSE "archived"
       IN  /\ rows' = [i \in DOMAIN rows |->
                       IF rows[i] = Nothing THEN Nothing
                       ELSE IF i = r THEN [rows[i] EXCEPT !.state = state]
                       ELSE Repoint(siblings, r, i, a)]
           /\ replaced' = replaced \ siblings
    /\ held' = Released(a)
    /\ Leave(a)
    /\ UNCHANGED <<stamp, awaited, pins, lost, beside, mixed, renamed, excused>>

\* Every row of the slug that the DELETE found; references to it become NULL.
CommitDelete(a) ==
    LET gone == loc[a].refs \cap Present
    IN  /\ pc[a] = "commit" /\ loc[a].op = "delete"
        /\ \A i \in gone \cup {j \in Present : rows[j].theme \in gone} : Free(i, a)
        /\ rows' = [i \in DOMAIN rows |-> IF i \in gone \/ rows[i] = Nothing THEN Nothing
                                          ELSE IF rows[i].theme \in gone THEN [rows[i] EXCEPT !.theme = Nothing]
                                          ELSE rows[i]]
        /\ stamp' = IF stamp \in gone THEN Nothing ELSE stamp
        /\ lost' = IF gone \cap pins # {} THEN lost \cup {loc[a].slug} ELSE lost
        /\ Leave(a)
        /\ UNCHANGED <<held, awaited, pins, beside, mixed, renamed, replaced, excused>>

-----------------------------------------------------------------------------
\* The campaign the tribute is stamped with, or the published row its slug has
\* now; its theme, if it is published.  Both are pinned.
RenderTribute ==
    LET now == IF stamp = Nothing THEN Nothing
               ELSE IF \E i \in Holder(rows[stamp].slug) : rows[i].state = "published"
                    THEN CHOOSE i \in Holder(rows[stamp].slug) : TRUE
                    ELSE stamp
        theme == IF now = Nothing THEN Nothing
                 ELSE IF rows[now].theme # Nothing /\ rows[rows[now].theme].state = "published"
                      THEN rows[now].theme ELSE Nothing
    IN  /\ pins' = (pins \cup {now, theme}) \ {Nothing}
        /\ UNCHANGED <<rows, held, pc, loc, stamp, awaited, past>>

\* The film that was asked for is complete, or its render gave up.
FinishTribute ==
    /\ awaited /\ pins # {}
    /\ awaited' = FALSE
    /\ UNCHANGED <<rows, held, pc, loc, stamp, pins, past>>

ConfigNext ==
    \/ \E a \in Editor :
          \/ Edit(a) \/ Publish(a) \/ Archive(a) \/ LookToDelete(a) \/ LookToRollback(a)
          \/ Create(a) \/ LookToGenerate(a)
          \/ WriteById(a) \/ WriteBySlug(a) \/ WriteNothing(a)
          \/ CommitInsert(a) \/ CommitState(a) \/ CommitDelete(a)
    \/ RenderTribute \/ FinishTribute

ConfigSpec == ConfigInit /\ [][ConfigNext]_configVars

-----------------------------------------------------------------------------
(* Properties.                                                              *)

\* A row that a render snapshot pins is deleted only with a slug that a row was
\* renamed from, which leaves its history to whoever takes the slug next, or
\* that two requests worked on at once.  Otherwise an active draft does prove
\* that its slug was never published.
PinsNeedARename == lost \subseteq renamed \cup mixed

\* An active campaign refers to an active row of its theme, whatever was edited,
\* renamed or published since.  It refers to an old row only where a candidate took
\* that row's slug and nobody has published the slug since, where the row was
\* inserted with the id of a row that was old already, by a rollback or by a
\* request that overlapped another, or where it was edited from such a row.  A
\* tribute that has never been finished is stamped with an active row without
\* exception.
ReferencesAreCurrent ==
    /\ \A i \in Live \ excused : rows[i].theme \in Live \cup replaced \cup {Nothing}
    /\ awaited /\ stamp # Nothing => stamp \in Live
=============================================================================
