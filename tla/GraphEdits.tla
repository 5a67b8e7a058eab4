----------------------------- MODULE GraphEdits -----------------------------
(***************************************************************************)
(* The knowledge graph of one person under its writers: extractions and      *)
(* edits, which supersede moments and name entities, and the identity        *)
(* merges, which fold one entity into another, by themselves or on approval, *)
(* and can be undone.  Each transaction is one step; what it read before, or *)
(* read without a lock, is a step of its own.                                *)
(***************************************************************************)
EXTENDS Naturals, FiniteSets, FiniteSetsExt

CONSTANTS Writer,           \* extractions and edits
          Scanner,          \* callers of POST /identity_merges/scan
          New,              \* the moments they insert
          First, FirstQuestion, \* the moment and the question at the start
          Name, Nil,
          InitialTitle,     \* sequence: the name of entity 1, 2, ..
          InitialAliases,   \* and its aliases
          MaxEntity,        \* bound: rows of entities
          MaxMoments,       \* bound: moments of one extraction
          MaxMentions,      \* bound: entities one extraction names
          MaxLabels         \* bound: edits of an entity's aliases

Entity  == 1 .. MaxEntity   \* in the order of their creation
Initial == DOMAIN InitialTitle
Moment  == {First} \cup New

ASSUME GraphAssumption ==
    /\ {MaxEntity, MaxMoments, MaxMentions, MaxLabels} \subseteq Nat
    /\ Initial \subseteq Entity /\ DOMAIN InitialAliases = Initial
    /\ \A i \in Initial : /\ InitialTitle[i] \in Name
                          /\ InitialAliases[i] \subseteq Name
    /\ Nil \notin Name \cup Moment /\ First \notin New
    /\ FirstQuestion \notin Moment \cup Entity /\ Moment \cap Entity = {}

VARIABLES
    moment,     \* status of each moment
    replaces,   \* the moment each was written to supersede
    entity,     \* status of each entity
    title, aliases,
    edges,      \* rows: a stable key and the two ends
    rows,       \* identity_merge_suggestions
    stage, drafts, \* each writer: where it is, the moments it is to insert
    target,     \* the moment each of those is to supersede
    found, missing,     \* the entities it reuses and the names it inserts
    cand,       \* each scanner: the candidate it is verifying
    labels,     \* edits of aliases so far
    apart,      \* history: pairs <<resurrected, survivor>> pulled apart
    late,       \* history: <<writer, entity>> merged while the writer held it
    raced       \* history: pairs of moments that chose the same one to supersede
                \* before either was there

graph    == <<moment, replaces, edges>>
entities == <<entity, title, aliases>>
writers  == <<stage, drafts, target, found, missing>>
history  == <<apart, late, raced>>
graphVars     == <<graph, entities, rows, writers, cand, labels, history>>

Active     == {e \in Entity : entity[e] = "active"}
Unused     == {e \in Entity : entity[e] = "unused"}
NextEntity == Min(Unused)
Edge(by, x, y) == [key |-> <<by, x, y>>, from |-> x, to |-> y]

\* ON CONFLICT DO NOTHING: the pairs that are there already stay as they are.
Insert(E, by, pairs) ==
    E \cup {Edge(by, p[1], p[2]) :
               p \in {q \in pairs : ~\E f \in E : f.from = q[1] /\ f.to = q[2]}}

GraphInit ==
    /\ moment = [m \in Moment |-> IF m = First THEN "active" ELSE "unused"]
    /\ replaces = [m \in Moment |-> Nil]
    /\ entity = [e \in Entity |-> IF e \in Initial THEN "active" ELSE "unused"]
    /\ title = [e \in Entity |-> IF e \in Initial THEN InitialTitle[e] ELSE Nil]
    /\ aliases = [e \in Entity |-> IF e \in Initial THEN InitialAliases[e] ELSE {}]
    /\ edges = {Edge(Nil, First, e) : e \in Initial \cap {1, 2}}
                  \cup {Edge(Nil, FirstQuestion, First)}
    /\ rows = {}
    /\ stage = [w \in Writer |-> "idle"]
    /\ drafts = [w \in Writer |-> {}]
    /\ target = [n \in New |-> Nil]
    /\ found = [w \in Writer |-> {}] /\ missing = [w \in Writer |-> {}]
    /\ cand = [s \in Scanner |-> <<>>]
    /\ labels = 0
    /\ apart = {} /\ late = {} /\ raced = {}

-----------------------------------------------------------------------------
(* Writers.                                                                 *)

\* Only active moments are candidates for refinement, and can be edited.
Refinable == {m \in Moment : moment[m] = "active"}

Fresh == {n \in New : moment[n] = "unused" /\ \A w \in Writer : n \notin drafts[w]}

\* Before the transaction, for each moment in turn: which one it is to
\* supersede, if any.  The candidates are those that are committed.
Choose(w) ==
    /\ stage[w] = "idle"
    /\ Cardinality(drafts[w]) < MaxMoments
    /\ \E n \in Fresh, m \in Refinable \cup {Nil} :
          /\ drafts' = [drafts EXCEPT ![w] = @ \cup {n}]
          /\ target' = [target EXCEPT ![n] = m]
          /\ raced' = raced \cup
                {{n, k} : k \in {k \in New : target[k] = m /\ m # Nil}}
    /\ UNCHANGED <<graph, entities, rows, stage, found, missing, cand, labels,
                   apart, late>>

\* Prevention layer 1: the oldest active row of that name is reused.
Matches(n) == {e \in Active : title[e] = n}

\* In the transaction; nothing is locked by a mention that adds no alias.
ReadEntities(w) ==
    /\ stage[w] = "idle" /\ drafts[w] # {}
    /\ \E mentioned \in SUBSET Name :
          /\ Cardinality(mentioned) <= MaxMentions
          /\ LET known == {n \in mentioned : Matches(n) # {}}
             IN  /\ found' = [found EXCEPT ![w] = {Min(Matches(n)) : n \in known}]
                 /\ missing' = [missing EXCEPT ![w] = mentioned \ known]
    /\ stage' = [stage EXCEPT ![w] = "read"]
    /\ UNCHANGED <<graph, entities, rows, drafts, target, cand, labels, history>>

\* The moments a writer supersedes, and the first of its moments to supersede
\* each: the order is the extraction's.
Taken(w) == {target[n] : n \in drafts[w]} \ {Nil}
Heirs(w) == {h \in [Taken(w) -> drafts[w]] : \A m \in Taken(w) : target[h[m]] = m}

\* Mutant: the edges onto the old moment stay on it.
SupersededLeavingInbound(E, heir) == {e \in E : e.from \notin DOMAIN heir}

\* Edges onto an old moment move to its heir, which has none yet, and so leave
\* none for a second one; those from it are dropped.
Superseded(E, heir) ==
    {IF e.to \in DOMAIN heir THEN [e EXCEPT !.to = heir[e.to]] ELSE e :
        e \in {f \in E : f.from \notin DOMAIN heir}}

\* The new moments are inserted, the old ones marked, if they are active still.
Replaced(w) ==
    [m \in Moment |-> IF m \in drafts[w] THEN "active"
                      ELSE IF m \in Taken(w) THEN "superseded" ELSE moment[m]]

\* The edges to the entities, named by one of the moments or by all of them.
Named(w, ends) == {drafts[w] \X ends} \cup {{n} \X ends : n \in drafts[w]}

\* The new names become rows, in order; the edges go where the reads said.
Commit(w) ==
    /\ stage[w] = "read"
    /\ Cardinality(missing[w]) <= 1
    /\ missing[w] # {} => Unused # {}
    /\ LET new  == IF missing[w] = {} THEN {} ELSE {NextEntity}
           ends == found[w] \cup new
       IN  \E heir \in Heirs(w), answers \in {{}, {FirstQuestion} \X drafts[w]},
              related \in {{}} \cup {{p} : p \in {q \in ends \X ends : q[1] # q[2]}},
              named \in Named(w, ends) :
              /\ edges' = Insert(Superseded(edges, heir), w,
                                 answers \cup related \cup named)
              /\ entity' = [e \in Entity |-> IF e \in new THEN "active" ELSE entity[e]]
              /\ title' = [e \in Entity |->
                              IF e \in new THEN CHOOSE n \in missing[w] : TRUE
                              ELSE title[e]]
    /\ moment' = Replaced(w)
    /\ replaces' = [m \in Moment |-> IF m \in drafts[w] THEN target[m] ELSE replaces[m]]
    /\ stage' = [stage EXCEPT ![w] = "done"]
    /\ drafts' = [drafts EXCEPT ![w] = {}]
    /\ target' = [n \in New |-> IF n \in drafts[w] THEN Nil ELSE target[n]]
    /\ found' = [found EXCEPT ![w] = {}]
    /\ missing' = [missing EXCEPT ![w] = {}]
    /\ UNCHANGED <<aliases, rows, cand, labels, history>>

Write(w) == Choose(w) \/ ReadEntities(w) \/ Commit(w)

\* An edit of an entity, or a mention, has the model set its aliases.
Label(e) ==
    /\ labels < MaxLabels
    /\ e \in Active
    /\ \E A \in SUBSET Name : aliases' = [aliases EXCEPT ![e] = A]
    /\ labels' = labels + 1
    /\ UNCHANGED <<graph, entity, title, rows, writers, cand, history>>

-----------------------------------------------------------------------------
(* Merges.                                                                  *)

Pair(r) == {r.source, r.target}

\* No row names the pair, whatever its status and whichever way round.
Unseen(pair) == \A r \in rows : Pair(r) # pair

\* Which of two entities of evidently one name is folded into the other: the
\* one whose name is an alias of the other; of the same name, the one of less
\* detail, which is either.
Orientations(x, y) ==
    IF title[x] = title[y] THEN {<<x, y>>, <<y, x>>}
    ELSE IF title[x] \in aliases[y] THEN {<<x, y>>}
    ELSE IF title[y] \in aliases[x] THEN {<<y, x>>}
    ELSE {}

Candidates == UNION {Orientations(p[1], p[2]) :
                        p \in {q \in Active \X Active :
                                  q[1] < q[2] /\ Unseen({q[1], q[2]})}}

\* A scan verifies each candidate by an LLM call, within its transaction.
Scan(s) ==
    /\ cand[s] = <<>>
    /\ \E c \in Candidates : cand' = [cand EXCEPT ![s] = c]
    /\ UNCHANGED <<graph, entities, rows, writers, labels, history>>

Verified(s) == cand' = [cand EXCEPT ![s] = <<>>]

\* A different identity, or the same with low confidence.
Drop(s) ==
    /\ cand[s] # <<>>
    /\ Verified(s)
    /\ UNCHANGED <<graph, entities, rows, writers, labels, history>>

Row(c, st) == [source |-> c[1], target |-> c[2], status |-> st,
               moved |-> {}, gone |-> {}, labels |-> {}]

\* Unsure, or of medium confidence: a pending row unless one has appeared.
Ask(s) ==
    /\ cand[s] # <<>>
    /\ rows' = IF Unseen({cand[s][1], cand[s][2]})
               THEN rows \cup {Row(cand[s], "pending")} ELSE rows
    /\ Verified(s)
    /\ UNCHANGED <<graph, entities, writers, labels, history>>

\* One direction of a repointing: the edges of old whose equivalent new has
\* already are deleted, the others moved.
Gone(E, end, old, new) ==
    {e \in E : e[end] = old
               /\ \E f \in E : f = [[e EXCEPT ![end] = new] EXCEPT !.key = f.key]}
Moved(E, end, old, new) ==
    {IF e[end] = old THEN [e EXCEPT ![end] = new] ELSE e :
        e \in E \ Gone(E, end, old, new)}
Keys(E, end, old, new) ==
    {e.key : e \in {f \in E \ Gone(E, end, old, new) : f[end] = old}}

Arrivals(old, new) == Moved(edges, "to", old, new)

\* The edges after the repointing, those onto the source first.
Repointed(old, new) == Moved(Arrivals(old, new), "from", old, new)

\* The row a merge leaves, with what undoing it needs.
Snapshot(c, st) ==
    [source |-> c[1], target |-> c[2], status |-> st,
     moved  |-> Keys(edges, "to", c[1], c[2])
                   \cup Keys(Arrivals(c[1], c[2]), "from", c[1], c[2]),
     gone   |-> {<<e.from, e.to>> :
                    e \in Gone(edges, "to", c[1], c[2])
                          \cup Gone(Arrivals(c[1], c[2]), "from", c[1], c[2])},
     labels |-> aliases[c[1]]]

\* Both rows are locked; the source's labels join the survivor's aliases.
Merge(c) ==
    /\ {c[1], c[2]} \subseteq Active
    /\ edges' = Repointed(c[1], c[2])
    /\ aliases' = [aliases EXCEPT ![c[2]] =
                      (@ \cup aliases[c[1]] \cup {title[c[1]]}) \ {title[c[2]]}]
    /\ entity' = [entity EXCEPT ![c[1]] = "merged"]
    /\ late' = late \cup {<<w, c[1]>> : w \in {v \in Writer : c[1] \in found[v]}}
    /\ UNCHANGED <<moment, replaces, title, writers, labels, apart, raced>>

\* The same identity with high confidence.
AutoMerge(s) ==
    /\ cand[s] # <<>>
    /\ Merge(cand[s])
    /\ rows' = rows \cup {Snapshot(cand[s], "auto_merged")}
    /\ Verified(s)

\* .. unless one of the two is no longer active.
AutoMergeTooLate(s) ==
    /\ cand[s] # <<>>
    /\ ~({cand[s][1], cand[s][2]} \subseteq Active)
    /\ Verified(s)
    /\ UNCHANGED <<graph, entities, rows, writers, labels, history>>

\* The siblings: pending rows that would merge the same source.
Approve(r) ==
    /\ r.status = "pending"
    /\ Merge(<<r.source, r.target>>)
    /\ rows' = {IF q.status = "pending" /\ q.source = r.source
                   THEN [q EXCEPT !.status = "rejected"] ELSE q : q \in rows \ {r}}
               \cup {Snapshot(<<r.source, r.target>>, "approved")}
    /\ UNCHANGED cand

Reject(r) ==
    /\ r.status = "pending"
    /\ rows' = (rows \ {r}) \cup {[r EXCEPT !.status = "rejected"]}
    /\ UNCHANGED <<graph, entities, writers, cand, labels, history>>

\* Mutant: the row keeps the id of the row that was merged away.
ReversedRowInPlace(r, new) == [r EXCEPT !.status = "unmerged"]

\* The scanner's gate goes by id: the row follows the resurrection.
ReversedRow(r, new) == [r EXCEPT !.status = "unmerged", !.source = new]

\* The edges the merge moved go back where their end is still the survivor;
\* the deleted ones are made again.
Restored(r, new) ==
    LET Back(e, end) == IF e.key \in r.moved /\ e[end] = r.target THEN new ELSE e[end]
        Of(x)        == IF x = r.source THEN new ELSE x
        E            == {[e EXCEPT !.from = Back(e, "from"), !.to = Back(e, "to")] :
                            e \in edges}
    IN  Insert(E, Pair(r), {<<Of(p[1]), Of(p[2])>> : p \in r.gone})

\* The source comes back as a new entity, without the survivor's name, and the
\* survivor loses the labels of the source.
Unmerge(r) ==
    /\ r.status \in {"auto_merged", "approved"}
    /\ Unused # {}
    /\ LET new == NextEntity
       IN  /\ entity' = [entity EXCEPT ![new] = "active"]
           /\ title' = [title EXCEPT ![new] = title[r.source]]
           /\ aliases' = [aliases EXCEPT
                            ![new] = r.labels \ {title[r.target]},
                            ![r.target] = @ \ (r.labels \cup {title[r.source]})]
           /\ edges' = Restored(r, new)
           /\ rows' = (rows \ {r}) \cup {ReversedRow(r, new)}
           /\ apart' = apart \cup {<<new, r.target>>}
    /\ UNCHANGED <<moment, replaces, writers, cand, labels, late, raced>>

GraphNext ==
    \/ \E w \in Writer : Write(w)
    \/ \E e \in Entity : Label(e)
    \/ \E s \in Scanner : \/ Scan(s) \/ Drop(s) \/ Ask(s)
                           \/ AutoMerge(s) \/ AutoMergeTooLate(s)
    \/ \E r \in rows : Approve(r) \/ Reject(r) \/ Unmerge(r)

GraphSpec == GraphInit /\ [][GraphNext]_graphVars

-----------------------------------------------------------------------------
(* Properties.                                                              *)

\* Every variable holds what its column or local variable can; the edges keep
\* the table's UNIQUE (from, to, type).
GraphTypeOK ==
    /\ moment \in [Moment -> {"unused", "active", "superseded"}]
    /\ replaces \in [Moment -> Moment \cup {Nil}]
    /\ entity \in [Entity -> {"unused", "active", "merged"}]
    /\ title \in [Entity -> Name \cup {Nil}]
    /\ \A e \in Entity : entity[e] = "unused" <=> title[e] = Nil
    /\ aliases \in [Entity -> SUBSET Name]
    /\ \A r \in rows : Pair(r) \subseteq Entity \ Unused /\ r.source # r.target
    /\ \A e, f \in edges : (e.from = f.from /\ e.to = f.to) => e = f
    /\ stage \in [Writer -> {"idle", "read", "done"}]
    /\ drafts \in [Writer -> SUBSET New]
    /\ target \in [New -> Moment \cup {Nil}]
    /\ found \in [Writer -> SUBSET Entity]
    /\ missing \in [Writer -> SUBSET Name]
    /\ \A s \in Scanner : cand[s] = <<>> \/ cand[s] \in Entity \X Entity
    /\ labels \in 0 .. MaxLabels

ByUnmerge(e) == e.key[1] \in SUBSET Entity

\* A moment has two successors only if both chose it before either was there,
\* as moments of two writers or of one extraction: the decisions are made one
\* by one against what is committed, and the UPDATE's row count is not looked
\* at.  What points at a moment points at an active one, through any
\* supersession; and an end of an edge is dead only if the writer read the
\* entity before it was merged away, or an unmerge made the edge again out of
\* its snapshot.
ForksAndDeadEndsNeedAMishap ==
    /\ \A n, k \in New :
          (n # k /\ replaces[n] = replaces[k] /\ replaces[n] # Nil)
              => {n, k} \in raced
    /\ \A e \in edges :
          /\ e.to \in Moment => moment[e.to] = "active"
          /\ e.from \in Moment => moment[e.from] = "active" \/ ByUnmerge(e)
          /\ \A x \in {e.from, e.to} \cap Entity :
                entity[x] = "active" \/ <<e.key[1], x>> \in late \/ ByUnmerge(e)

\* Two entities the user has pulled apart are not proposed again, nor merged
\* again by a scan, as long as they are the same two rows (unmerge_async).
PulledApartStaysApart ==
    \A p \in apart : \A r \in rows :
        Pair(r) = {p[1], p[2]} => r.status = "unmerged"
=============================================================================
