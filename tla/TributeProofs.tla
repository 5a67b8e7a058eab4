---------------------------- MODULE TributeProofs ----------------------------
(***************************************************************************)
(* Proofs about ThemeEntry and CampaignConfig, the themes of a tribute and    *)
(* the rows that style it; the two share no state, and the names of one are   *)
(* not those of the other.                                                   *)
(*                                                                         *)
(* ThemeEntry, for every number of requests, occasions, questions, rows and    *)
(* versions: what makes it work is the theme row.  A session start that may    *)
(* write holds its lock from the UPDATE to the commit, so of two that stand    *)
(* side by side one has nothing to write.                                     *)
(*                                                                         *)
(* CampaignConfig, for every number of requests, slugs and rows: what a        *)
(* request has looked at stays so because nobody else works on its slug, and   *)
(* where somebody does, the slug is known to be mistaken.                     *)
(***************************************************************************)
EXTENDS ThemeEntry, CampaignConfig, WellFoundedInduction, TLAPS

-----------------------------------------------------------------------------
(* Minimum and maximum.                                                     *)

\* A nonempty set of numbers has the minimum that Min chooses.
LEMMA MinIsIn ==
    ASSUME NEW S \in SUBSET Nat, S # {}
    PROVE  Min(S) \in S /\ \A y \in S : Min(S) =< y
<1> DEFINE R == {ss \in Nat \X Nat : ss[1] < ss[2]}
<1>0. IsWellFoundedOn(R, Nat)
  BY NatLessThanWellFounded DEF OpToRel
<1>1. PICK x \in S : \A y \in S : ~ (<<y, x>> \in R)
  <2> HIDE DEF R
  <2> QED BY <1>0, WFMin
<1>2. \A y \in S : x \in Nat /\ y \in Nat /\ ~ (y < x)
  BY <1>1
<1>3. \A y \in S : x =< y
  BY <1>2
<1> QED BY <1>3 DEF Min

\* A nonempty set of numbers up to n has the maximum that Max chooses: n less
\* the minimum of the distances to n.
LEMMA MaxIsIn ==
    ASSUME NEW n \in Nat, NEW S \in SUBSET (0 .. n), S # {}
    PROVE  Max(S) \in S /\ \A y \in S : Max(S) >= y
<1> DEFINE D == {n - x : x \in S}
<1>0. \A x \in S : x \in Nat /\ n - x \in Nat
  OBVIOUS
<1>1. D \in SUBSET Nat /\ D # {}
  BY <1>0
<1>2. Min(D) \in D /\ \A y \in D : Min(D) =< y
  <2> HIDE DEF D
  <2> QED BY <1>1, MinIsIn
<1>3. PICK x \in S : Min(D) = n - x
  BY <1>2
<1>4. \A y \in S : n - x =< n - y
  BY <1>2, <1>3
<1>5. \A y \in S : x >= y
  BY <1>0, <1>4
<1> QED BY <1>5 DEF Max

-----------------------------------------------------------------------------
(* Answers and rows.                                                        *)

LEMMA BlankIsTyped == Blank \in Answers
BY DEF Blank, Answers

LEMMA ByIsTyped ==
    ASSUME NEW r \in Request, NEW those \in SUBSET Question
    PROVE  By(r, those) \in Answers
BY DEF By, Answers

LEMMA MergedIsTyped ==
    ASSUME NEW old \in Answers, NEW new \in Answers
    PROVE  Merged(old, new) \in Answers
BY DEF Merged, Answers

\* Nothing is added by no answers.
LEMMA MergedWithBlank ==
    ASSUME NEW old \in Answers
    PROVE  Merged(old, Blank) = old
BY DEF Merged, Blank, Answers

\* What TypeOK calls a row.
Tribute == [status : {"none", "draft", "generating", "complete", "failed"},
            campaign : Occasion \cup {None}, version : 0 .. MaxVersion,
            tx : Request \cup {None}, answers : Answers]

LEMMA UnusedIsTyped == Unused \in Tribute
BY ConstantsAssumption, BlankIsTyped DEF Unused, Tribute

LEMMA DraftIsTyped ==
    ASSUME NEW c \in Occasion \cup {None}, NEW v \in 0 .. MaxVersion,
           NEW x \in Request \cup {None}
    PROVE  Draft(c, v, x) \in Tribute
BY BlankIsTyped DEF Draft, Tribute

\* An insert takes a row that is not there.
LEMMA SpareRow ==
    ASSUME Spare # {}
    PROVE  Min(Spare) \in Row /\ row[Min(Spare)].status = "none"
<1>1. Spare \in SUBSET Nat
  BY ConstantsAssumption DEF Spare, Row
<1>2. Min(Spare) \in Spare
  BY <1>1, MinIsIn
<1> QED BY <1>2 DEF Spare

\* A lookup finds no row, when none fits, or one that fits.
LEMMA Lookup ==
    ASSUME NEW those \in SUBSET Row, NEW c
    PROVE  LET fits == {i \in OpenAmong(those) : c # None => OfOccasion(i, c)}
           IN  \/ OpenRow(those, c) = 0 /\ fits = {}
               \/ OpenRow(those, c) \in fits /\ OpenRow(those, c) # 0
<1> DEFINE fits == {i \in OpenAmong(those) : c # None => OfOccasion(i, c)}
           ours == {i \in fits : row[i].campaign # None}
<1>1. fits \subseteq Row
  BY DEF OpenAmong
<1>7. MaxRow \in Nat /\ 0 \notin Row /\ Row \subseteq 0 .. MaxRow
  BY ConstantsAssumption DEF Row
<1>2. OpenRow(those, c) = IF fits = {} THEN 0 ELSE Max(IF ours = {} THEN fits ELSE ours)
  BY DEF OpenRow, Preferred
<1>3. ours \subseteq fits
  OBVIOUS
<1> HIDE DEF fits, ours
<1>4. ASSUME fits # {}
      PROVE  Max(IF ours = {} THEN fits ELSE ours) \in fits
  <2>1. CASE ours = {}
    BY <2>1, <1>1, <1>7, <1>4, MaxIsIn
  <2>2. CASE ours # {}
    BY <2>2, <1>1, <1>7, <1>3, MaxIsIn
  <2> QED BY <2>1, <2>2
<1>5. CASE fits = {}
  BY <1>5, <1>2 DEF fits
<1>6. CASE fits # {}
  <2>1. OpenRow(those, c) \in fits
    BY <1>6, <1>2, <1>4
  <2> QED BY <2>1, <1>1, <1>7 DEF fits
<1> QED BY <1>5, <1>6

-----------------------------------------------------------------------------
(* Types.                                                                   *)

ThemeTypes ==
    /\ theme \in [state : {"locked", "unlocked"}, draft : Answers, answers : Answers]
    /\ lock \in Request \cup {None}
    /\ row \in [Row -> Tribute]
    /\ version \in [Occasion -> 0 .. MaxVersion]
    /\ last \in [Row -> Answers]

RequestTypes ==
    /\ op \in [Request -> {"save", "unlock", "entry", None}]
    /\ at \in [Request -> {"idle", "write", "unlock", "standalone", "open",
                           "merge", "commit", "done"}]
    /\ occasion \in [Request -> Occasion \cup {None}]
    /\ given \in [Request -> Answers] /\ basis \in [Request -> Answers]
    /\ seen \in [Request -> {"locked", "unlocked"}]
    /\ open \in [Request -> Row \cup {0}]

HistoryTypes ==
    /\ newest \in Request \cup {None} /\ stale \in SUBSET Request
    /\ raced \in BOOLEAN /\ unserialised \in BOOLEAN

Holders ==
    /\ theme.state = "unlocked" => theme.draft = Blank
    /\ lock # None => Inside(lock)
    /\ \A i \in Row : row[i].tx # None => Inside(row[i].tx)

LEMMA TypeOKParts == TypeOK <=> ThemeTypes /\ RequestTypes /\ HistoryTypes /\ Holders
BY DEF TypeOK, ThemeTypes, RequestTypes, HistoryTypes, Holders, Tribute

\* What a request does to its own variables, and to nobody else's.
Moves(r, s) ==
    /\ at' = [at EXCEPT ![r] = s]
    /\ \A o \in Request \ {r} : /\ op'[o] = op[o] /\ occasion'[o] = occasion[o]
                                /\ given'[o] = given[o] /\ seen'[o] = seen[o]
                                /\ open'[o] = open[o] /\ basis'[o] = basis[o]

LEMMA EndTypes ==
    ASSUME RequestTypes, NEW r \in Request, End(r)
    PROVE  /\ RequestTypes' /\ Moves(r, "done")
           /\ op'[r] = None /\ given'[r] = Blank /\ open'[r] = 0
BY BlankIsTyped DEF End, Goto, RequestTypes, Moves

LEMMA BeginSaveTypes ==
    ASSUME RequestTypes, ThemeTypes, NEW r \in Request, BeginSave(r)
    PROVE  /\ RequestTypes' /\ Moves(r, "write") /\ at[r] = "idle" /\ op'[r] = "save"
           /\ \E q \in Question : given'[r][q] = r
<1>1. PICK those \in SUBSET Question : those # {} /\ given' = [given EXCEPT ![r] = By(r, those)]
  BY DEF BeginSave
<1>2. By(r, those) \in Answers /\ \E q \in Question : By(r, those)[q] = r
  BY <1>1, ByIsTyped DEF By
<1>3. op' \in [Request -> {"save", "unlock", "entry", None}]
  BY DEF BeginSave, Start, RequestTypes
<1>4. seen' \in [Request -> {"locked", "unlocked"}]
  BY DEF BeginSave, Start, RequestTypes, ThemeTypes
<1>5. at' \in [Request -> {"idle", "write", "unlock", "standalone", "open",
                           "merge", "commit", "done"}]
  BY DEF BeginSave, Goto, RequestTypes
<1>6. given' \in [Request -> Answers] /\ given'[r] = By(r, those)
  BY <1>1, <1>2 DEF RequestTypes
<1>7. RequestTypes'
  BY <1>3, <1>4, <1>5, <1>6 DEF BeginSave, RequestTypes
<1>8. Moves(r, "write") /\ at[r] = "idle" /\ op'[r] = "save"
  BY <1>1 DEF BeginSave, Start, Goto, RequestTypes, Moves
<1> QED BY <1>2, <1>6, <1>7, <1>8

LEMMA FindRichTypes ==
    ASSUME RequestTypes, ThemeTypes, NEW r \in Request, FindRich(r)
    PROVE  /\ RequestTypes' /\ Moves(r, "write") /\ at[r] = "idle"
           /\ op'[r] = "unlock" /\ given' = given
<1>3. op' \in [Request -> {"save", "unlock", "entry", None}]
  BY DEF FindRich, Start, RequestTypes
<1>4. seen' \in [Request -> {"locked", "unlocked"}]
  BY DEF FindRich, Start, RequestTypes, ThemeTypes
<1>5. at' \in [Request -> {"idle", "write", "unlock", "standalone", "open",
                           "merge", "commit", "done"}]
  BY DEF FindRich, Goto, RequestTypes
<1>7. RequestTypes'
  BY <1>3, <1>4, <1>5 DEF FindRich, RequestTypes
<1>8. Moves(r, "write") /\ at[r] = "idle" /\ op'[r] = "unlock"
  BY DEF FindRich, Start, Goto, RequestTypes, Moves
<1> QED BY <1>7, <1>8 DEF FindRich

LEMMA BeginEntryTypes ==
    ASSUME RequestTypes, ThemeTypes, NEW r \in Request, BeginEntry(r)
    PROVE  /\ RequestTypes' /\ Moves(r, "unlock") /\ at[r] = "idle"
           /\ op'[r] = "entry" /\ seen'[r] = theme.state
           /\ \/ \E q \in Question : given'[r][q] = r
              \/ given'[r] = theme.draft
<1>1. PICK those \in SUBSET Question :
            given' = [given EXCEPT ![r] = IF those = {} THEN theme.draft ELSE By(r, those)]
  BY DEF BeginEntry
<1>2. given'[r] = IF those = {} THEN theme.draft ELSE By(r, those)
  BY <1>1 DEF RequestTypes
<1>3. /\ given'[r] \in Answers
      /\ given'[r] = theme.draft \/ \E q \in Question : given'[r][q] = r
  <2>1. CASE those = {}
    BY <2>1, <1>2 DEF ThemeTypes
  <2>2. CASE those # {}
    <3>1. given'[r] = By(r, those)
      BY <2>2, <1>2
    <3> QED BY <3>1, <2>2, ByIsTyped DEF By
  <2> QED BY <2>1, <2>2
<1>4. given' \in [Request -> Answers]
  BY <1>1, <1>2, <1>3 DEF RequestTypes
<1>5. op' \in [Request -> {"save", "unlock", "entry", None}]
  BY DEF BeginEntry, Start, RequestTypes
<1>6. seen' \in [Request -> {"locked", "unlocked"}]
  BY DEF BeginEntry, Start, RequestTypes, ThemeTypes
<1>7. at' \in [Request -> {"idle", "write", "unlock", "standalone", "open",
                           "merge", "commit", "done"}]
  BY DEF BeginEntry, Goto, RequestTypes
<1>8. PICK c \in Occasion \cup {None} : occasion' = [occasion EXCEPT ![r] = c]
  BY DEF BeginEntry
<1>9. occasion' \in [Request -> Occasion \cup {None}]
  BY <1>8 DEF RequestTypes
<1>10. RequestTypes'
  BY <1>4, <1>5, <1>6, <1>7, <1>9 DEF BeginEntry, RequestTypes
<1>11. Moves(r, "unlock")
  BY <1>1, <1>8 DEF BeginEntry, Start, Goto, RequestTypes, Moves
<1>12. at[r] = "idle" /\ op'[r] = "entry" /\ seen'[r] = theme.state
  BY DEF BeginEntry, Start, RequestTypes
<1> QED BY <1>3, <1>10, <1>11, <1>12

LEMMA UnlockTypes ==
    ASSUME RequestTypes, NEW r \in Request, Unlock(r)
    PROVE  RequestTypes' /\ Moves(r, "standalone") /\ at[r] = "unlock"
BY DEF Unlock, Goto, RequestTypes, Moves

LEMMA EnsureStandaloneTypes ==
    ASSUME RequestTypes, NEW r \in Request, EnsureStandalone(r)
    PROVE  RequestTypes' /\ Moves(r, "open") /\ at[r] = "standalone"
BY DEF EnsureStandalone, Goto, RequestTypes, Moves

LEMMA ReadAnswersTypes ==
    ASSUME RequestTypes, ThemeTypes, NEW r \in Request, ReadAnswers(r), open[r] \in Row
    PROVE  /\ RequestTypes' /\ Moves(r, "commit") /\ at[r] = "merge"
           /\ basis'[r] = row[open[r]].answers
<1>1. row[open[r]].answers \in Answers
  BY DEF ThemeTypes, Tribute
<1>2. basis' \in [Request -> Answers] /\ basis'[r] = row[open[r]].answers
  BY <1>1 DEF ReadAnswers, RequestTypes
<1>3. at' \in [Request -> {"idle", "write", "unlock", "standalone", "open",
                           "merge", "commit", "done"}]
  BY DEF ReadAnswers, Goto, RequestTypes
<1>4. Moves(r, "commit") /\ at[r] = "merge"
  BY DEF ReadAnswers, Goto, RequestTypes, Moves
<1> QED BY <1>2, <1>3, <1>4 DEF ReadAnswers, RequestTypes

\* Row i, which was not there, is r's draft for c, seen by no other transaction.
Inserts(r, i, c) ==
    /\ i \in Row /\ row[i].status = "none" /\ c \in Occasion \cup {None}
    /\ \E v \in 0 .. MaxVersion : row' = [row EXCEPT ![i] = Draft(c, v, r)]

LEMMA StandaloneRows ==
    ASSUME NEW r \in Request, EnsureStandalone(r)
    PROVE  \/ row' = row
           \/ /\ \E i \in Row : Inserts(r, i, None)
              /\ \A j \in Visible(r) : row[j].campaign # None
<1>1. CASE \E i \in Visible(r) : row[i].campaign = None
  BY <1>1 DEF EnsureStandalone
<1>2. CASE ~ \E i \in Visible(r) : row[i].campaign = None
  <2>1. Spare # {} /\ row' = [row EXCEPT ![Min(Spare)] = Draft(None, 0, r)]
    BY <1>2 DEF EnsureStandalone
  <2>2. Min(Spare) \in Row /\ row[Min(Spare)].status = "none"
    BY <2>1, SpareRow
  <2>3. 0 \in 0 .. MaxVersion
    BY ConstantsAssumption
  <2>4. Inserts(r, Min(Spare), None)
    BY <2>1, <2>2, <2>3 DEF Inserts
  <2> QED BY <1>2, <2>2, <2>4
<1> QED BY <1>1, <1>2

LEMMA OpenRows ==
    ASSUME ThemeTypes, RequestTypes, NEW r \in Request, EnsureOpen(r)
    PROVE  \/ /\ row' = row
              /\ open' = [open EXCEPT ![r] = open'[r]] /\ open'[r] \in Visible(r)
           \/ /\ Inserts(r, open'[r], occasion[r])
              /\ open' = [open EXCEPT ![r] = open'[r]]
              /\ \A j \in OpenAmong(Visible(r)) :
                    occasion[r] # None /\ row[j].campaign # occasion[r]
<1> DEFINE c     == occasion[r]
           found == OpenRow(Visible(r), c)
           fits  == {i \in OpenAmong(Visible(r)) : c # None => OfOccasion(i, c)}
<1>1. Visible(r) \in SUBSET Row
  BY DEF Visible
<1>2. (found = 0 /\ fits = {}) \/ (found \in fits /\ found # 0)
  BY <1>1, Lookup
<1>3. c \in Occasion \cup {None}
  BY DEF RequestTypes
<1>4. CASE found # 0
  <2>1. found \in Visible(r)
    BY <1>2, <1>4 DEF OpenAmong
  <2>2. open' = [open EXCEPT ![r] = found] /\ row' = row
    BY <1>4 DEF EnsureOpen
  <2>3. open'[r] = found
    BY <2>2 DEF RequestTypes
  <2> QED BY <2>1, <2>2, <2>3
<1>5. CASE found = 0
  <2>1. /\ Spare # {}
        /\ open' = [open EXCEPT ![r] = Min(Spare)]
        /\ row' = [row EXCEPT ![Min(Spare)] = Draft(c, IF c = None THEN 0 ELSE version[c], r)]
    BY <1>5 DEF EnsureOpen
  <2>2. Min(Spare) \in Row /\ row[Min(Spare)].status = "none" /\ open'[r] = Min(Spare)
    BY <2>1, SpareRow DEF RequestTypes
  <2>3. (IF c = None THEN 0 ELSE version[c]) \in 0 .. MaxVersion
    <3>1. 0 \in 0 .. MaxVersion
      BY ConstantsAssumption
    <3> QED BY <3>1, <1>3 DEF ThemeTypes
  <2>4. Inserts(r, Min(Spare), c)
    BY <2>1, <2>2, <2>3, <1>3 DEF Inserts
  <2>5. \A j \in OpenAmong(Visible(r)) : c # None /\ row[j].campaign # c
    <3>1. fits = {}
      BY <1>2, <1>5
    <3> QED BY <3>1 DEF OfOccasion
  <2> QED BY <2>1, <2>2, <2>4, <2>5
<1> QED BY <1>4, <1>5

\* The row inserted, and the others.
LEMMA Inserted ==
    ASSUME ThemeTypes, NEW r \in Request, NEW i, NEW c, Inserts(r, i, c)
    PROVE  /\ row' \in [Row -> Tribute]
           /\ row'[i].status = "draft" /\ row'[i].campaign = c
           /\ row'[i].tx = r /\ row'[i].answers = Blank
           /\ \A j \in Row \ {i} : row'[j] = row[j]
<1>1. PICK v \in 0 .. MaxVersion : row' = [row EXCEPT ![i] = Draft(c, v, r)]
  BY DEF Inserts
<1>2. i \in Row /\ c \in Occasion \cup {None}
  BY DEF Inserts
<1>3. Draft(c, v, r) \in Tribute
  BY <1>2, DraftIsTyped
<1>4. row'[i] = Draft(c, v, r)
  BY <1>1, <1>2 DEF ThemeTypes
<1>5. row' \in [Row -> Tribute] /\ \A j \in Row \ {i} : row'[j] = row[j]
  BY <1>1, <1>2, <1>3 DEF ThemeTypes
<1> QED BY <1>4, <1>5 DEF Draft

LEMMA EnsureOpenTypes ==
    ASSUME ThemeTypes, RequestTypes, NEW r \in Request, EnsureOpen(r)
    PROVE  /\ RequestTypes' /\ at[r] = "open"
           /\ Moves(r, IF given[r] = Blank THEN "commit" ELSE "merge")
<1>1. open' = [open EXCEPT ![r] = open'[r]] /\ open'[r] \in Row
  BY OpenRows DEF Visible, Inserts
<1>2. open' \in [Request -> Row \cup {0}]
  BY <1>1 DEF RequestTypes
<1>3. at' \in [Request -> {"idle", "write", "unlock", "standalone", "open",
                           "merge", "commit", "done"}]
  BY DEF EnsureOpen, Goto, RequestTypes
<1>4. RequestTypes'
  BY <1>2, <1>3 DEF EnsureOpen, RequestTypes
<1>5. at[r] = "open" /\ Moves(r, IF given[r] = Blank THEN "commit" ELSE "merge")
  BY <1>1 DEF EnsureOpen, Goto, RequestTypes, Moves
<1> QED BY <1>4, <1>5

\* What a commit leaves.
LEMMA CommitRows ==
    ASSUME ThemeTypes, RequestTypes, NEW r \in Request, Commit(r), open[r] \in Row
    PROVE  /\ row' \in [Row -> Tribute] /\ last' \in [Row -> Answers]
           /\ \A i \in Row :
                /\ row'[i].status = row[i].status /\ row'[i].campaign = row[i].campaign
                /\ row'[i].tx = IF row[i].tx = r THEN None ELSE row[i].tx
                /\ row'[i].answers = IF i = open[r] /\ given[r] # Blank
                                     THEN Merged(basis[r], given[r]) ELSE row[i].answers
                /\ last'[i] = IF i = open[r] THEN Merged(last[i], given[r]) ELSE last[i]
<1> DEFINE new(i) == [row[i] EXCEPT !.tx = IF @ = r THEN None ELSE @,
                                    !.answers = IF i = open[r] /\ given[r] # Blank
                                                THEN Merged(basis[r], given[r]) ELSE @]
<1>1. row' = [i \in Row |-> new(i)] /\ last' = [last EXCEPT ![open[r]] = Merged(@, given[r])]
  BY DEF Commit
<1>2. Merged(basis[r], given[r]) \in Answers
  BY MergedIsTyped DEF RequestTypes
<1>3. Merged(last[open[r]], given[r]) \in Answers
  BY MergedIsTyped DEF RequestTypes, ThemeTypes
<1>4. ASSUME NEW i \in Row
      PROVE  /\ new(i) \in Tribute
             /\ new(i).status = row[i].status /\ new(i).campaign = row[i].campaign
             /\ new(i).tx = IF row[i].tx = r THEN None ELSE row[i].tx
             /\ new(i).answers = IF i = open[r] /\ given[r] # Blank
                                 THEN Merged(basis[r], given[r]) ELSE row[i].answers
  <2>1. row[i] \in Tribute
    BY DEF ThemeTypes
  <2> QED BY <2>1, <1>2 DEF Tribute
<1>5. last' \in [Row -> Answers]
  BY <1>1, <1>3 DEF ThemeTypes
<1>6. \A i \in Row : last'[i] = IF i = open[r] THEN Merged(last[i], given[r]) ELSE last[i]
  BY <1>1 DEF ThemeTypes
<1>7. row' \in [Row -> Tribute]
  <2> HIDE DEF new
  <2> QED BY <1>1, <1>4
<1>8. \A i \in Row : row'[i] = new(i)
  BY <1>1
<1> HIDE DEF new
<1> QED BY <1>4, <1>5, <1>6, <1>7, <1>8

\* What a roll-back leaves.
LEMMA RollBackRows ==
    ASSUME ThemeTypes, NEW r \in Request, RollBack(r)
    PROVE  /\ row' \in [Row -> Tribute]
           /\ \A i \in Row : row'[i] = IF row[i].tx = r THEN Unused ELSE row[i]
BY UnusedIsTyped DEF RollBack, ThemeTypes

\* A render changes the status of one row that everyone sees.
LEMMA RenderRows ==
    ASSUME ThemeTypes, NEW i \in Row, NEW from,
           NEW to \in {"generating", "complete", "failed"}, Render(i, from, to)
    PROVE  /\ row' \in [Row -> Tribute]
           /\ \A j \in Row \ {i} : row'[j] = row[j]
           /\ row[i].tx = None /\ row'[i].tx = None /\ row[i].status \in from
           /\ row'[i].status = to /\ row'[i].campaign = row[i].campaign
           /\ row'[i].answers = row[i].answers
<1>1. row[i] \in Tribute /\ row' = [row EXCEPT ![i].status = to]
  BY DEF Render, ThemeTypes
<1>2. row'[i] = [row[i] EXCEPT !.status = to] /\ \A j \in Row \ {i} : row'[j] = row[j]
  BY <1>1 DEF ThemeTypes
<1>3. [row[i] EXCEPT !.status = to] \in Tribute
  BY <1>1 DEF Tribute
<1>4. row' \in [Row -> Tribute]
  BY <1>1, <1>2, <1>3 DEF ThemeTypes
<1> QED BY <1>1, <1>2, <1>4 DEF Render, Tribute

-----------------------------------------------------------------------------
(* The inductive invariant.                                                 *)

\* Some answer is the request's own: it did not promote the draft.
Brings(r) == \E q \in Question : given[r][q] = r

\* What a request is at each step, and the row it writes to, which it sees.
Requests ==
    \A r \in Request :
        /\ at[r] \in {"idle", "done"} => op[r] = None
        /\ at[r] = "write" => op[r] \in {"save", "unlock"} /\ (op[r] = "save" => Brings(r))
        /\ at[r] = "unlock" \/ Inside(r) => op[r] = "entry"
        /\ at[r] \in {"merge", "commit"} => open[r] \in Visible(r)

\* Until the first unlock no answers but the draft's are there, and a session
\* start has the theme row locked exactly if it may write.
Locks ==
    /\ theme.state = "locked" => theme.answers = Blank
    /\ \A r \in Request : Inside(r) => (lock = r <=> ~Bare(r))

\* A row that one transaction sees has no answers yet, and the others have
\* those that were committed to them.
Rows ==
    \A i \in Row :
        /\ row[i].status = "none" => row[i].tx = None /\ row[i].answers = Blank
        /\ row[i].tx # None => row[i].status = "draft" /\ row[i].answers = Blank
        /\ row[i].answers = last[i]

\* Answers that were read to be added to are still the row's.
Bases ==
    \A r \in Request :
        at[r] = "commit" /\ given[r] # Blank => basis[r] = row[open[r]].answers

\* Who was not overtaken has a true picture of the theme.
Current ==
    \A r \in Request \ stale :
        /\ at[r] = "write" /\ op[r] = "unlock" => theme.state = "locked"
        /\ at[r] = "unlock" \/ lock = r =>
              seen[r] = theme.state /\ (Brings(r) \/ given[r] = theme.draft)

\* Session starts are serialised, but for those recorded as not.
Alone == ~unserialised => \A r, s \in Request : Inside(r) /\ Inside(s) => r = s

\* TwinsNeedALocklessEntry, of rows not yet committed too.
NoTwins ==
    (\E i, j \in Row : /\ i # j /\ row[i].campaign = row[j].campaign
                       /\ row[i].status = "draft" /\ row[j].status = "draft")
    => unserialised

\* A theme starts with the types, and nobody has come.
LEMMA TypesStart == Init => TypeOK /\ Requests
<1> SUFFICES ASSUME Init PROVE TypeOK /\ Requests
  OBVIOUS
<1>1. PICK first \in {Unused, Draft(None, 0, None)} :
            row = [i \in Row |-> IF i = 1 THEN first ELSE Unused]
  BY DEF Init
<1>2. 0 \in 0 .. MaxVersion
  BY ConstantsAssumption
<1>3. first \in Tribute /\ first.tx = None
  BY <1>2, UnusedIsTyped, DraftIsTyped DEF Unused, Draft
<1>4. row \in [Row -> Tribute] /\ \A i \in Row : row[i].tx = None
  BY <1>1, <1>3, UnusedIsTyped DEF Unused
<1>5. ThemeTypes
  BY <1>2, <1>4, BlankIsTyped DEF Init, ThemeTypes
<1>6. RequestTypes /\ HistoryTypes
  BY BlankIsTyped DEF Init, RequestTypes, HistoryTypes
<1>7. Holders
  BY <1>4 DEF Init, Holders
<1>8. Requests
  BY DEF Init, Requests, Inside
<1> QED BY <1>5, <1>6, <1>7, <1>8, TypeOKParts

LEMMA NoSelf == \A r \in Request : r # None
BY ConstantsAssumption

LEMMA WritingRow ==
    ASSUME Requests, NEW r \in Request, at[r] \in {"merge", "commit"}
    PROVE  open[r] \in Row
BY DEF Requests, Visible

LEMMA RequestTypesStep ==
    ASSUME TypeOK, Requests, [Next]_vars
    PROVE  RequestTypes'
<1> USE TypeOKParts
<1>1. ASSUME NEW r \in Request, BeginSave(r) PROVE RequestTypes'
  BY <1>1, BeginSaveTypes
<1>2. ASSUME NEW r \in Request, Save(r) PROVE RequestTypes'
  BY <1>2, EndTypes DEF Save
<1>3. ASSUME NEW r \in Request, FindRich(r) PROVE RequestTypes'
  BY <1>3, FindRichTypes
<1>4. ASSUME NEW r \in Request, AutoUnlock(r) PROVE RequestTypes'
  BY <1>4, EndTypes DEF AutoUnlock
<1>5. ASSUME NEW r \in Request, BeginEntry(r) PROVE RequestTypes'
  BY <1>5, BeginEntryTypes
<1>6. ASSUME NEW r \in Request, Unlock(r) PROVE RequestTypes'
  BY <1>6, UnlockTypes
<1>7. ASSUME NEW r \in Request, EnsureStandalone(r) PROVE RequestTypes'
  BY <1>7, EnsureStandaloneTypes
<1>8. ASSUME NEW r \in Request, EnsureOpen(r) PROVE RequestTypes'
  BY <1>8, EnsureOpenTypes
<1>9. ASSUME NEW r \in Request, ReadAnswers(r) PROVE RequestTypes'
  BY <1>9, ReadAnswersTypes, WritingRow DEF ReadAnswers
<1>10. ASSUME NEW r \in Request, Commit(r) PROVE RequestTypes'
  BY <1>10, EndTypes DEF Commit
<1>11. ASSUME NEW r \in Request, RollBack(r) PROVE RequestTypes'
  BY <1>11, EndTypes DEF RollBack
<1>12. ASSUME UNCHANGED request PROVE RequestTypes'
  BY <1>12 DEF RequestTypes, request
<1> QED BY <1>1, <1>2, <1>3, <1>4, <1>5, <1>6, <1>7, <1>8, <1>9, <1>10, <1>11, <1>12
        DEF Next, Entry, Render, EditCampaign, vars

LEMMA ThemeTypesStep ==
    ASSUME TypeOK, Requests, [Next]_vars
    PROVE  ThemeTypes'
<1> USE TypeOKParts
<1>1. ASSUME NEW r \in Request, BeginSave(r) PROVE ThemeTypes'
  BY <1>1 DEF BeginSave, ThemeTypes, history
<1>2. ASSUME NEW r \in Request, Save(r) PROVE ThemeTypes'
  <2>1. given[r] \in Answers
    BY DEF RequestTypes
  <2> QED BY <1>2, <2>1 DEF Save, ThemeTypes
<1>3. ASSUME NEW r \in Request, FindRich(r) PROVE ThemeTypes'
  BY <1>3 DEF FindRich, ThemeTypes, history
<1>4. ASSUME NEW r \in Request, AutoUnlock(r) PROVE ThemeTypes'
  BY <1>4, BlankIsTyped DEF AutoUnlock, Promoted, ThemeTypes
<1>5. ASSUME NEW r \in Request, BeginEntry(r) PROVE ThemeTypes'
  BY <1>5 DEF BeginEntry, ThemeTypes, history
<1>6. ASSUME NEW r \in Request, Unlock(r) PROVE ThemeTypes'
  BY <1>6 DEF Unlock, ThemeTypes
<1>7. ASSUME NEW r \in Request, EnsureStandalone(r) PROVE ThemeTypes'
  <2>1. row' \in [Row -> Tribute]
    BY <1>7, StandaloneRows, Inserted DEF ThemeTypes
  <2> QED BY <1>7, <2>1 DEF EnsureStandalone, ThemeTypes, history
<1>8. ASSUME NEW r \in Request, EnsureOpen(r) PROVE ThemeTypes'
  <2>1. row' \in [Row -> Tribute]
    BY <1>8, OpenRows, Inserted DEF ThemeTypes
  <2> QED BY <1>8, <2>1 DEF EnsureOpen, ThemeTypes, history
<1>9. ASSUME NEW r \in Request, ReadAnswers(r) PROVE ThemeTypes'
  BY <1>9 DEF ReadAnswers, ThemeTypes, history
<1>10. ASSUME NEW r \in Request, Commit(r) PROVE ThemeTypes'
  <2>1. row' \in [Row -> Tribute] /\ last' \in [Row -> Answers]
    BY <1>10, CommitRows, WritingRow DEF Commit
  <2>2. given[r] \in Answers
    BY DEF RequestTypes
  <2>3. theme' \in [state : {"locked", "unlocked"}, draft : Answers, answers : Answers]
    BY <1>10, <2>2, BlankIsTyped DEF Commit, ThemeTypes
  <2>4. lock' \in Request \cup {None} /\ version' = version
    BY <1>10 DEF Commit, ThemeTypes
  <2> QED BY <2>1, <2>3, <2>4 DEF ThemeTypes
<1>11. ASSUME NEW r \in Request, RollBack(r) PROVE ThemeTypes'
  <2>1. row' \in [Row -> Tribute]
    BY <1>11, RollBackRows
  <2>2. lock' \in Request \cup {None}
    BY <1>11 DEF RollBack, ThemeTypes
  <2> QED BY <1>11, <2>1, <2>2 DEF RollBack, ThemeTypes, history
<1>12. ASSUME NEW i \in Row, NEW from, NEW to \in {"generating", "complete", "failed"},
              Render(i, from, to)
       PROVE  ThemeTypes'
  <2>1. row' \in [Row -> Tribute]
    BY <1>12, RenderRows
  <2> QED BY <1>12, <2>1 DEF Render, ThemeTypes, history
<1>13. ASSUME NEW c \in Occasion, EditCampaign(c) PROVE ThemeTypes'
  <2>1. version[c] + 1 \in 0 .. MaxVersion
    BY <1>13, ConstantsAssumption DEF EditCampaign, ThemeTypes
  <2>2. version' \in [Occasion -> 0 .. MaxVersion]
    BY <1>13, <2>1 DEF EditCampaign, ThemeTypes
  <2> QED BY <1>13, <2>2 DEF EditCampaign, ThemeTypes, history
<1>14. CASE UNCHANGED vars
  BY <1>14 DEF vars, ThemeTypes, history
<1> QED BY <1>1, <1>2, <1>3, <1>4, <1>5, <1>6, <1>7, <1>8, <1>9, <1>10, <1>11,
           <1>12, <1>13, <1>14
        DEF Next, Entry

LEMMA HistoryTypesStep ==
    ASSUME TypeOK, Requests, [Next]_vars
    PROVE  HistoryTypes'
<1> USE TypeOKParts
<1>1. ASSUME NEW r \in Request, Save(r) PROVE HistoryTypes'
  BY <1>1 DEF Save, Overtakes, HistoryTypes
<1>2. ASSUME NEW r \in Request, AutoUnlock(r) PROVE HistoryTypes'
  <2>1. raced' \in BOOLEAN
    BY <1>2 DEF AutoUnlock
  <2> QED BY <1>2, <2>1 DEF AutoUnlock, Overtakes, HistoryTypes
<1>3. ASSUME NEW r \in Request, Unlock(r) PROVE HistoryTypes'
  <2>1. unserialised' \in BOOLEAN
    BY <1>3 DEF Unlock
  <2> QED BY <1>3, <2>1 DEF Unlock, HistoryTypes
<1>4. ASSUME NEW r \in Request, Commit(r) PROVE HistoryTypes'
  <2>1. CASE lock = r
    <3>1. raced' \in BOOLEAN
      BY <1>4, <2>1 DEF Commit
    <3>2. newest' \in Request \cup {None} /\ stale' \in SUBSET Request
      BY <1>4, <2>1 DEF Commit, Overtakes, HistoryTypes
    <3> QED BY <1>4, <3>1, <3>2 DEF Commit, HistoryTypes
  <2>2. CASE lock # r
    BY <1>4, <2>2 DEF Commit, HistoryTypes
  <2> QED BY <2>1, <2>2
<1>5. ASSUME UNCHANGED history PROVE HistoryTypes'
  BY <1>5 DEF history, HistoryTypes
<1> QED BY <1>1, <1>2, <1>3, <1>4, <1>5
        DEF Next, Entry, BeginSave, FindRich, BeginEntry, EnsureStandalone, EnsureOpen,
            ReadAnswers, RollBack, Render, EditCampaign, vars

\* A row a transaction sees stays until that transaction is done.
LEMMA StaysVisible ==
    ASSUME TypeOK, Requests, [Next]_vars, NEW s \in Request, at'[s] # "done",
           NEW i \in Visible(s)
    PROVE  i \in Visible(s)'
<1> USE TypeOKParts, NoSelf
<1>0. i \in Row /\ row[i].status # "none" /\ row[i].tx \in {None, s} /\ row[i] \in Tribute
  BY DEF Visible, ThemeTypes
<1> SUFFICES row'[i].status # "none" /\ row'[i].tx \in {None, s}
  BY <1>0 DEF Visible
<1>1. ASSUME NEW r \in Request, NEW j, NEW c, Inserts(r, j, c) PROVE row'[i] = row[i]
  BY <1>0, <1>1, Inserted DEF Inserts
<1>2. ASSUME NEW r \in Request, EnsureStandalone(r) PROVE row'[i] = row[i]
  BY <1>1, <1>2, StandaloneRows
<1>3. ASSUME NEW r \in Request, EnsureOpen(r) PROVE row'[i] = row[i]
  BY <1>1, <1>3, OpenRows
<1>4. ASSUME NEW r \in Request, Commit(r)
      PROVE  row'[i].status # "none" /\ row'[i].tx \in {None, s}
  <2>1. open[r] \in Row
    BY <1>4, WritingRow DEF Commit
  <2>2. /\ row'[i].status = row[i].status
        /\ row'[i].tx = IF row[i].tx = r THEN None ELSE row[i].tx
    BY <1>0, <1>4, <2>1, CommitRows
  <2> QED BY <1>0, <2>2
<1>5. ASSUME NEW r \in Request, RollBack(r) PROVE row'[i] = row[i]
  <2>1. at'[r] = "done"
    BY <1>5, EndTypes DEF RollBack, Moves, RequestTypes
  <2>2. r # s /\ row[i].tx # r
    BY <1>0, <2>1
  <2> QED BY <1>0, <1>5, <2>2, RollBackRows
<1>6. ASSUME NEW j \in Row, NEW from, NEW to \in {"generating", "complete", "failed"},
             Render(j, from, to)
      PROVE  row'[i].status # "none" /\ row'[i].tx \in {None, s}
  BY <1>0, <1>6, RenderRows
<1> QED BY <1>0, <1>2, <1>3, <1>4, <1>5, <1>6
        DEF Next, Entry, BeginSave, Save, FindRich, AutoUnlock, BeginEntry, Unlock,
            ReadAnswers, EditCampaign, vars

LEMMA RequestsStep ==
    ASSUME TypeOK, Requests, [Next]_vars
    PROVE  Requests'
<1> USE TypeOKParts
<1> DEFINE Right(s) ==
        /\ at[s] \in {"idle", "done"} => op[s] = None
        /\ at[s] = "write" => op[s] \in {"save", "unlock"} /\ (op[s] = "save" => Brings(s))
        /\ at[s] = "unlock" \/ Inside(s) => op[s] = "entry"
        /\ at[s] \in {"merge", "commit"} => open[s] \in Visible(s)
<1>1. \A s \in Request : Right(s)
  BY DEF Requests
<1>2. ASSUME NEW r \in Request, NEW there, Moves(r, there), NEW s \in Request \ {r}
      PROVE  Right(s)'
  <2>1. /\ at'[s] = at[s] /\ op'[s] = op[s] /\ given'[s] = given[s]
        /\ open'[s] = open[s]
    BY <1>2 DEF Moves, RequestTypes
  <2>2. at[s] \in {"merge", "commit"} => open'[s] \in Visible(s)'
    BY <1>1, <2>1, StaysVisible
  <2> QED BY <1>1, <2>1, <2>2 DEF Inside, Brings
<1>3. ASSUME NEW r \in Request, BeginSave(r) PROVE \A s \in Request : Right(s)'
  <2>1. Right(r)'
    BY <1>3, BeginSaveTypes DEF Moves, RequestTypes, Inside, Brings
  <2> QED BY <1>2, <1>3, <2>1, BeginSaveTypes
<1>4. ASSUME NEW r \in Request, End(r) PROVE \A s \in Request : Right(s)'
  <2>1. Right(r)'
    BY <1>4, EndTypes DEF Moves, RequestTypes, Inside
  <2> QED BY <1>2, <1>4, <2>1, EndTypes
<1>5. ASSUME NEW r \in Request, FindRich(r) PROVE \A s \in Request : Right(s)'
  <2>1. Right(r)'
    BY <1>5, FindRichTypes DEF Moves, RequestTypes, Inside
  <2> QED BY <1>2, <1>5, <2>1, FindRichTypes
<1>6. ASSUME NEW r \in Request, BeginEntry(r) PROVE \A s \in Request : Right(s)'
  <2>1. Right(r)'
    BY <1>6, BeginEntryTypes DEF Moves, RequestTypes, Inside
  <2> QED BY <1>2, <1>6, <2>1, BeginEntryTypes
<1>7. ASSUME NEW r \in Request, Unlock(r) PROVE \A s \in Request : Right(s)'
  <2>1. op'[r] = "entry" /\ at'[r] = "standalone"
    BY <1>1, <1>7, UnlockTypes DEF Moves, RequestTypes, Unlock
  <2>2. Right(r)'
    BY <2>1
  <2> QED BY <1>2, <1>7, <2>2, UnlockTypes
<1>8. ASSUME NEW r \in Request, EnsureStandalone(r) PROVE \A s \in Request : Right(s)'
  <2>1. op'[r] = "entry" /\ at'[r] = "open"
    BY <1>1, <1>8, EnsureStandaloneTypes DEF Moves, RequestTypes, EnsureStandalone, Inside
  <2>2. Right(r)'
    BY <2>1
  <2> QED BY <1>2, <1>8, <2>2, EnsureStandaloneTypes
<1>9. ASSUME NEW r \in Request, EnsureOpen(r) PROVE \A s \in Request : Right(s)'
  <2>1. op'[r] = "entry" /\ at'[r] \in {"merge", "commit"}
    BY <1>1, <1>9, EnsureOpenTypes DEF Moves, RequestTypes, EnsureOpen, Inside
  <2>2. open'[r] \in Visible(r)'
    <3>1. CASE row' = row /\ open'[r] \in Visible(r)
      BY <3>1 DEF Visible
    <3>2. CASE Inserts(r, open'[r], occasion[r])
      <4>1. open'[r] \in Row /\ row'[open'[r]].status = "draft" /\ row'[open'[r]].tx = r
        <5>1. PICK j : j = open'[r]
          OBVIOUS
        <5>2. Inserts(r, j, occasion[r])
          BY <3>2, <5>1
        <5>3. j \in Row
          BY <5>2 DEF Inserts
        <5>4. row'[j].status = "draft" /\ row'[j].tx = r
          BY <5>2, Inserted
        <5> QED BY <5>1, <5>3, <5>4
      <4>2. \A j \in Row : row'[j].status # "none" /\ row'[j].tx = r => j \in Visible(r)'
        BY DEF Visible
      <4> QED BY <4>1, <4>2
    <3> QED BY <1>9, <3>1, <3>2, OpenRows
  <2>3. Right(r)'
    BY <2>1, <2>2
  <2> QED BY <1>2, <1>9, <2>3, EnsureOpenTypes
<1>10. ASSUME NEW r \in Request, ReadAnswers(r) PROVE \A s \in Request : Right(s)'
  <2>1. Moves(r, "commit") /\ at[r] = "merge"
    BY <1>10, ReadAnswersTypes, WritingRow DEF ReadAnswers
  <2>2. op'[r] = "entry" /\ at'[r] = "commit" /\ open'[r] \in Visible(r) /\ row' = row
    BY <1>1, <1>10, <2>1 DEF Moves, RequestTypes, ReadAnswers, Inside
  <2>3. Right(r)'
    BY <2>2 DEF Visible
  <2> QED BY <1>2, <2>1, <2>3
<1>11. ASSUME UNCHANGED request PROVE \A s \in Request : Right(s)'
  <2> SUFFICES ASSUME NEW s \in Request PROVE Right(s)'
    OBVIOUS
  <2>1. at'[s] = at[s] /\ op'[s] = op[s] /\ given'[s] = given[s] /\ open'[s] = open[s]
    BY <1>11 DEF request
  <2>2. at[s] \in {"merge", "commit"} => open'[s] \in Visible(s)'
    BY <1>1, <2>1, StaysVisible
  <2> QED BY <1>1, <2>1, <2>2 DEF Inside, Brings
<1>12. \A s \in Request : Right(s)'
  <2> HIDE DEF Right
  <2> QED BY <1>3, <1>4, <1>5, <1>6, <1>7, <1>8, <1>9, <1>10, <1>11
          DEF Next, Entry, Save, AutoUnlock, Commit, RollBack, Render, EditCampaign, vars
<1> QED BY <1>12 DEF Requests

\* Only a commit or a roll-back ends a session start, and one enters by Unlock.
LEMMA InsideStep ==
    ASSUME TypeOK, Requests, [Next]_vars, NEW s \in Request
    PROVE  /\ Inside(s) => Inside(s)' \/ Commit(s) \/ RollBack(s)
           /\ Inside(s)' => Inside(s) \/ Unlock(s)
<1> USE TypeOKParts
<1>1. ASSUME NEW r \in Request, NEW there, Moves(r, there), r # s
      PROVE  Inside(s)' <=> Inside(s)
  <2>1. at'[s] = at[s]
    BY <1>1 DEF Moves, RequestTypes
  <2> QED BY <2>1 DEF Inside
<1>2. ASSUME NEW there, Moves(s, there) PROVE at'[s] = there
  BY <1>2 DEF Moves, RequestTypes
<1> DEFINE Goal == /\ Inside(s) => Inside(s)' \/ Commit(s) \/ RollBack(s)
                   /\ Inside(s)' => Inside(s) \/ Unlock(s)
<1>3. ASSUME NEW r \in Request, BeginSave(r) PROVE Goal
  <2>1. Moves(r, "write") /\ at[r] = "idle"
    BY <1>3, BeginSaveTypes
  <2> QED BY <2>1, <1>1, <1>2 DEF Inside
<1>4. ASSUME NEW r \in Request, Save(r) \/ AutoUnlock(r) PROVE Goal
  <2>1. Moves(r, "done") /\ at[r] = "write"
    BY <1>4, EndTypes DEF Save, AutoUnlock
  <2> QED BY <2>1, <1>1, <1>2 DEF Inside
<1>5. ASSUME NEW r \in Request, FindRich(r) PROVE Goal
  <2>1. Moves(r, "write") /\ at[r] = "idle"
    BY <1>5, FindRichTypes
  <2> QED BY <2>1, <1>1, <1>2 DEF Inside
<1>6. ASSUME NEW r \in Request, BeginEntry(r) PROVE Goal
  <2>1. Moves(r, "unlock") /\ at[r] = "idle"
    BY <1>6, BeginEntryTypes
  <2> QED BY <2>1, <1>1, <1>2 DEF Inside
<1>7. ASSUME NEW r \in Request, Unlock(r) PROVE Goal
  <2>1. Moves(r, "standalone") /\ at[r] = "unlock"
    BY <1>7, UnlockTypes
  <2> QED BY <2>1, <1>1, <1>2, <1>7 DEF Inside
<1>8. ASSUME NEW r \in Request, EnsureStandalone(r) PROVE Goal
  <2>1. Moves(r, "open") /\ at[r] = "standalone"
    BY <1>8, EnsureStandaloneTypes
  <2> QED BY <2>1, <1>1, <1>2 DEF Inside
<1>9. ASSUME NEW r \in Request, EnsureOpen(r) PROVE Goal
  <2>1. Moves(r, IF given[r] = Blank THEN "commit" ELSE "merge") /\ at[r] = "open"
    BY <1>9, EnsureOpenTypes
  <2> QED BY <2>1, <1>1, <1>2 DEF Inside
<1>10. ASSUME NEW r \in Request, ReadAnswers(r) PROVE Goal
  <2>1. Moves(r, "commit") /\ at[r] = "merge"
    BY <1>10, ReadAnswersTypes, WritingRow DEF ReadAnswers
  <2> QED BY <2>1, <1>1, <1>2 DEF Inside
<1>11. ASSUME NEW r \in Request, Commit(r) PROVE Goal
  <2>1. Moves(r, "done") /\ at[r] = "commit"
    BY <1>11, EndTypes DEF Commit
  <2> QED BY <2>1, <1>1, <1>2, <1>11 DEF Inside
<1>12. ASSUME NEW r \in Request, RollBack(r) PROVE Goal
  <2>1. Moves(r, "done")
    BY <1>12, EndTypes DEF RollBack
  <2> QED BY <2>1, <1>1, <1>2, <1>12 DEF Inside
<1>13. ASSUME UNCHANGED request PROVE Goal
  BY <1>13 DEF request, Inside
<1> QED BY <1>3, <1>4, <1>5, <1>6, <1>7, <1>8, <1>9, <1>10, <1>11, <1>12, <1>13
        DEF Next, Entry, Render, EditCampaign, vars

\* Who takes and who gives back the lock of the theme row.
LEMMA LockStep ==
    ASSUME TypeOK, Requests, [Next]_vars
    PROVE  \/ lock' = lock /\ (lock \in Request => ~Commit(lock) /\ ~RollBack(lock))
           \/ \E r \in Request : Unlock(r) /\ ~Lockless(r) /\ lock = None /\ lock' = r
           \/ lock' = None /\ lock \in Request /\ (Commit(lock) \/ RollBack(lock))
<1> USE TypeOKParts, NoSelf
<1>1. CASE lock \in Request /\ (Commit(lock) \/ RollBack(lock))
  BY <1>1 DEF Commit, RollBack
<1>2. CASE ~ (lock \in Request /\ (Commit(lock) \/ RollBack(lock)))
  <2>1. ASSUME NEW r \in Request, Unlock(r)
        PROVE  lock' = lock \/ (~Lockless(r) /\ lock = None /\ lock' = r)
    BY <2>1 DEF Unlock
  <2>2. ASSUME NEW r \in Request, Commit(r) \/ RollBack(r) PROVE lock' = lock
    <3>1. lock # r
      BY <1>2, <2>2
    <3> QED BY <2>2, <3>1 DEF Commit, RollBack
  <2> QED BY <1>2, <2>1, <2>2
          DEF Next, Entry, BeginSave, Save, FindRich, AutoUnlock, BeginEntry,
              EnsureStandalone, EnsureOpen, ReadAnswers, Render, EditCampaign, vars
<1> QED BY <1>1, <1>2

\* A row becomes a transaction's own when that inserts it, and stays so to its end.
LEMMA OwnRowStep ==
    ASSUME TypeOK, Requests, [Next]_vars, NEW i \in Row, row'[i].tx # None
    PROVE  \/ /\ row'[i].tx = row[i].tx /\ row'[i] = row[i]
              /\ ~Commit(row[i].tx) /\ ~RollBack(row[i].tx)
           \/ \E r \in Request : /\ EnsureStandalone(r) \/ EnsureOpen(r)
                                 /\ row'[i].tx = r /\ row'[i].status = "draft"
                                 /\ row'[i].answers = Blank
<1> USE TypeOKParts, NoSelf
<1> DEFINE Kept == /\ row'[i].tx = row[i].tx /\ row'[i] = row[i]
                   /\ ~Commit(row[i].tx) /\ ~RollBack(row[i].tx)
           Own(r) == /\ row'[i].tx = r /\ row'[i].status = "draft"
                     /\ row'[i].answers = Blank
<1>0. row[i] \in Tribute
  BY DEF ThemeTypes
<1>1. ASSUME NEW x \in Request, row[i].tx = x, Commit(x) \/ RollBack(x) PROVE FALSE
  <2>1. CASE Commit(x)
    <3>1. open[x] \in Row
      BY <2>1, WritingRow DEF Commit
    <3>2. row'[i].tx = None
      BY <2>1, <1>1, <3>1, CommitRows
    <3> QED BY <3>2
  <2>2. CASE RollBack(x)
    <3>1. row'[i] = Unused
      BY <2>2, <1>1, RollBackRows
    <3> QED BY <3>1 DEF Unused
  <2> QED BY <1>1, <2>1, <2>2
<1>2. ASSUME row'[i] = row[i] PROVE Kept
  <2>1. row[i].tx \in Request
    BY <1>0, <1>2 DEF Tribute
  <2> QED BY <1>1, <1>2, <2>1
<1>3. ASSUME NEW r \in Request, NEW j, NEW c, Inserts(r, j, c) PROVE Kept \/ Own(r)
  <2>1. CASE j = i
    BY <2>1, <1>3, Inserted
  <2>2. CASE j # i
    BY <2>2, <1>2, <1>3, Inserted
  <2> QED BY <2>1, <2>2
<1>4. ASSUME NEW r \in Request, EnsureStandalone(r) PROVE Kept \/ Own(r)
  BY <1>2, <1>3, <1>4, StandaloneRows
<1>5. ASSUME NEW r \in Request, EnsureOpen(r) PROVE Kept \/ Own(r)
  BY <1>2, <1>3, <1>5, OpenRows
<1>6. ASSUME NEW r \in Request, Commit(r) PROVE Kept
  <2>1. open[r] \in Row /\ Inside(r)
    BY <1>6, WritingRow DEF Commit, Inside
  <2>2. row[i].tx # r
    BY <1>1, <1>6
  <2>3. row'[i].tx = row[i].tx /\ row'[i].status = row[i].status
    BY <1>6, <2>1, <2>2, CommitRows
  <2>4. row[i].tx \in Request
    BY <1>0, <2>3 DEF Tribute
  <2>5. i # open[r]
    BY <1>6, <2>2, <2>4 DEF Commit, Requests, Visible
  <2>6. row'[i].answers = row[i].answers /\ row'[i].campaign = row[i].campaign
    BY <1>6, <2>1, <2>5, CommitRows
  <2>7. row'[i] = row[i]
    <3>1. row' = [j \in Row |-> [row[j] EXCEPT !.tx = IF @ = r THEN None ELSE @,
                               !.answers = IF j = open[r] /\ given[r] # Blank
                                           THEN Merged(basis[r], given[r]) ELSE @]]
      BY <1>6 DEF Commit
    <3>2. row'[i] = [row[i] EXCEPT !.tx = row[i].tx, !.answers = row[i].answers]
      BY <2>2, <2>5, <3>1
    <3> QED BY <1>0, <3>2 DEF Tribute
  <2> QED BY <1>2, <2>7
<1>7. ASSUME NEW r \in Request, RollBack(r) PROVE Kept
  <2>1. row'[i] = row[i]
    BY <1>1, <1>7, RollBackRows
  <2> QED BY <1>2, <2>1
<1>8. ASSUME NEW j \in Row, NEW from, NEW to \in {"generating", "complete", "failed"},
             Render(j, from, to)
      PROVE  Kept
  <2>1. i # j
    BY <1>8, RenderRows
  <2>2. row'[i] = row[i]
    BY <1>8, <2>1, RenderRows
  <2> QED BY <1>2, <2>2
<1>9. ASSUME UNCHANGED row PROVE Kept
  <2>1. row'[i] = row[i]
    BY <1>9
  <2> QED BY <1>2, <2>1
<1> HIDE DEF Kept, Own
<1>10. Kept \/ \E r \in Request : (EnsureStandalone(r) \/ EnsureOpen(r)) /\ Own(r)
  BY <1>4, <1>5, <1>6, <1>7, <1>8, <1>9
     DEF Next, Entry, BeginSave, Save, FindRich, AutoUnlock, BeginEntry, Unlock,
         ReadAnswers, EditCampaign, vars
<1> QED BY <1>10 DEF Kept, Own

LEMMA HoldersStep ==
    ASSUME TypeOK, Requests, [Next]_vars
    PROVE  Holders'
<1> USE TypeOKParts, NoSelf
<1>1. (theme.state = "unlocked" => theme.draft = Blank)'
  <2>1. ASSUME NEW r \in Request, Save(r) PROVE (theme.state = "unlocked" => theme.draft = Blank)'
    BY <2>1 DEF Save, Holders, ThemeTypes
  <2>2. ASSUME NEW r \in Request, AutoUnlock(r) PROVE (theme.state = "unlocked" => theme.draft = Blank)'
    BY <2>2 DEF AutoUnlock, Promoted, Holders, ThemeTypes
  <2>3. ASSUME NEW r \in Request, Commit(r) PROVE (theme.state = "unlocked" => theme.draft = Blank)'
    BY <2>3 DEF Commit, Holders, ThemeTypes
  <2>4. ASSUME UNCHANGED theme PROVE (theme.state = "unlocked" => theme.draft = Blank)'
    BY <2>4 DEF Holders
  <2> QED BY <2>1, <2>2, <2>3, <2>4
          DEF Next, Entry, BeginSave, FindRich, BeginEntry, Unlock, EnsureStandalone,
              EnsureOpen, ReadAnswers, RollBack, Render, EditCampaign, vars
<1>2. ASSUME lock' # None PROVE \A s \in Request : s = lock' => Inside(s)'
  <2>1. CASE lock' = lock /\ (lock \in Request => ~Commit(lock) /\ ~RollBack(lock))
    BY <1>2, <2>1, InsideStep DEF Holders, ThemeTypes
  <2>2. ASSUME NEW r \in Request, Unlock(r), lock' = r PROVE Inside(r)'
    BY <2>2, UnlockTypes DEF Moves, RequestTypes, Inside
  <2> QED BY <1>2, <2>1, <2>2, LockStep
<1>3. ASSUME NEW i \in Row, row'[i].tx # None
      PROVE  \A s \in Request : s = row'[i].tx => Inside(s)'
  <2>1. CASE row'[i].tx = row[i].tx /\ ~Commit(row[i].tx) /\ ~RollBack(row[i].tx)
    BY <1>3, <2>1, InsideStep DEF Holders
  <2>2. ASSUME NEW r \in Request, EnsureStandalone(r) \/ EnsureOpen(r) PROVE Inside(r)'
    <3>1. Inside(r)
      BY <2>2, EnsureStandaloneTypes, EnsureOpenTypes DEF Inside
    <3>2. ~Commit(r) /\ ~RollBack(r)
      <4>1. at'[r] # "done"
        BY <2>2, EnsureStandaloneTypes, EnsureOpenTypes DEF Moves, RequestTypes
      <4>2. End(r) => at'[r] = "done"
        BY DEF End, Goto, RequestTypes
      <4> QED BY <4>1, <4>2 DEF Commit, RollBack
    <3> QED BY <3>1, <3>2, InsideStep
  <2> QED BY <1>3, <2>1, <2>2, OwnRowStep
<1>4. lock' \in Request \cup {None} /\ \A i \in Row : row'[i].tx \in Request \cup {None}
  BY ThemeTypesStep DEF ThemeTypes, Tribute
<1>5. (lock # None => Inside(lock))'
  BY <1>2, <1>4
<1>6. (\A i \in Row : row[i].tx # None => Inside(row[i].tx))'
  BY <1>3, <1>4
<1> QED BY <1>1, <1>5, <1>6 DEF Holders

LEMMA TypesStep == TypeOK /\ Requests /\ [Next]_vars => (TypeOK /\ Requests)'
<1> SUFFICES ASSUME TypeOK, Requests, [Next]_vars PROVE (TypeOK /\ Requests)'
  OBVIOUS
<1>1. ThemeTypes' /\ RequestTypes' /\ HistoryTypes' /\ Holders' /\ Requests'
  BY ThemeTypesStep, RequestTypesStep, HistoryTypesStep, HoldersStep, RequestsStep
<1>2. TypeOK'
  BY <1>1 DEF TypeOK, ThemeTypes, RequestTypes, HistoryTypes, Holders, Tribute
<1> QED BY <1>1, <1>2

\* The types hold, and only who is inside a transaction has the theme row locked
\* or rows of its own.
THEOREM TypesHold == Spec => []TypeOK
<1>1. TypeOK /\ Requests /\ UNCHANGED vars => (TypeOK /\ Requests)'
  BY TypesStep
<1>2. Spec => [](TypeOK /\ Requests)
  BY TypesStart, TypesStep, PTL DEF Spec
<1> QED BY <1>2, PTL

-----------------------------------------------------------------------------
(* The lock of the theme row.                                               *)

\* What a request looked at and brings stays as it is until it ends, and how it
\* came to the step it is at.
LEMMA LocalsStep ==
    ASSUME TypeOK, Requests, [Next]_vars, NEW s \in Request
    PROVE  /\ at[s] # "idle" /\ at'[s] # "done" =>
                 op'[s] = op[s] /\ given'[s] = given[s] /\ seen'[s] = seen[s]
           /\ at'[s] = "write" => at[s] = "write" \/ BeginSave(s) \/ FindRich(s)
           /\ at'[s] = "unlock" => at[s] = "unlock" \/ BeginEntry(s)
<1> USE TypeOKParts
<1> DEFINE Goal ==
           /\ at[s] # "idle" /\ at'[s] # "done" =>
                 op'[s] = op[s] /\ given'[s] = given[s] /\ seen'[s] = seen[s]
           /\ at'[s] = "write" => at[s] = "write" \/ BeginSave(s) \/ FindRich(s)
           /\ at'[s] = "unlock" => at[s] = "unlock" \/ BeginEntry(s)
<1>1. ASSUME NEW r \in Request, NEW there, Moves(r, there), r # s PROVE Goal
  <2>1. at'[s] = at[s] /\ op'[s] = op[s] /\ given'[s] = given[s] /\ seen'[s] = seen[s]
    BY <1>1 DEF Moves, RequestTypes
  <2> QED BY <2>1
<1>2. ASSUME NEW there, Moves(s, there) PROVE at'[s] = there
  BY <1>2 DEF Moves, RequestTypes
<1>3. ASSUME NEW r \in Request, BeginSave(r) PROVE Goal
  <2>1. Moves(r, "write") /\ at[r] = "idle"
    BY <1>3, BeginSaveTypes
  <2> QED BY <2>1, <1>1, <1>2, <1>3
<1>4. ASSUME NEW r \in Request, End(r) PROVE Goal
  <2>1. Moves(r, "done")
    BY <1>4, EndTypes
  <2> QED BY <2>1, <1>1, <1>2
<1>5. ASSUME NEW r \in Request, FindRich(r) PROVE Goal
  <2>1. Moves(r, "write") /\ at[r] = "idle"
    BY <1>5, FindRichTypes
  <2> QED BY <2>1, <1>1, <1>2, <1>5
<1>6. ASSUME NEW r \in Request, BeginEntry(r) PROVE Goal
  <2>1. Moves(r, "unlock") /\ at[r] = "idle"
    BY <1>6, BeginEntryTypes
  <2> QED BY <2>1, <1>1, <1>2, <1>6
<1>7. ASSUME NEW r \in Request, Unlock(r) PROVE Goal
  <2>1. Moves(r, "standalone")
    BY <1>7, UnlockTypes
  <2>2. op' = op /\ given' = given /\ seen' = seen
    BY <1>7 DEF Unlock
  <2> QED BY <2>1, <2>2, <1>1, <1>2
<1>8. ASSUME NEW r \in Request, EnsureStandalone(r) PROVE Goal
  <2>1. Moves(r, "open")
    BY <1>8, EnsureStandaloneTypes
  <2>2. op' = op /\ given' = given /\ seen' = seen
    BY <1>8 DEF EnsureStandalone
  <2> QED BY <2>1, <2>2, <1>1, <1>2
<1>9. ASSUME NEW r \in Request, EnsureOpen(r) PROVE Goal
  <2>1. Moves(r, IF given[r] = Blank THEN "commit" ELSE "merge")
    BY <1>9, EnsureOpenTypes
  <2>2. op' = op /\ given' = given /\ seen' = seen
    BY <1>9 DEF EnsureOpen
  <2> QED BY <2>1, <2>2, <1>1, <1>2
<1>10. ASSUME NEW r \in Request, ReadAnswers(r) PROVE Goal
  <2>1. Moves(r, "commit")
    BY <1>10, ReadAnswersTypes, WritingRow DEF ReadAnswers
  <2>2. op' = op /\ given' = given /\ seen' = seen
    BY <1>10 DEF ReadAnswers
  <2> QED BY <2>1, <2>2, <1>1, <1>2
<1>11. ASSUME UNCHANGED request PROVE Goal
  BY <1>11 DEF request
<1> HIDE DEF Goal
<1>12. Goal
  BY <1>3, <1>4, <1>5, <1>6, <1>7, <1>8, <1>9, <1>10, <1>11
     DEF Next, Entry, Save, AutoUnlock, Commit, RollBack, Render, EditCampaign, vars
<1> QED BY <1>12 DEF Goal

\* The theme is written by those who record whom they overtake.
LEMMA ThemeStep ==
    ASSUME TypeOK, Requests, [Next]_vars
    PROVE  \/ theme' = theme /\ stale' = stale
           \/ \E r \in Request :
                 /\ Overtakes(r) /\ at'[r] = "done" /\ lock' = None
                 /\ Moves(r, "done")
                 /\ \/ Save(r) /\ theme.state = "locked"
                    \/ AutoUnlock(r)
                    \/ Commit(r) /\ lock = r
<1> USE TypeOKParts
<1>1. ASSUME NEW r \in Request, End(r) PROVE at'[r] = "done" /\ Moves(r, "done")
  BY <1>1, EndTypes DEF Moves, RequestTypes
<1>2. ASSUME NEW r \in Request, Save(r)
      PROVE  \/ theme' = theme /\ stale' = stale
             \/ theme.state = "locked" /\ Overtakes(r) /\ lock' = None
  BY <1>2 DEF Save
<1>3. ASSUME NEW r \in Request, AutoUnlock(r) PROVE Overtakes(r) /\ lock' = None
  BY <1>3 DEF AutoUnlock
<1>4. ASSUME NEW r \in Request, Commit(r)
      PROVE  \/ theme' = theme /\ stale' = stale
             \/ lock = r /\ Overtakes(r) /\ lock' = None
  BY <1>4 DEF Commit
<1>5. ASSUME NEW r \in Request, Save(r) \/ AutoUnlock(r) \/ Commit(r) PROVE End(r)
  BY <1>5 DEF Save, AutoUnlock, Commit
<1> QED BY <1>1, <1>2, <1>3, <1>4, <1>5
        DEF Next, Entry, BeginSave, FindRich, BeginEntry, Unlock, EnsureStandalone,
            EnsureOpen, ReadAnswers, RollBack, Render, EditCampaign, vars, history

LEMMA LocksStep ==
    ASSUME TypeOK, Requests, Locks, [Next]_vars
    PROVE  Locks'
<1> USE TypeOKParts, NoSelf
<1>1. (theme.state = "locked" => theme.answers = Blank)'
  <2>1. ASSUME NEW r \in Request, Save(r), theme.state = "locked"
        PROVE  theme'.answers = Blank
    BY <2>1 DEF Save, Locks, ThemeTypes
  <2>2. ASSUME NEW r \in Request, AutoUnlock(r) PROVE theme'.state = "unlocked"
    BY <2>2 DEF AutoUnlock, Promoted, ThemeTypes
  <2>3. ASSUME NEW r \in Request, Commit(r), lock = r PROVE theme'.state = "unlocked"
    BY <2>3 DEF Commit, ThemeTypes
  <2> QED BY <2>1, <2>2, <2>3, ThemeStep DEF Locks
<1>2. ASSUME NEW s \in Request, Inside(s)' PROVE lock' = s <=> ~Bare(s)'
  <2>1. CASE Unlock(s)
    <3>1. Bare(s)' <=> Bare(s)
      BY <2>1 DEF Unlock, Bare
    <3>2. lock # s
      BY <2>1 DEF Unlock, Holders, Inside
    <3> QED BY <2>1, <3>1, <3>2 DEF Unlock, Lockless
  <2>2. CASE Inside(s)
    <3>1. at'[s] # "done" /\ at[s] # "idle"
      BY <1>2, <2>2 DEF Inside
    <3>2. Bare(s)' <=> Bare(s)
      BY <3>1, LocalsStep DEF Bare
    <3>3. ~Unlock(s)
      BY <2>2 DEF Unlock, Inside
    <3>4. ~Commit(s) /\ ~RollBack(s)
      <4>1. End(s) => at'[s] = "done"
        BY DEF End, Goto, RequestTypes
      <4> QED BY <3>1, <4>1 DEF Commit, RollBack
    <3>5. lock' = s <=> lock = s
      BY <3>3, <3>4, LockStep
    <3> QED BY <2>2, <3>2, <3>5 DEF Locks
  <2> QED BY <1>2, <2>1, <2>2, InsideStep
<1> QED BY <1>1, <1>2 DEF Locks

\* Two session starts that bring answers are not inside at once.
LEMMA OneWriter ==
    ASSUME Locks, NEW r \in Request, NEW s \in Request, Inside(r), Inside(s),
           given[r] # Blank, given[s] # Blank
    PROVE  r = s
BY DEF Locks, Bare

LEMMA CurrentStep ==
    ASSUME TypeOK, Requests, Locks, Current, [Next]_vars
    PROVE  Current'
<1> USE TypeOKParts, NoSelf
<1> SUFFICES ASSUME NEW s \in Request, s \notin stale'
             PROVE  /\ at'[s] = "write" /\ op'[s] = "unlock" => theme'.state = "locked"
                    /\ at'[s] = "unlock" \/ lock' = s =>
                          seen'[s] = theme'.state /\ (Brings(s)' \/ given'[s] = theme'.draft)
  BY DEF Current
<1>1. CASE theme' = theme /\ stale' = stale
  <2>1. /\ at[s] = "write" /\ op[s] = "unlock" => theme.state = "locked"
        /\ at[s] = "unlock" \/ lock = s =>
              seen[s] = theme.state /\ (Brings(s) \/ given[s] = theme.draft)
    BY <1>1 DEF Current
  <2>2. ASSUME at'[s] = "write", op'[s] = "unlock" PROVE theme'.state = "locked"
    <3>1. CASE at[s] = "write"
      BY <1>1, <2>1, <2>2, <3>1, LocalsStep
    <3>2. CASE BeginSave(s)
      BY <2>2, <3>2, BeginSaveTypes
    <3>3. CASE FindRich(s)
      BY <1>1, <3>3 DEF FindRich
    <3> QED BY <2>2, <3>1, <3>2, <3>3, LocalsStep
  <2>3. ASSUME at'[s] = "unlock"
        PROVE  seen'[s] = theme'.state /\ (Brings(s)' \/ given'[s] = theme'.draft)
    <3>1. CASE at[s] = "unlock"
      <4>1. seen'[s] = seen[s] /\ given'[s] = given[s]
        BY <2>3, <3>1, LocalsStep
      <4> QED BY <1>1, <2>1, <3>1, <4>1 DEF Brings
    <3>2. CASE BeginEntry(s)
      <4>1. seen'[s] = theme.state
            /\ ((\E q \in Question : given'[s][q] = s) \/ given'[s] = theme.draft)
        BY <3>2, BeginEntryTypes
      <4> QED BY <1>1, <4>1 DEF Brings
    <3> QED BY <2>3, <3>1, <3>2, LocalsStep
  <2>4. ASSUME lock' = s
        PROVE  seen'[s] = theme'.state /\ (Brings(s)' \/ given'[s] = theme'.draft)
    <3>1. lock = s \/ at[s] = "unlock"
      BY <2>4, LockStep DEF Unlock
    <3>2. Inside(s)'
      <4>1. Holders'
        BY HoldersStep
      <4> QED BY <2>4, <4>1 DEF Holders
    <3>3. at[s] # "idle" /\ at'[s] # "done"
      BY <3>1, <3>2 DEF Inside, Holders
    <3>4. seen'[s] = seen[s] /\ given'[s] = given[s]
      BY <3>3, LocalsStep
    <3> QED BY <1>1, <2>1, <3>1, <3>4 DEF Brings
  <2> QED BY <2>2, <2>3, <2>4
<1>2. ASSUME NEW r \in Request, Overtakes(r), at'[r] = "done", lock' = None, Moves(r, "done")
      PROVE  at'[s] # "write" /\ at'[s] # "unlock" /\ lock' # s
  <2>1. CASE s = r
    BY <1>2, <2>1
  <2>2. CASE s # r
    <3>1. at[s] \notin {"unlock", "write"}
      BY <1>2, <2>2 DEF Overtakes
    <3>2. at'[s] = at[s]
      BY <1>2, <2>2 DEF Moves, RequestTypes
    <3> QED BY <1>2, <3>1, <3>2
  <2> QED BY <2>1, <2>2
<1> QED BY <1>1, <1>2, ThemeStep

-----------------------------------------------------------------------------
(* LossNeedsARace.                                                          *)

LossInv == TypeOK /\ Requests /\ Locks /\ Current /\ LossNeedsARace

\* An answer by newest among these.
Stands(answers) == \E q \in Question : newest = answers[q]

LEMMA LossStep ==
    ASSUME TypeOK, Requests, Locks, Current, LossNeedsARace, [Next]_vars
    PROVE  LossNeedsARace'
<1> USE TypeOKParts, NoSelf
<1>0. newest # None => Stands(theme.draft) \/ Stands(theme.answers) \/ raced
  BY DEF LossNeedsARace, Stands
<1>1. ASSUME newest # None PROVE ~Stands(Blank)
  BY <1>1 DEF Stands, Blank
<1>2. ASSUME NEW r \in Request, Save(r) PROVE LossNeedsARace'
  <2>1. CASE theme.state = "locked"
    <3>1. Brings(r)
      BY <1>2 DEF Save, Requests
    <3>2. newest' = r /\ theme'.draft = given[r]
      BY <1>2, <2>1 DEF Save, ThemeTypes
    <3> QED BY <3>1, <3>2 DEF LossNeedsARace, Brings
  <2>2. CASE theme.state # "locked"
    BY <1>2, <2>2 DEF Save, LossNeedsARace
  <2> QED BY <2>1, <2>2
<1>3. ASSUME NEW r \in Request, AutoUnlock(r) PROVE LossNeedsARace'
  <2>1. raced' = (raced \/ r \in stale) /\ newest' = newest /\ theme'.answers = theme.draft
    BY <1>3 DEF AutoUnlock, Promoted, ThemeTypes
  <2>2. CASE raced \/ r \in stale
    BY <2>1, <2>2 DEF LossNeedsARace
  <2>3. CASE ~raced /\ r \notin stale
    <3>1. theme.answers = Blank
      BY <1>3, <2>3 DEF Current, AutoUnlock, Locks
    <3>2. newest # None => Stands(theme.draft)
      BY <1>0, <1>1, <2>3, <3>1
    <3> QED BY <2>1, <3>2 DEF LossNeedsARace, Stands
  <2> QED BY <2>2, <2>3
<1>4. ASSUME NEW r \in Request, Commit(r) PROVE LossNeedsARace'
  <2>1. CASE lock # r
    BY <1>4, <2>1 DEF Commit, LossNeedsARace
  <2>2. CASE lock = r
    <3>1. /\ raced' = (raced \/ r \in stale) /\ theme'.answers = given[r]
          /\ newest' = IF Brings(r) THEN r ELSE newest
      BY <1>4, <2>2 DEF Commit, ThemeTypes, Brings
    <3>2. CASE raced \/ r \in stale
      BY <3>1, <3>2 DEF LossNeedsARace
    <3>3. CASE Brings(r)
      BY <3>1, <3>3 DEF LossNeedsARace, Brings
    <3>4. CASE ~raced /\ r \notin stale /\ ~Brings(r)
      <4>1. seen[r] = theme.state /\ given[r] = theme.draft
        BY <2>2, <3>4 DEF Current
      <4>2. ~Bare(r)
        BY <1>4, <2>2 DEF Locks, Commit, Inside
      <4>3. theme.state = "locked"
        BY <4>1, <4>2 DEF Bare, Holders, ThemeTypes
      <4>4. newest # None => Stands(theme.draft)
        BY <1>0, <1>1, <3>4, <4>3 DEF Locks
      <4> QED BY <3>1, <3>4, <4>1, <4>4 DEF LossNeedsARace, Stands
    <3> QED BY <3>2, <3>3, <3>4
  <2> QED BY <2>1, <2>2
<1>5. ASSUME UNCHANGED <<theme, newest, raced>> PROVE LossNeedsARace'
  BY <1>5 DEF LossNeedsARace
<1> QED BY <1>2, <1>3, <1>4, <1>5
        DEF Next, Entry, BeginSave, FindRich, BeginEntry, Unlock, EnsureStandalone,
            EnsureOpen, ReadAnswers, RollBack, Render, EditCampaign, vars, history

LEMMA LossStart == Init => LossInv
<1> SUFFICES ASSUME Init PROVE LossInv
  OBVIOUS
<1>1. Locks
  BY NoSelf DEF Init, Locks, Inside
<1>2. Current
  BY NoSelf DEF Init, Current
<1>3. LossNeedsARace
  BY DEF Init, LossNeedsARace
<1> QED BY <1>1, <1>2, <1>3, TypesStart DEF LossInv

LEMMA LossKept == LossInv /\ [Next]_vars => LossInv'
BY TypesStep, LocksStep, CurrentStep, LossStep DEF LossInv

\* For any saves, entries and extractions, the answers accepted last stand on
\* the theme, unless somebody wrote what it had read before another's write.
THEOREM LastAnswersStand == Spec => []LossNeedsARace
<1>1. Spec => []LossInv
  BY LossStart, LossKept, PTL DEF Spec
<1>2. LossInv => LossNeedsARace
  BY DEF LossInv
<1> QED BY <1>1, <1>2, PTL

-----------------------------------------------------------------------------
(* TwinsNeedALocklessEntry.                                                 *)

TwinInv == TypeOK /\ Requests /\ Locks /\ Alone /\ NoTwins

LEMMA UnserialisedStays ==
    ASSUME [Next]_vars, unserialised
    PROVE  unserialised'
BY DEF Next, Entry, BeginSave, Save, FindRich, AutoUnlock, BeginEntry, Unlock,
       EnsureStandalone, EnsureOpen, ReadAnswers, Commit, RollBack, Render,
       EditCampaign, vars, history

LEMMA AloneStep ==
    ASSUME TypeOK, Requests, Locks, Alone, [Next]_vars
    PROVE  Alone'
<1> USE TypeOKParts, NoSelf
<1> SUFFICES ASSUME ~unserialised', NEW r \in Request, NEW s \in Request,
                    Inside(r)', Inside(s)', r # s
             PROVE  FALSE
  BY DEF Alone
<1>1. ~unserialised
  BY UnserialisedStays
<1>2. ASSUME NEW x \in Request, NEW y \in Request, x # y, Unlock(x), Inside(y)
      PROVE  FALSE
  <2>1. ~Crosses(x)
    BY <1>2 DEF Unlock
  <2>2. y \in {z \in Request \ {x} : Inside(z)}
    BY <1>2
  <2>3. ~Bare(x) /\ ~Bare(y)
    BY <2>1, <2>2 DEF Crosses
  <2>4. lock = None /\ lock = y
    BY <1>2, <2>3 DEF Unlock, Lockless, Locks
  <2> QED BY <2>4
<1>3. ASSUME Unlock(r), Unlock(s) PROVE FALSE
  <2>1. Moves(r, "standalone") /\ at[s] = "unlock" /\ at'[s] = "standalone"
    BY <1>3, UnlockTypes DEF Moves, RequestTypes
  <2> QED BY <2>1 DEF Moves, RequestTypes
<1>4. ~(Inside(r) /\ Inside(s))
  BY <1>1 DEF Alone
<1> QED BY <1>2, <1>3, <1>4, InsideStep

LEMMA NoTwinsStep ==
    ASSUME TypeOK, Requests, Locks, Alone, NoTwins, [Next]_vars
    PROVE  NoTwins'
<1> USE TypeOKParts, NoSelf
<1> SUFFICES ASSUME ~unserialised', NEW i \in Row, NEW j \in Row, i # j,
                    row'[i].campaign = row'[j].campaign,
                    row'[i].status = "draft", row'[j].status = "draft"
             PROVE  FALSE
  BY DEF NoTwins
<1>0. ~unserialised
  BY UnserialisedStays
<1>1. ASSUME NEW r \in Request, NEW k \in Row, NEW l \in Row \ {k}, NEW c,
             Inserts(r, k, c), row'[l].campaign = c, row'[l].status = "draft", Inside(r)
      PROVE  l \in OpenAmong(Visible(r)) /\ row[l].campaign = c
  <2>1. row[l] \in Tribute /\ row'[l] = row[l]
    BY <1>1, Inserted DEF ThemeTypes
  <2>2. row[l].campaign = c /\ row[l].status = "draft"
    BY <1>1, <2>1
  <2>3. row[l].tx \in {None, r}
    BY <1>0, <1>1, <2>1 DEF Holders, Alone, Tribute
  <2> QED BY <2>2, <2>3 DEF OpenAmong, Visible
<1>2. ASSUME NEW r \in Request, EnsureStandalone(r), NEW k \in {i, j}, Inserts(r, k, None)
      PROVE  \E l \in Visible(r) : row[l].campaign = None
  <2>1. Inside(r) /\ row'[k].campaign = None
    BY <1>2, Inserted DEF EnsureStandalone, Inside
  <2>2. PICK l \in {i, j} : l # k
    OBVIOUS
  <2>3. row'[l].campaign = None /\ row'[l].status = "draft"
    BY <2>1, <2>2
  <2>4. l \in OpenAmong(Visible(r)) /\ row[l].campaign = None
    BY <1>1, <1>2, <2>1, <2>2, <2>3
  <2> QED BY <2>4 DEF OpenAmong
<1>3. ASSUME NEW r \in Request, EnsureOpen(r), NEW k \in {i, j}, Inserts(r, k, occasion[r])
      PROVE  \E l \in OpenAmong(Visible(r)) : row[l].campaign = occasion[r]
  <2>1. Inside(r) /\ row'[k].campaign = occasion[r]
    BY <1>3, Inserted DEF EnsureOpen, Inside
  <2>2. PICK l \in {i, j} : l # k
    OBVIOUS
  <2>3. row'[l].campaign = occasion[r] /\ row'[l].status = "draft"
    BY <2>1, <2>2
  <2>4. l \in OpenAmong(Visible(r)) /\ row[l].campaign = occasion[r]
    BY <1>1, <1>3, <2>1, <2>2, <2>3
  <2> QED BY <2>4
<1>4. ASSUME \A k \in {i, j} : row[k].status = "draft" /\ row[k].campaign = row'[k].campaign
      PROVE  FALSE
  BY <1>0, <1>4 DEF NoTwins
<1>5. ASSUME NEW r \in Request, NEW k, NEW c, Inserts(r, k, c), k \notin {i, j} PROVE FALSE
  BY <1>4, <1>5, Inserted DEF Inserts
<1>6. ASSUME NEW r \in Request, EnsureStandalone(r) PROVE FALSE
  <2>1. CASE row' = row
    BY <1>4, <2>1
  <2>2. ASSUME NEW k \in Row, Inserts(r, k, None), \A l \in Visible(r) : row[l].campaign # None
        PROVE  FALSE
    BY <1>2, <1>5, <1>6, <2>2
  <2> QED BY <1>6, <2>1, <2>2, StandaloneRows
<1>7. ASSUME NEW r \in Request, EnsureOpen(r) PROVE FALSE
  <2>1. CASE row' = row
    BY <1>4, <2>1
  <2>2. ASSUME NEW k, Inserts(r, k, occasion[r]),
               \A l \in OpenAmong(Visible(r)) : row[l].campaign # occasion[r]
        PROVE  FALSE
    BY <1>3, <1>5, <1>7, <2>2
  <2> QED BY <1>7, <2>1, <2>2, OpenRows
<1>8. ASSUME NEW r \in Request, Commit(r) PROVE FALSE
  <2>1. open[r] \in Row
    BY <1>8, WritingRow DEF Commit
  <2>2. \A k \in Row : row'[k].status = row[k].status /\ row'[k].campaign = row[k].campaign
    BY <1>8, <2>1, CommitRows
  <2> QED BY <1>4, <2>2
<1>9. ASSUME NEW r \in Request, RollBack(r) PROVE FALSE
  <2>1. \A k \in Row : row'[k] = Unused \/ row'[k] = row[k]
    BY <1>9, RollBackRows
  <2>2. Unused.status # "draft"
    BY DEF Unused
  <2> QED BY <1>4, <2>1, <2>2
<1>10. ASSUME NEW k \in Row, NEW from, NEW to \in {"generating", "complete", "failed"},
              Render(k, from, to)
       PROVE  FALSE
  <2>1. row'[k].status # "draft" /\ \A l \in Row \ {k} : row'[l] = row[l]
    BY <1>10, RenderRows
  <2> QED BY <1>4, <2>1
<1>11. ASSUME UNCHANGED row PROVE FALSE
  BY <1>4, <1>11
<1> QED BY <1>6, <1>7, <1>8, <1>9, <1>10, <1>11
        DEF Next, Entry, BeginSave, Save, FindRich, AutoUnlock, BeginEntry, Unlock,
            ReadAnswers, EditCampaign, vars

LEMMA TwinStart == Init => TwinInv
<1> SUFFICES ASSUME Init PROVE TwinInv
  OBVIOUS
<1>1. Locks
  BY NoSelf DEF Init, Locks, Inside
<1>2. Alone
  BY DEF Init, Alone, Inside
<1>3. \A i \in Row : row[i].status = "draft" => i = 1
  <2>1. PICK first : row = [i \in Row |-> IF i = 1 THEN first ELSE Unused]
    BY DEF Init
  <2> QED BY <2>1 DEF Unused
<1>4. NoTwins
  BY <1>3 DEF NoTwins
<1> QED BY <1>1, <1>2, <1>4, TypesStart DEF TwinInv

LEMMA TwinKept == TwinInv /\ [Next]_vars => TwinInv'
BY TypesStep, LocksStep, AloneStep, NoTwinsStep DEF TwinInv

\* For any session starts, edits and renders, one occasion gets two tributes
\* only if two starts looked side by side, one of which updated no theme row.
THEOREM TributesAreSingle == Spec => []TwinsNeedALocklessEntry
<1>1. Spec => []TwinInv
  BY TwinStart, TwinKept, PTL DEF Spec
<1>2. TwinInv => TwinsNeedALocklessEntry
  BY DEF TwinInv, NoTwins, TwinsNeedALocklessEntry, Stored
<1> QED BY <1>1, <1>2, PTL

-----------------------------------------------------------------------------
(* AnswersAddUp.                                                            *)

SumInv == TypeOK /\ Requests /\ Locks /\ Rows /\ Bases

\* A row as Rows has it.
Sound(i) ==
    /\ row[i].status = "none" => row[i].tx = None /\ row[i].answers = Blank
    /\ row[i].tx # None => row[i].status = "draft" /\ row[i].answers = Blank
    /\ row[i].answers = last[i]

LEMMA RowsStep ==
    ASSUME TypeOK, Requests, Locks, Rows, Bases, [Next]_vars
    PROVE  Rows'
<1> USE TypeOKParts, NoSelf
<1> SUFFICES ASSUME NEW i \in Row PROVE Sound(i)'
  BY DEF Rows, Sound
<1>0. Sound(i) /\ row[i] \in Tribute /\ last[i] \in Answers
  BY DEF Rows, Sound, ThemeTypes
<1>1. ASSUME row'[i] = row[i], last'[i] = last[i] PROVE Sound(i)'
  BY <1>0, <1>1 DEF Sound
<1>2. ASSUME NEW r \in Request, NEW k, NEW c, Inserts(r, k, c), last' = last PROVE Sound(i)'
  <2>1. CASE k = i
    <3>1. last[i] = Blank
      BY <1>0, <1>2, <2>1 DEF Sound, Inserts
    <3>2. row'[i].status = "draft" /\ row'[i].answers = Blank
      BY <1>2, <2>1, Inserted
    <3> QED BY <1>2, <3>1, <3>2 DEF Sound
  <2>2. CASE k # i
    <3>1. row'[i] = row[i]
      BY <1>2, <2>2, Inserted
    <3> QED BY <1>1, <1>2, <3>1
  <2> QED BY <2>1, <2>2
<1>3. ASSUME NEW r \in Request, EnsureStandalone(r) PROVE Sound(i)'
  <2>1. last' = last
    BY <1>3 DEF EnsureStandalone, history
  <2> QED BY <1>1, <1>2, <1>3, <2>1, StandaloneRows
<1>4. ASSUME NEW r \in Request, EnsureOpen(r) PROVE Sound(i)'
  <2>1. last' = last
    BY <1>4 DEF EnsureOpen, history
  <2> QED BY <1>1, <1>2, <1>4, <2>1, OpenRows
<1>5. ASSUME NEW r \in Request, Commit(r) PROVE Sound(i)'
  <2>1. open[r] \in Row /\ open[r] \in Visible(r) /\ at[r] = "commit"
    BY <1>5, WritingRow DEF Commit, Requests
  <2>2. /\ row'[i].status = row[i].status
        /\ row'[i].tx = IF row[i].tx = r THEN None ELSE row[i].tx
        /\ row'[i].answers = IF i = open[r] /\ given[r] # Blank
                             THEN Merged(basis[r], given[r]) ELSE row[i].answers
        /\ last'[i] = IF i = open[r] THEN Merged(last[i], given[r]) ELSE last[i]
    BY <1>5, <2>1, CommitRows
  <2>3. CASE i # open[r]
    BY <1>0, <2>2, <2>3 DEF Sound
  <2>4. CASE i = open[r] /\ given[r] = Blank
    <3>1. last'[i] = last[i]
      BY <1>0, <2>2, <2>4, MergedWithBlank
    <3> QED BY <1>0, <2>2, <2>4, <3>1 DEF Sound
  <2>5. CASE i = open[r] /\ given[r] # Blank
    <3>1. basis[r] = last[i]
      BY <1>0, <2>1, <2>5 DEF Bases, Sound
    <3>2. row'[i].answers = last'[i]
      BY <2>2, <2>5, <3>1
    <3>3. row[i].status # "none" /\ row'[i].tx = None
      BY <2>1, <2>2, <2>5 DEF Visible
    <3> QED BY <2>2, <3>2, <3>3 DEF Sound
  <2> QED BY <2>3, <2>4, <2>5
<1>6. ASSUME NEW r \in Request, RollBack(r) PROVE Sound(i)'
  <2>1. last' = last /\ row'[i] = IF row[i].tx = r THEN Unused ELSE row[i]
    BY <1>6, RollBackRows DEF RollBack, history
  <2>2. CASE row[i].tx = r
    <3>1. last'[i] = Blank
      BY <1>0, <2>1, <2>2 DEF Sound
    <3>2. row'[i].status = "none" /\ row'[i].tx = None /\ row'[i].answers = Blank
      BY <2>1, <2>2 DEF Unused
    <3> QED BY <3>1, <3>2 DEF Sound
  <2>3. CASE row[i].tx # r
    BY <1>1, <2>1, <2>3
  <2> QED BY <2>2, <2>3
<1>7. ASSUME NEW k \in Row, NEW from \in SUBSET {"draft", "complete", "failed", "generating"},
             NEW to \in {"generating", "complete", "failed"},
             Render(k, from, to)
      PROVE  Sound(i)'
  <2>1. last' = last
    BY <1>7 DEF Render, history
  <2>2. CASE k = i
    <3>1. row'[i].tx = None /\ row'[i].status = to /\ row'[i].answers = row[i].answers
      BY <1>7, <2>2, RenderRows
    <3> QED BY <1>0, <2>1, <3>1 DEF Sound
  <2>3. CASE k # i
    <3>1. row'[i] = row[i]
      BY <1>7, <2>3, RenderRows
    <3> QED BY <1>1, <2>1, <3>1
  <2> QED BY <2>2, <2>3
<1>8. ASSUME UNCHANGED <<row, last>> PROVE Sound(i)'
  BY <1>1, <1>8
<1> QED BY <1>3, <1>4, <1>5, <1>6, <1>7, <1>8
        DEF Next, Entry, BeginSave, Save, FindRich, AutoUnlock, BeginEntry, Unlock,
            ReadAnswers, EditCampaign, vars, history

\* While a transaction is about to add answers to a row, nobody changes those there.
LEMMA AnswersKept ==
    ASSUME TypeOK, Requests, Locks, [Next]_vars, NEW s \in Request,
           at[s] = "commit", at'[s] = "commit", given[s] # Blank
    PROVE  row'[open[s]].answers = row[open[s]].answers
<1> USE TypeOKParts, NoSelf
<1> DEFINE i == open[s]
<1>0. i \in Row /\ row[i].status # "none" /\ row[i].tx \in {None, s}
  BY DEF Requests, Visible
<1>1. ASSUME NEW r \in Request, End(r) PROVE r # s
  BY <1>1 DEF End, Goto, RequestTypes
<1> HIDE DEF i
<1>2. ASSUME NEW r \in Request, NEW k, NEW c, Inserts(r, k, c)
      PROVE  row'[i].answers = row[i].answers
  BY <1>0, <1>2, Inserted DEF Inserts
<1>3. ASSUME NEW r \in Request, EnsureStandalone(r) PROVE row'[i].answers = row[i].answers
  BY <1>2, <1>3, StandaloneRows
<1>4. ASSUME NEW r \in Request, EnsureOpen(r) PROVE row'[i].answers = row[i].answers
  BY <1>2, <1>4, OpenRows
<1>5. ASSUME NEW r \in Request, Commit(r) PROVE row'[i].answers = row[i].answers
  <2>1. r # s /\ at[r] = "commit"
    BY <1>1, <1>5 DEF Commit
  <2>2. given[r] = Blank
    BY <2>1, OneWriter DEF Inside
  <2>3. open[r] \in Row
    BY <2>1, WritingRow
  <2> QED BY <1>0, <1>5, <2>2, <2>3, CommitRows
<1>6. ASSUME NEW r \in Request, RollBack(r) PROVE row'[i].answers = row[i].answers
  <2>1. r # s
    BY <1>1, <1>6 DEF RollBack
  <2> QED BY <1>0, <1>6, <2>1, RollBackRows
<1>7. ASSUME NEW k \in Row, NEW from, NEW to \in {"generating", "complete", "failed"},
             Render(k, from, to)
      PROVE  row'[i].answers = row[i].answers
  BY <1>0, <1>7, RenderRows
<1>8. row'[i].answers = row[i].answers
  BY <1>3, <1>4, <1>5, <1>6, <1>7
     DEF Next, Entry, BeginSave, Save, FindRich, AutoUnlock, BeginEntry, Unlock,
         ReadAnswers, EditCampaign, vars
<1> QED BY <1>8 DEF i

LEMMA BasesStep ==
    ASSUME TypeOK, Requests, Locks, Bases, [Next]_vars
    PROVE  Bases'
<1> USE TypeOKParts
<1> SUFFICES ASSUME NEW s \in Request, at'[s] = "commit", given'[s] # Blank
             PROVE  basis'[s] = row'[open'[s]].answers
  BY DEF Bases
<1> DEFINE Goal == basis'[s] = row'[open'[s]].answers
<1>1. ASSUME at[s] = "commit", given'[s] = given[s], open'[s] = open[s], basis'[s] = basis[s]
      PROVE  Goal
  <2>1. basis[s] = row[open[s]].answers
    BY <1>1 DEF Bases
  <2>2. row'[open[s]].answers = row[open[s]].answers
    BY <1>1, AnswersKept
  <2> QED BY <1>1, <2>1, <2>2
<1>2. ASSUME NEW r \in Request, NEW there, Moves(r, there), r # s PROVE Goal
  <2>1. at'[s] = at[s] /\ given'[s] = given[s] /\ open'[s] = open[s] /\ basis'[s] = basis[s]
    BY <1>2 DEF Moves, RequestTypes
  <2> QED BY <1>1, <2>1
<1>3. ASSUME NEW there, Moves(s, there), there # "commit" PROVE Goal
  BY <1>3 DEF Moves, RequestTypes
<1> HIDE DEF Goal
<1>4. ASSUME NEW r \in Request, BeginSave(r) PROVE Goal
  BY <1>2, <1>3, <1>4, BeginSaveTypes
<1>5. ASSUME NEW r \in Request, End(r) PROVE Goal
  BY <1>2, <1>3, <1>5, EndTypes
<1>6. ASSUME NEW r \in Request, FindRich(r) PROVE Goal
  BY <1>2, <1>3, <1>6, FindRichTypes
<1>7. ASSUME NEW r \in Request, BeginEntry(r) PROVE Goal
  BY <1>2, <1>3, <1>7, BeginEntryTypes
<1>8. ASSUME NEW r \in Request, Unlock(r) PROVE Goal
  BY <1>2, <1>3, <1>8, UnlockTypes
<1>9. ASSUME NEW r \in Request, EnsureStandalone(r) PROVE Goal
  BY <1>2, <1>3, <1>9, EnsureStandaloneTypes
<1>10. ASSUME NEW r \in Request, EnsureOpen(r) PROVE Goal
  <2>1. Moves(r, IF given[r] = Blank THEN "commit" ELSE "merge")
    BY <1>10, EnsureOpenTypes
  <2>2. given' = given
    BY <1>10 DEF EnsureOpen
  <2>3. CASE r = s
    <3>1. given[r] # Blank
      BY <2>2, <2>3
    <3>2. Moves(s, "merge")
      BY <2>1, <2>3, <3>1
    <3> QED BY <1>3, <3>2
  <2>4. CASE r # s
    BY <1>2, <2>1, <2>4
  <2> QED BY <2>3, <2>4
<1>11. ASSUME NEW r \in Request, ReadAnswers(r) PROVE Goal
  <2>1. Moves(r, "commit") /\ basis'[r] = row[open[r]].answers
    BY <1>11, ReadAnswersTypes, WritingRow DEF ReadAnswers
  <2>2. CASE r = s
    <3>1. row' = row /\ open' = open
      BY <1>11 DEF ReadAnswers
    <3> QED BY <2>1, <2>2, <3>1 DEF Goal
  <2>3. CASE r # s
    BY <1>2, <2>1, <2>3
  <2> QED BY <2>2, <2>3
<1>12. ASSUME UNCHANGED request PROVE Goal
  BY <1>1, <1>12 DEF request
<1>13. Goal
  BY <1>4, <1>5, <1>6, <1>7, <1>8, <1>9, <1>10, <1>11, <1>12
     DEF Next, Entry, Save, AutoUnlock, Commit, RollBack, Render, EditCampaign, vars
<1> QED BY <1>13 DEF Goal

\* The entry of a campaign whose only open tribute, or whose latest one, is i is
\* shown what i has.
LEMMA ShownToTheNext ==
    ASSUME TypeOK, NEW i \in Stored, row[i].campaign # None, row[i].answers # Blank,
           \A j \in Stored \ {i} : row[j].campaign = row[i].campaign =>
                ~(j > i) /\ j \notin OpenAmong(Stored)
    PROVE  Prefill(row[i].campaign) = row[i].answers
<1> DEFINE c    == row[i].campaign
           fits == {j \in OpenAmong(Stored) : c # None => OfOccasion(j, c)}
           all  == {j \in Stored : OfOccasion(j, c)}
<1>1. Stored \in SUBSET Row /\ i \in Row /\ Row \subseteq Nat /\ 0 \notin Row
  BY ConstantsAssumption DEF Stored, Row
<1>2. fits \subseteq {i}
  BY DEF OfOccasion, OpenAmong
<1>3. OpenRow(Stored, c) = 0 \/ OpenRow(Stored, c) \in fits
  BY <1>1, Lookup
<1>4. Latest(c) = i
  <2>1. i \in all \cup {0} /\ \A j \in all \cup {0} : i >= j
    BY <1>1 DEF OfOccasion
  <2>2. \A m \in all \cup {0} : (\A j \in all \cup {0} : m >= j) => m = i
    BY <1>1, <2>1
  <2>3. Max(all \cup {0}) = i
    <3> HIDE DEF all
    <3> QED BY <2>1, <2>2 DEF Max
  <2> QED BY <2>3 DEF Latest
<1>5. OpenRow(Stored, c) = 0 \/ OpenRow(Stored, c) = i
  BY <1>2, <1>3
<1>6. i # 0
  BY <1>1
<1> HIDE DEF c
<1>7. Prefill(c) = row[i].answers
  BY <1>4, <1>5, <1>6 DEF Prefill
<1> QED BY <1>7 DEF c

LEMMA SumStart == Init => SumInv
<1> SUFFICES ASSUME Init PROVE SumInv
  OBVIOUS
<1>1. Locks
  BY NoSelf DEF Init, Locks, Inside
<1>2. Bases
  BY DEF Init, Bases
<1>3. Rows
  <2>1. PICK first \in {Unused, Draft(None, 0, None)} :
            row = [i \in Row |-> IF i = 1 THEN first ELSE Unused]
    BY DEF Init
  <2>2. /\ first.tx = None /\ first.answers = Blank
        /\ Unused.tx = None /\ Unused.answers = Blank
    BY DEF Unused, Draft
  <2>3. \A i \in Row : row[i].tx = None /\ row[i].answers = Blank /\ last[i] = Blank
    BY <2>1, <2>2 DEF Init
  <2> QED BY <2>3 DEF Rows
<1> QED BY <1>1, <1>2, <1>3, TypesStart DEF SumInv

LEMMA SumKept == SumInv /\ [Next]_vars => SumInv'
BY TypesStep, LocksStep, RowsStep, BasesStep DEF SumInv

\* For any session starts, edits and renders, no committed answer is lost from
\* its tribute, and the next entry of its campaign is shown it.
THEOREM AnswersStay == Spec => []AnswersAddUp
<1>1. Spec => []SumInv
  BY SumStart, SumKept, PTL DEF Spec
<1>2. SumInv => AnswersAddUp
  <2> SUFFICES ASSUME TypeOK, Rows, NEW i \in Stored
               PROVE  /\ row[i].answers = last[i]
                      /\ \/ last[i] = Blank \/ row[i].campaign = None
                         \/ \E j \in Stored \ {i} :
                                /\ row[j].campaign = row[i].campaign
                                /\ j > i \/ j \in OpenAmong(Stored)
                         \/ Prefill(row[i].campaign) = last[i]
    BY DEF SumInv, AnswersAddUp
  <2>1. row[i].answers = last[i]
    BY DEF Rows, Stored
  <2> QED BY <2>1, ShownToTheNext
<1> QED BY <1>1, <1>2, PTL

-----------------------------------------------------------------------------
(* The rows of campaigns and visual themes.                                  *)

\* A row, or what is left where one was deleted.
RowOrGap == Record \cup {Nothing}

\* A sequence of rows with one row more.
LEMMA Appended ==
    ASSUME NEW S, NEW n \in Nat, NEW f \in [1 .. n -> S], NEW e \in S
    PROVE  /\ f \in Seq(S)
           /\ Append(f, e) \in Seq(S) /\ Len(Append(f, e)) = n + 1
           /\ DOMAIN Append(f, e) = 1 .. n + 1
           /\ Append(f, e)[n + 1] = e
           /\ \A i \in 1 .. n : Append(f, e)[i] = f[i]
<1>1. f \in Seq(S) /\ Len(f) = n
  OBVIOUS
<1> QED
  BY <1>1

\* A function on 1 .. n is a sequence of n elements.
LEMMA Remade ==
    ASSUME NEW S, NEW n \in Nat, NEW f \in [1 .. n -> S]
    PROVE  f \in Seq(S) /\ Len(f) = n /\ DOMAIN f = 1 .. n
OBVIOUS

\* What the requests are, and what one remembers while it is in flight.
Ops == {"edit", "publish", "archive", "delete", "rollback", "create", "generate"}

Locals == [op : Ops, row : Nat \cup {Nothing}, slug : Slug, new : Slug,
           theme : Nat \cup {Nothing, Carried}, refs : SUBSET Nat]

\* The types.
Kinds ==
    /\ rows \in Seq(RowOrGap) /\ held \in Seq(Editor \cup {Nothing}) /\ Len(held) = Len(rows)
    /\ pc \in [Editor -> {"idle", "write", "commit", "done"}]
    /\ loc \in [Editor -> Locals \cup {Nothing}] /\ \A a \in Flying : loc[a] \in Locals
    /\ stamp \in Nat \cup {Nothing}
    /\ lost \subseteq Slug /\ renamed \subseteq Slug /\ mixed \subseteq Slug
    /\ beside \subseteq Editor /\ excused \subseteq Nat

\* The rows that are present, and who may hold them.
LEMMA PresentIs ==
    ASSUME Kinds
    PROVE  /\ Len(rows) \in Nat /\ DOMAIN rows = 1 .. Len(rows) /\ DOMAIN held = 1 .. Len(rows)
           /\ Present \subseteq 1 .. Len(rows) /\ Live \subseteq Present
           /\ \A i \in Present : rows[i] \in Record
           /\ \A i \in 1 .. Len(rows) : i \in Present <=> rows[i] # Nothing
           /\ \A i \in 1 .. Len(rows) : held[i] \in Editor \cup {Nothing}
<1>1. Len(rows) \in Nat /\ DOMAIN rows = 1 .. Len(rows) /\ DOMAIN held = 1 .. Len(rows)
  BY DEF Kinds
<1>2. \A i \in 1 .. Len(rows) : rows[i] \in RowOrGap /\ held[i] \in Editor \cup {Nothing}
  BY DEF Kinds
<1> QED
  BY <1>1, <1>2 DEF Present, Live, RowOrGap

\* A row after a repointing differs in its theme at most.
LEMMA RepointIs ==
    ASSUME Kinds, NEW a \in Editor, NEW old, NEW new \in Nat, NEW i \in Present
    PROVE  LET r == Repoint(old, new, i, a)
           IN  /\ r \in Record /\ r.slug = rows[i].slug /\ r.state = rows[i].state
               /\ r.active = rows[i].active
               /\ r.theme = IF i \in loc[a].refs \cap Live /\ rows[i].theme \in old
                            THEN new ELSE rows[i].theme
<1>1. rows[i] \in Record
  BY PresentIs
<1> QED
  BY <1>1 DEF Repoint, Record

\* The locks once a request has given up its own.
LEMMA ReleasedIs ==
    ASSUME Kinds, NEW a
    PROVE  /\ Released(a) \in [1 .. Len(rows) -> Editor \cup {Nothing}]
           /\ \A i \in 1 .. Len(rows) :
                 Released(a)[i] = IF held[i] = a THEN Nothing ELSE held[i]
BY PresentIs DEF Released

\* What an insertion writes.
RowsAfter(a, olds, ver) ==
    /\ rows' \in Seq(RowOrGap) /\ Len(rows') = Len(rows) + 1
    /\ DOMAIN rows' = 1 .. Len(rows) + 1 /\ rows'[Len(rows) + 1] = ver
    /\ \A i \in 1 .. Len(rows) \ Present : rows'[i] = Nothing
    /\ \A i \in Present :
          /\ rows'[i] \in Record
          /\ rows'[i].slug = rows[i].slug /\ rows'[i].state = rows[i].state
          /\ rows'[i].active = IF i \in olds THEN FALSE ELSE rows[i].active
          /\ i \in olds => rows'[i].theme = rows[i].theme
          /\ i \notin olds => rows'[i].theme =
                IF i \in loc[a].refs \cap Live /\ rows[i].theme \in olds
                THEN Len(rows) + 1 ELSE rows[i].theme

\* Insert leaves the rows so.
LEMMA InsertRows ==
    ASSUME Kinds, NEW a \in Editor, NEW olds, NEW ver \in Record, Insert(a, olds, ver)
    PROVE  RowsAfter(a, olds, ver)
<1> DEFINE n == Len(rows)
           Old(i) == IF rows[i] = Nothing THEN Nothing
                     ELSE IF i \in olds THEN [rows[i] EXCEPT !.active = FALSE]
                     ELSE Repoint(olds, n + 1, i, a)
           f == [i \in 1 .. n |-> Old(i)]
<1>1. n \in Nat /\ DOMAIN rows = 1 .. n
  BY PresentIs
<1>2. rows' = Append(f, ver)
  BY <1>1 DEF Insert
<1>3. ASSUME NEW i \in Present
      PROVE  /\ Old(i) \in Record
             /\ Old(i).slug = rows[i].slug /\ Old(i).state = rows[i].state
             /\ Old(i).active = IF i \in olds THEN FALSE ELSE rows[i].active
             /\ i \in olds => Old(i).theme = rows[i].theme
             /\ i \notin olds => Old(i).theme =
                   IF i \in loc[a].refs \cap Live /\ rows[i].theme \in olds
                   THEN n + 1 ELSE rows[i].theme
  <2>1. rows[i] \in Record /\ rows[i] # Nothing
    BY PresentIs
  <2>2. CASE i \in olds
    <3>1. Old(i) = [rows[i] EXCEPT !.active = FALSE]
      BY <2>1, <2>2
    <3> QED
      BY <2>1, <2>2, <3>1 DEF Record
  <2>3. CASE i \notin olds
    <3>1. Old(i) = Repoint(olds, n + 1, i, a)
      BY <2>1, <2>3
    <3>2. n + 1 \in Nat
      BY <1>1
    <3> HIDE DEF Old, n
    <3> QED
      BY <2>3, <3>1, <3>2, RepointIs
  <2> QED
    BY <2>2, <2>3
<1>4. \A i \in 1 .. n \ Present : Old(i) = Nothing
  BY PresentIs
<1>5. f \in [1 .. n -> RowOrGap] /\ ver \in RowOrGap
  <2> HIDE DEF Old
  <2> QED BY <1>3, <1>4 DEF RowOrGap
<1>6. \A i \in 1 .. n : f[i] = Old(i)
  OBVIOUS
<1> HIDE DEF f, Old
<1>7. /\ rows' \in Seq(RowOrGap) /\ Len(rows') = n + 1 /\ DOMAIN rows' = 1 .. n + 1
      /\ rows'[n + 1] = ver /\ \A i \in 1 .. n : rows'[i] = Old(i)
  BY <1>1, <1>2, <1>5, <1>6, Appended
<1>8. Present \subseteq 1 .. n
  BY PresentIs
<1> QED
  BY <1>3, <1>4, <1>7, <1>8 DEF RowsAfter

\* The locks after an insertion; the new row is free.
LEMMA InsertHeld ==
    ASSUME Kinds, NEW a \in Editor, NEW olds, NEW ver, Insert(a, olds, ver)
    PROVE  /\ held' \in Seq(Editor \cup {Nothing}) /\ Len(held') = Len(rows) + 1
           /\ held'[Len(rows) + 1] = Nothing
           /\ \A i \in 1 .. Len(rows) : held'[i] = IF held[i] = a THEN Nothing ELSE held[i]
<1>1. held' = Append(Released(a), Nothing) /\ Len(rows) \in Nat
  BY PresentIs DEF Insert
<1> QED
  BY <1>1, ReleasedIs, Appended

\* The locks after a commit that inserts nothing.
LEMMA ReleaseHeld ==
    ASSUME Kinds, NEW a \in Editor, held' = Released(a)
    PROVE  /\ held' \in Seq(Editor \cup {Nothing}) /\ Len(held') = Len(rows)
           /\ \A i \in 1 .. Len(rows) : held'[i] = IF held[i] = a THEN Nothing ELSE held[i]
<1>1. Len(rows) \in Nat
  BY PresentIs
<1> QED
  BY <1>1, ReleasedIs, Remade

\* The rows after a publish or an archive, one by one.
LEMMA StateRows ==
    ASSUME Kinds, NEW a \in Flying, CommitState(a), loc[a].row \in Present
    PROVE  LET r == loc[a].row IN
           /\ rows' \in Seq(RowOrGap) /\ Len(rows') = Len(rows)
           /\ DOMAIN rows' = 1 .. Len(rows)
           /\ \A i \in 1 .. Len(rows) \ Present : rows'[i] = Nothing
           /\ \A i \in Present :
                 /\ rows'[i] \in Record
                 /\ rows'[i].slug = rows[i].slug /\ rows'[i].active = rows[i].active
                 /\ i # r => rows'[i].state = rows[i].state
                 /\ i = r => rows'[i].state # "draft" /\ rows'[i].theme = rows[i].theme
                 /\ rows'[i].theme = rows[i].theme \/ (rows'[i].theme = r /\ i # r)
                 /\ i # r => rows'[i].theme =
                       IF loc[a].op = "publish" /\ i \in loc[a].refs \cap Live /\ rows[i].theme \in Siblings(r)
                       THEN r ELSE rows[i].theme
<1> DEFINE n == Len(rows)
           r == loc[a].row
           siblings == IF loc[a].op = "publish" THEN Siblings(r) ELSE {}
           state    == IF loc[a].op = "publish" THEN "published" ELSE "archived"
           Old(i) == IF rows[i] = Nothing THEN Nothing
                     ELSE IF i = r THEN [rows[i] EXCEPT !.state = state]
                     ELSE Repoint(siblings, r, i, a)
           f == [i \in 1 .. n |-> Old(i)]
<1>1. n \in Nat /\ DOMAIN rows = 1 .. n /\ r \in Nat /\ a \in Editor
  BY PresentIs DEF Flying
<1>2. rows' = f
  BY <1>1 DEF CommitState
<1>3. ASSUME NEW i \in Present
      PROVE  /\ Old(i) \in Record
             /\ Old(i).slug = rows[i].slug /\ Old(i).active = rows[i].active
             /\ i # r => Old(i).state = rows[i].state
             /\ i = r => Old(i).state # "draft" /\ Old(i).theme = rows[i].theme
             /\ Old(i).theme = rows[i].theme \/ (Old(i).theme = r /\ i # r)
             /\ i # r => Old(i).theme =
                   IF i \in loc[a].refs \cap Live /\ rows[i].theme \in siblings THEN r ELSE rows[i].theme
  <2>1. rows[i] \in Record /\ rows[i] # Nothing
    BY PresentIs
  <2>2. CASE i = r
    <3>1. Old(i) = [rows[i] EXCEPT !.state = state]
      BY <2>1, <2>2
    <3>2. state \in {"published", "archived"}
      OBVIOUS
    <3> HIDE DEF state
    <3> QED
      BY <2>1, <2>2, <3>1, <3>2 DEF Record
  <2>3. CASE i # r
    <3>1. Old(i) = Repoint(siblings, r, i, a)
      BY <2>1, <2>3
    <3> HIDE DEF Old, siblings, r
    <3> QED
      BY <1>1, <2>3, <3>1, RepointIs
  <2> QED
    BY <2>2, <2>3
<1>4. \A i \in 1 .. n \ Present : Old(i) = Nothing
  BY PresentIs
<1>5. f \in [1 .. n -> RowOrGap]
  <2> HIDE DEF Old
  <2> QED BY <1>3, <1>4 DEF RowOrGap
<1>6. \A i \in 1 .. n : f[i] = Old(i)
  OBVIOUS
<1>8. Present \subseteq 1 .. n
  BY PresentIs
<1>9. \A t : t \in siblings <=> loc[a].op = "publish" /\ t \in Siblings(r)
  OBVIOUS
<1> HIDE DEF f, Old, siblings
<1> QED
  BY <1>1, <1>2, <1>3, <1>4, <1>5, <1>6, <1>8, <1>9, Remade

\* The rows after a delete, one by one.
LEMMA DeleteRows ==
    ASSUME Kinds, NEW a \in Flying, CommitDelete(a)
    PROVE  LET gone == loc[a].refs \cap Present IN
           /\ rows' \in Seq(RowOrGap) /\ Len(rows') = Len(rows)
           /\ DOMAIN rows' = 1 .. Len(rows)
           /\ \A i \in 1 .. Len(rows) : i \notin Present \ gone => rows'[i] = Nothing
           /\ \A i \in Present \ gone :
                 /\ rows'[i] \in Record
                 /\ rows'[i].slug = rows[i].slug /\ rows'[i].active = rows[i].active
                 /\ rows'[i].state = rows[i].state
                 /\ rows'[i].theme = IF rows[i].theme \in gone THEN Nothing ELSE rows[i].theme
<1> DEFINE n == Len(rows)
           gone == loc[a].refs \cap Present
           Old(i) == IF i \in gone \/ rows[i] = Nothing THEN Nothing
                     ELSE IF rows[i].theme \in gone THEN [rows[i] EXCEPT !.theme = Nothing]
                     ELSE rows[i]
           f == [i \in 1 .. n |-> Old(i)]
<1>1. n \in Nat /\ DOMAIN rows = 1 .. n
  BY PresentIs
<1>2. rows' = f
  BY <1>1 DEF CommitDelete
<1> HIDE DEF gone
<1>3. ASSUME NEW i \in Present \ gone
      PROVE  /\ Old(i) \in Record
             /\ Old(i).slug = rows[i].slug /\ Old(i).active = rows[i].active
             /\ Old(i).state = rows[i].state
             /\ Old(i).theme = IF rows[i].theme \in gone THEN Nothing ELSE rows[i].theme
  <2>1. rows[i] \in Record /\ rows[i] # Nothing
    BY PresentIs
  <2> QED
    BY <2>1 DEF Record
<1>4. \A i \in 1 .. n : i \notin Present \ gone => Old(i) = Nothing
  BY PresentIs
<1>5. f \in [1 .. n -> RowOrGap]
  <2> HIDE DEF Old
  <2> QED BY <1>3, <1>4 DEF RowOrGap
<1>6. \A i \in 1 .. n : f[i] = Old(i)
  OBVIOUS
<1>8. Present \subseteq 1 .. n
  BY PresentIs
<1> HIDE DEF f, Old
<1> QED
  BY <1>1, <1>2, <1>3, <1>4, <1>5, <1>6, <1>8, Remade DEF gone

\* A row is never taken for a gap.
LEMMA RecordIsNone == Nothing \notin Record
BY ConfigAssumption

\* Which rows there are after each of the commits.
LEMMA InsertSets ==
    ASSUME Kinds, NEW a \in Editor, NEW olds, NEW ver \in Record, ver.active,
           Insert(a, olds, ver)
    PROVE  /\ Len(rows) + 1 \notin Present
           /\ Present' = Present \cup {Len(rows) + 1}
           /\ Live' = (Live \ olds) \cup {Len(rows) + 1}
           /\ \A s : Of(s)' = IF ver.slug = s THEN Of(s) \cup {Len(rows) + 1} ELSE Of(s)
<1> DEFINE n == Len(rows)
<1>0. RowsAfter(a, olds, ver)
  BY InsertRows
<1>1. /\ n \in Nat /\ Present \subseteq 1 .. n /\ Live \subseteq Present
      /\ \A i \in 1 .. n : i \in Present <=> rows[i] # Nothing
  BY PresentIs
<1>2. n + 1 \notin 1 .. n /\ 1 .. n + 1 = (1 .. n) \cup {n + 1}
  BY <1>1
<1>3. /\ DOMAIN rows' = 1 .. n + 1 /\ rows'[n + 1] = ver
      /\ \A i \in 1 .. n \ Present : rows'[i] = Nothing
      /\ \A i \in Present :
            /\ rows'[i] \in Record
            /\ rows'[i].slug = rows[i].slug
            /\ rows'[i].active = IF i \in olds THEN FALSE ELSE rows[i].active
  BY <1>0 DEF RowsAfter
<1> HIDE DEF n
<1>4. Present' = Present \cup {n + 1}
  BY <1>1, <1>2, <1>3, RecordIsNone DEF Present
<1>5. Live' = (Live \ olds) \cup {n + 1}
  <2>1. \A i \in Present : i \in Live' <=> i \in Live \ olds
    BY <1>3, <1>4 DEF Live
  <2>2. n + 1 \in Live'
    BY <1>3, <1>4 DEF Live
  <2>3. Live' \subseteq Present'
    BY DEF Live
  <2> QED
    BY <1>1, <1>4, <2>1, <2>2, <2>3
<1>6. ASSUME NEW s PROVE Of(s)' = IF ver.slug = s THEN Of(s) \cup {n + 1} ELSE Of(s)
  BY <1>1, <1>2, <1>3, <1>4 DEF Of
<1> QED
  BY <1>1, <1>2, <1>4, <1>5, <1>6 DEF n

\* A publish or an archive leaves the sets of rows alone.
LEMMA StateSets ==
    ASSUME Kinds, NEW a \in Flying, CommitState(a), loc[a].row \in Present
    PROVE  Present' = Present /\ Live' = Live /\ \A s : Of(s)' = Of(s)
<1>1. /\ Present \subseteq 1 .. Len(rows) /\ DOMAIN rows' = 1 .. Len(rows)
      /\ \A i \in 1 .. Len(rows) \ Present : rows'[i] = Nothing
      /\ \A i \in Present : /\ rows'[i] \in Record /\ rows'[i].slug = rows[i].slug
                            /\ rows'[i].active = rows[i].active
  BY PresentIs, StateRows
<1>2. Present' = Present
  BY <1>1, RecordIsNone DEF Present
<1> QED
  BY <1>1, <1>2 DEF Live, Of

\* A delete takes its rows out of each set.
LEMMA DeleteSets ==
    ASSUME Kinds, NEW a \in Flying, CommitDelete(a)
    PROVE  LET gone == loc[a].refs \cap Present IN
           Present' = Present \ gone /\ Live' = Live \ gone /\ \A s : Of(s)' = Of(s) \ gone
<1> DEFINE gone == loc[a].refs \cap Present
<1>1. /\ Present \subseteq 1 .. Len(rows) /\ DOMAIN rows' = 1 .. Len(rows)
      /\ \A i \in 1 .. Len(rows) : i \notin Present \ gone => rows'[i] = Nothing
      /\ \A i \in Present \ gone : /\ rows'[i] \in Record /\ rows'[i].slug = rows[i].slug
                                   /\ rows'[i].active = rows[i].active
  BY PresentIs, DeleteRows
<1> HIDE DEF gone
<1>2. Present' = Present \ gone
  BY <1>1, RecordIsNone DEF Present
<1> QED
  BY <1>1, <1>2 DEF Live, Of, gone

\* The same rows make the same sets.
LEMMA SameSets ==
    ASSUME UNCHANGED rows
    PROVE  Present' = Present /\ Live' = Live /\ \A s : Of(s)' = Of(s)
BY DEF Present, Live, Of

-----------------------------------------------------------------------------
\* What a request may set out with.
SetsOut(l) ==
    /\ l \in Locals /\ l.refs = {}
    /\ l.op \in {"edit", "publish", "archive"} => l.row \in Live /\ rows[l.row].slug = l.slug
    /\ l.op # "edit" => l.new = l.slug
    /\ l.slug \in CampaignSlug <=> l.new \in CampaignSlug
    /\ l.op = "generate" => /\ l.slug \in ThemeSlug /\ Holder(l.slug) # {}
                            /\ \A i \in Holder(l.slug) : rows[i].state = "draft"
    /\ l.op = "delete" => \E i \in Holder(l.slug) : rows[i].state = "draft"
    /\ l.op = "edit" => l.theme # l.row

\* What a request reads first has the type of its locals.
LEMMA LocalIs ==
    ASSUME NEW do \in Ops, NEW i \in Nat \cup {Nothing}, NEW s \in Slug, NEW new \in Slug,
           NEW t \in Nat \cup {Nothing, Carried}
    PROVE  LET l == Local(do, i, s, new, t) IN
           /\ l \in Locals /\ l.op = do /\ l.row = i /\ l.slug = s /\ l.new = new
           /\ l.theme = t /\ l.refs = {}
BY DEF Local, Locals

\* A live row is a record, and has a number.
LEMMA LiveIs ==
    ASSUME Kinds, NEW i \in Present
    PROVE  i \in Nat /\ rows[i].slug \in Slug /\ (i \in Live => i \in Holder(rows[i].slug))
<1>1. rows[i] \in Record /\ i \in 1 .. Len(rows)
  BY PresentIs
<1> QED
  BY <1>1 DEF Record, Holder, Of

\* An edit sets out with what it may.
LEMMA EditSetsOut ==
    ASSUME Kinds, NEW a \in Editor, Edit(a)
    PROVE  \E l : Begin(a, l) /\ SetsOut(l)
<1>0. PICK i \in Live : \E new \in SameTable(rows[i].slug) :
         \E t \in IF i \in Themes THEN {Carried} ELSE {Carried, Nothing} \cup Themes :
              Begin(a, Local("edit", i, rows[i].slug, new, t))
  BY DEF Edit
<1>1. PICK new \in SameTable(rows[i].slug),
           t \in IF i \in Themes THEN {Carried} ELSE {Carried, Nothing} \cup Themes :
              Begin(a, Local("edit", i, rows[i].slug, new, t))
  BY <1>0
<1> DEFINE l == Local("edit", i, rows[i].slug, new, t)
<1>2. i \in Nat /\ rows[i].slug \in Slug /\ i \in Present
  BY LiveIs DEF Live
<1>3. new \in Slug /\ (rows[i].slug \in CampaignSlug <=> new \in CampaignSlug)
  BY <1>2, ConfigAssumption DEF SameTable, Slug
<1>4. t \in {Nothing, Carried} \cup Present /\ t # i
  BY <1>1, <1>2, ConfigAssumption DEF Themes
<1>5. t \in Nat \cup {Nothing, Carried}
  BY <1>4, LiveIs
<1>6. /\ l \in Locals /\ l.op = "edit" /\ l.row = i /\ l.slug = rows[i].slug /\ l.new = new
      /\ l.theme = t /\ l.refs = {}
  BY <1>2, <1>3, <1>5, LocalIs DEF Ops
<1> HIDE DEF l
<1>7. SetsOut(l)
  BY <1>2, <1>3, <1>4, <1>6 DEF SetsOut
<1> QED
  BY <1>1, <1>7 DEF l

\* So does a creation,
LEMMA CreateSetsOut ==
    ASSUME Kinds, NEW a \in Editor, Create(a)
    PROVE  \E l : Begin(a, l) /\ SetsOut(l)
<1>1. PICK s \in Slug : \E t \in IF s \in ThemeSlug THEN {Nothing}
                                   ELSE {Nothing} \cup Themes :
              Begin(a, Local("create", Nothing, s, s, t))
  BY DEF Create
<1>2. PICK t \in {Nothing} \cup Present : Begin(a, Local("create", Nothing, s, s, t))
  BY <1>1 DEF Themes
<1> DEFINE l == Local("create", Nothing, s, s, t)
<1>3. t \in Nat \cup {Nothing, Carried}
  BY <1>2, LiveIs
<1>4. /\ l \in Locals /\ l.op = "create" /\ l.row = Nothing /\ l.slug = s /\ l.new = s
      /\ l.theme = t /\ l.refs = {}
  BY <1>3, LocalIs DEF Ops
<1> HIDE DEF l
<1>5. SetsOut(l)
  BY <1>4 DEF SetsOut
<1> QED
  BY <1>2, <1>5 DEF l

\* a generation,
LEMMA GenerateSetsOut ==
    ASSUME Kinds, NEW a \in Editor, LookToGenerate(a)
    PROVE  \E l : Begin(a, l) /\ SetsOut(l)
<1>1. PICK s \in ThemeSlug :
         LET replaces == Holder(s) # {} /\ \A i \in Holder(s) : rows[i].state = "draft"
         IN  \E new \in IF replaces \/ Holder(s) = {} THEN {s}
                        ELSE {n \in ThemeSlug : Holder(n) = {}} :
                Begin(a, Local(IF replaces THEN "generate" ELSE "create", Nothing, new, new, Nothing))
  BY DEF LookToGenerate
<1> DEFINE replaces == Holder(s) # {} /\ \A i \in Holder(s) : rows[i].state = "draft"
<1>2. PICK new \in ThemeSlug :
         /\ replaces => Holder(new) = Holder(s)
         /\ Begin(a, Local(IF replaces THEN "generate" ELSE "create", Nothing, new, new, Nothing))
  BY <1>1
<1> DEFINE do == IF replaces THEN "generate" ELSE "create"
           l == Local(do, Nothing, new, new, Nothing)
<1>3. do \in Ops /\ do \in {"generate", "create"} /\ new \in Slug
  BY DEF Ops, Slug
<1>4. do = "generate" => replaces
  OBVIOUS
<1>5. Begin(a, l)
  BY <1>2
<1> HIDE DEF do
<1>6. /\ l \in Locals /\ l.op = do /\ l.row = Nothing
      /\ l.slug = new /\ l.new = new /\ l.theme = Nothing /\ l.refs = {}
  BY <1>3 DEF Local, Locals
<1> HIDE DEF l
<1>7. SetsOut(l)
  BY <1>2, <1>3, <1>4, <1>6 DEF SetsOut
<1> QED
  BY <1>5, <1>7

\* and each of the rest.
LEMMA OthersSetOut ==
    ASSUME Kinds, NEW a \in Editor,
           Publish(a) \/ Archive(a) \/ LookToDelete(a) \/ LookToRollback(a)
    PROVE  \E l : Begin(a, l) /\ SetsOut(l)
<1> DEFINE Set(do, i) == /\ i \in Present
                         /\ do # "rollback" => i \in Live
                         /\ do = "delete" => rows[i].state = "draft"
                         /\ Begin(a, Local(do, i, rows[i].slug, rows[i].slug, Nothing))
<1>0. \E do \in {"publish", "archive", "delete", "rollback"} : \E i \in Present : Set(do, i)
  <2>1. CASE Publish(a)
    <3>1. \E i \in Present : Set("publish", i)
      BY <2>1 DEF Publish, Live
    <3> QED
      BY <3>1
  <2>2. CASE Archive(a)
    <3>1. \E i \in Present : Set("archive", i)
      BY <2>2 DEF Archive, Live
    <3> QED
      BY <3>1
  <2>3. CASE LookToDelete(a)
    <3>1. \E i \in Present : Set("delete", i)
      BY <2>3 DEF LookToDelete, Live
    <3> QED
      BY <3>1
  <2>4. CASE LookToRollback(a)
    <3>1. \E i \in Present : Set("rollback", i)
      BY <2>4 DEF LookToRollback
    <3> QED
      BY <3>1
  <2> QED
    BY <2>1, <2>2, <2>3, <2>4
<1>1. PICK do \in {"publish", "archive", "delete", "rollback"}, i \in Present : Set(do, i)
  BY <1>0
<1> DEFINE l == Local(do, i, rows[i].slug, rows[i].slug, Nothing)
<1>2. i \in Nat /\ rows[i].slug \in Slug /\ (i \in Live => i \in Holder(rows[i].slug))
  BY LiveIs
<1>3. /\ l \in Locals /\ l.op = do /\ l.row = i /\ l.slug = rows[i].slug
      /\ l.new = rows[i].slug /\ l.theme = Nothing /\ l.refs = {}
  BY <1>2 DEF Ops, Local, Locals
<1> HIDE DEF l
<1>4. SetsOut(l)
  BY <1>1, <1>2, <1>3 DEF SetsOut
<1> QED
  BY <1>1, <1>4 DEF l

\* The operations that lock a row, and those that name it by its id.
ByLock  == {"edit", "publish", "archive", "generate", "rollback"}
ById    == {"edit", "publish", "archive"}

\* What a request knows of the rows it works on.
InHand(a) ==
    LET l == loc[a] IN
    /\ l.op \in ById => l.row \in DOMAIN rows
    /\ l.op \in ById /\ l.row \in Present => rows[l.row].slug = l.slug
    /\ l.op # "edit" => l.new = l.slug
    /\ l.slug \in CampaignSlug <=> l.new \in CampaignSlug
    /\ l.op = "generate" => l.slug \in ThemeSlug
    /\ pc[a] = "commit" /\ l.op \in ById => l.row # Nothing
    /\ pc[a] = "commit" /\ l.op \in ByLock /\ l.row # Nothing =>
          l.row \in Live /\ held[l.row] = a /\ rows[l.row].slug = l.slug
    /\ l.op = "delete" => \A i \in l.refs \cap Present : rows[i].slug = l.slug
    /\ l.refs \subseteq DOMAIN rows

\* Every request in flight knows that much.
HandsInv == \A a \in Flying : InHand(a)

\* The locking UPDATE of any operation.
WriteStep(a) == WriteById(a) \/ WriteBySlug(a) \/ WriteNothing(a)

\* A request that finds its row gone.
GivesUp(a) == held' = held /\ pc' = [pc EXCEPT ![a] = "done"] /\ loc' = [loc EXCEPT ![a] = Nothing]

\* What a locking UPDATE leaves in the hands of its request.
Found(a, m) ==
    LET l == loc[a] IN
    /\ m \in Locals /\ m.op = l.op /\ m.slug = l.slug /\ m.new = l.new
    /\ l.op \in ById => m.row = l.row /\ m.row \in Live
    /\ l.op \in {"generate", "rollback"} => m.row \in Holder(l.slug) \cup {Nothing}
    /\ l.op \in {"create", "delete"} => m.row = Nothing
    /\ m.row # Nothing => held[m.row] = Nothing
    /\ l.op \in {"edit", "create"} => m.theme = l.theme
    /\ l.op = "delete" => m.refs = Of(l.slug)
    /\ l.op \in {"edit", "rollback"} /\ m.row # Nothing => m.refs = Referring({m.row})
    /\ l.op = "publish" => m.refs = Referring(Siblings(m.row))
    /\ m.refs \subseteq Present

\* A locking UPDATE: the row is held, and the request goes on to its commit.
LocksRow(a, m) ==
    /\ Found(a, m)
    /\ held' = IF m.row = Nothing THEN held ELSE [held EXCEPT ![m.row] = a]
    /\ pc' = [pc EXCEPT ![a] = "commit"] /\ loc' = [loc EXCEPT ![a] = m]

\* Only the row and the references are new to the locals.
Keeps(a, i, refs) == \E m \in Locals :
    /\ loc' = [loc EXCEPT ![a] = m]
    /\ m.op = loc[a].op /\ m.slug = loc[a].slug /\ m.new = loc[a].new
    /\ m.row = i /\ m.refs = refs /\ m.theme = loc[a].theme

\* Lock keeps the rest of the locals.
LEMMA LockLocal ==
    ASSUME Kinds, NEW a \in Flying, NEW i \in Nat \cup {Nothing}, NEW refs \in SUBSET Nat,
           Lock(a, i, refs)
    PROVE  Keeps(a, i, refs)
<1> DEFINE l == loc[a]
           m == [[l EXCEPT !.row = i] EXCEPT !.refs = refs]
<1>1. l \in Locals /\ a \in Editor /\ loc \in [Editor -> Locals \cup {Nothing}]
  BY DEF Kinds, Flying
<1>2. loc' = [loc EXCEPT ![a] = m]
  BY <1>1 DEF Lock
<1> HIDE DEF l
<1>5. /\ m \in Locals /\ m.op = l.op /\ m.slug = l.slug /\ m.new = l.new
      /\ m.row = i /\ m.refs = refs /\ m.theme = l.theme
  BY <1>1 DEF Locals
<1> HIDE DEF m
<1> QED
  BY <1>2, <1>5 DEF l, Keeps

\* The rows that refer to some are present.
LEMMA ReferringIs ==
    ASSUME Kinds, NEW olds
    PROVE  Referring(olds) \subseteq Present /\ Referring(olds) \in SUBSET Nat
BY PresentIs DEF Referring

\* So are the rows of a slug.
LEMMA SlugRowsAre ==
    ASSUME Kinds, NEW s
    PROVE  /\ Of(s) \subseteq Present /\ Of(s) \in SUBSET Nat
           /\ Holder(s) \subseteq Live /\ Live \subseteq Nat
BY PresentIs DEF Of, Holder

\* A locking UPDATE by id gives up, or locks the row.
LEMMA WriteByIdForms ==
    ASSUME Kinds, NEW a \in Flying, WriteById(a), HandsInv
    PROVE  GivesUp(a) \/ \E m : LocksRow(a, m)
<1> DEFINE l == loc[a]
<1>1. l \in Locals /\ a \in Editor /\ l.op \in ById /\ pc[a] = "write" /\ held[l.row] = Nothing
  BY DEF Kinds, Flying, WriteById, ById
<1>2. CASE l.row \notin Live
  BY <1>2 DEF WriteById, NotFound, GivesUp, Becomes
<1>3. CASE l.row \in Live
  <2>1. l.row \in Nat /\ l.row # Nothing
    BY <1>3, SlugRowsAre, ConfigAssumption
  <2>2. PICK refs \in SUBSET Nat : /\ Lock(a, l.row, refs) /\ refs \subseteq Present
                                   /\ l.op = "edit" => refs = Referring({l.row})
                                   /\ l.op = "publish" => refs = Referring(Siblings(l.row))
    <3>1. CASE l.op = "publish"
      <4>1. Lock(a, l.row, Referring(Siblings(l.row)))
        BY <1>3, <3>1 DEF WriteById
      <4> QED
        BY <3>1, <4>1, ReferringIs
    <3>2. CASE l.op # "publish"
      <4>1. Lock(a, l.row, Referring({l.row}))
        BY <1>3, <3>2 DEF WriteById
      <4> QED
        BY <3>2, <4>1, ReferringIs
    <3> QED
      BY <3>1, <3>2
  <2>3. PICK m \in Locals : /\ loc' = [loc EXCEPT ![a] = m]
                /\ m.op = l.op /\ m.slug = l.slug /\ m.new = l.new
                /\ m.row = l.row /\ m.refs = refs /\ m.theme = l.theme
    <3>1. Keeps(a, l.row, refs)
      BY <2>1, <2>2, LockLocal
    <3> QED
      BY <3>1 DEF Keeps
  <2>4. held' = [held EXCEPT ![m.row] = a] /\ pc' = [pc EXCEPT ![a] = "commit"]
    BY <2>1, <2>2, <2>3 DEF Lock, Becomes
  <2>5. Found(a, m)
    BY <1>1, <1>3, <2>2, <2>3 DEF Found, ById
  <2> QED
    BY <2>1, <2>3, <2>4, <2>5 DEF LocksRow
<1> QED
  BY <1>2, <1>3

\* A locking UPDATE by slug locks the active row, or none.
LEMMA WriteBySlugForms ==
    ASSUME Kinds, NEW a \in Flying, WriteBySlug(a)
    PROVE  \E m : LocksRow(a, m)
<1> DEFINE l == loc[a]
<1>1. /\ l \in Locals /\ a \in Editor /\ l.op \in {"generate", "rollback"}
      /\ loc \in [Editor -> Locals \cup {Nothing}]
  BY DEF Kinds, Flying, WriteBySlug
<1>2. PICK i \in Holder(l.slug) \cup {Nothing} :
          /\ i # Nothing => held[i] = Nothing
          /\ held' = IF i = Nothing THEN held ELSE [held EXCEPT ![i] = a]
          /\ loc' = [loc EXCEPT ![a].row = i, ![a].theme = l.row,
                                ![a].refs = IF i = Nothing \/ l.op = "generate"
                                            THEN {} ELSE Referring({i})]
  BY DEF WriteBySlug
<1> DEFINE refs == IF i = Nothing \/ l.op = "generate" THEN {} ELSE Referring({i})
           m == [[[l EXCEPT !.row = i] EXCEPT !.theme = l.row] EXCEPT !.refs = refs]
<1>3. refs \subseteq Present /\ refs \in SUBSET Nat /\ (i # Nothing /\ l.op # "generate" => refs = Referring({i}))
  BY ReferringIs
<1>4. i \in Nat \cup {Nothing} /\ l.row \in Nat \cup {Nothing, Carried}
  BY <1>1, SlugRowsAre DEF Locals
<1>5. loc' = [loc EXCEPT ![a] = m]
  BY <1>1, <1>2
<1> HIDE DEF refs
<1> HIDE DEF l
<1>7. /\ m \in Locals /\ m.op = l.op /\ m.slug = l.slug /\ m.new = l.new
      /\ m.row = i /\ m.refs = refs /\ m.theme = l.row
  BY <1>1, <1>3, <1>4 DEF Locals
<1> HIDE DEF m
<1>8. Found(a, m)
  BY <1>1, <1>2, <1>3, <1>7 DEF Found, ById, l
<1>9. pc' = [pc EXCEPT ![a] = "commit"]
  BY DEF WriteBySlug, Becomes
<1> QED
  BY <1>2, <1>5, <1>7, <1>8, <1>9 DEF LocksRow

\* A delete, a creation and a rollback without its row lock nothing.
LEMMA WriteNothingForms ==
    ASSUME Kinds, NEW a \in Flying, WriteNothing(a)
    PROVE  GivesUp(a) \/ \E m : LocksRow(a, m)
<1> DEFINE l == loc[a]
<1>1. CASE l.op = "rollback" /\ NotFound(a)
  BY <1>1 DEF NotFound, GivesUp, Becomes
<1>2. ASSUME NEW refs \in SUBSET Nat, Lock(a, Nothing, refs), refs \subseteq Present,
             l.op \in {"create", "delete"}, l.op = "delete" => refs = Of(l.slug)
      PROVE  \E m : LocksRow(a, m)
  <2>1. PICK m \in Locals : /\ loc' = [loc EXCEPT ![a] = m]
                /\ m.op = l.op /\ m.slug = l.slug /\ m.new = l.new
                /\ m.row = Nothing /\ m.refs = refs /\ m.theme = l.theme
    <3>1. Keeps(a, Nothing, refs)
      BY <1>2, LockLocal
    <3> QED
      BY <3>1 DEF Keeps
  <2>2. held' = held /\ pc' = [pc EXCEPT ![a] = "commit"]
    BY <1>2 DEF Lock, Becomes
  <2>3. Found(a, m)
    BY <1>2, <2>1 DEF Found, ById
  <2> QED
    BY <2>1, <2>2, <2>3 DEF LocksRow
<1>3. CASE l.op = "create" /\ Lock(a, Nothing, {})
  BY <1>2, <1>3
<1>4. CASE l.op = "delete" /\ Lock(a, Nothing, Of(l.slug))
  BY <1>2, <1>4, SlugRowsAre
<1> QED
  BY <1>1, <1>3, <1>4 DEF WriteNothing

\* So every locking UPDATE gives up or locks.
LEMMA WriteForms ==
    ASSUME Kinds, HandsInv, NEW a \in Editor, WriteStep(a)
    PROVE  /\ a \in Flying /\ pc[a] = "write"
           /\ UNCHANGED <<rows, stamp, awaited, pins, past>>
           /\ GivesUp(a) \/ \E m : LocksRow(a, m)
<1>1. pc[a] = "write" /\ a \in Flying
  BY DEF WriteStep, WriteById, WriteBySlug, WriteNothing, Flying
<1>2. UNCHANGED <<rows, stamp, awaited, pins, past>>
  <2>1. CASE WriteById(a)
    BY <2>1 DEF WriteById, NotFound, Lock
  <2>2. CASE WriteBySlug(a)
    BY <2>2 DEF WriteBySlug
  <2>3. CASE WriteNothing(a)
    BY <2>3 DEF WriteNothing, NotFound, Lock
  <2> QED
    BY <2>1, <2>2, <2>3 DEF WriteStep
<1> QED
  BY <1>1, <1>2, WriteByIdForms, WriteBySlugForms, WriteNothingForms DEF WriteStep

\* The row an insertion writes, and what it replaces.
Fresh(a, olds, ver) ==
    LET l == loc[a] IN
    /\ \A i \in olds : i = l.row /\ i \in Live /\ held[i] = a /\ rows[i].slug = l.slug
    /\ ver \in Record /\ ver.active /\ ver.slug = l.new
    /\ Holder(ver.slug) \subseteq olds /\ ver.theme \in Present \cup {Nothing}
    /\ l.op \in {"create", "generate", "edit", "rollback"}
    /\ ver.slug \in ThemeSlug => ver.theme = Nothing
    /\ l.op = "create" => olds = {} /\ ver.state = "draft" /\ ver.theme \in {l.theme, Nothing}
    /\ l.op # "create" => olds = {l.row} \ {Nothing}
    /\ l.op = "generate" => ver.state = "draft" /\ ver.theme = Nothing
    /\ l.op = "edit" => /\ olds = {l.row} /\ l.row \in Live /\ ver.state = rows[l.row].state
                        /\ ver.theme \in {IF l.theme = Carried THEN rows[l.row].theme ELSE l.theme, Nothing}
    /\ l.op = "rollback" => ver.state = "published"

\* A row is inserted.
InsertsRow(a) == \E olds, ver : Fresh(a, olds, ver) /\ Insert(a, olds, ver)

\* A version is a row.
LEMMA VersionIs ==
    ASSUME NEW s \in Slug, NEW state \in {"draft", "published", "archived"}, NEW t
    PROVE  LET ver == Version(s, state, t) IN
           /\ ver.active /\ ver.slug = s /\ ver.state = state /\ ver.theme \in {t, Nothing}
           /\ s \in ThemeSlug => ver.theme = Nothing
           /\ ver.theme \in Nat \cup {Nothing} => ver \in Record
<1>1. CASE s \in ThemeSlug
  BY <1>1 DEF Version, Record
<1>2. CASE s \notin ThemeSlug
  BY <1>2 DEF Version, Record
<1> QED
  BY <1>1, <1>2

\* Supersede refuses, or inserts what is meant.
LEMMA SupersedeForms ==
    ASSUME Kinds, NEW a \in Editor, NEW olds, NEW ver, Supersede(a, olds, ver)
    PROVE  \/ Refuse(a)
           \/ /\ Insert(a, olds, ver) /\ Holder(ver.slug) \subseteq olds
              /\ ver.theme \in Present \cup {Nothing} /\ ver.theme \in Nat \cup {Nothing}
<1>1. CASE Refused(olds, ver)
  BY <1>1 DEF Supersede
<1>2. CASE ~Refused(olds, ver)
  <2>1. Insert(a, olds, ver)
    BY <1>2 DEF Supersede
  <2>2. Holder(ver.slug) \ olds = {} /\ ver.theme \in Present \cup {Nothing}
    BY <1>2 DEF Refused
  <2>3. Holder(ver.slug) \subseteq olds
    BY <2>2
  <2>4. ver.theme \in Nat \cup {Nothing}
    BY <2>2, PresentIs
  <2> QED
    BY <2>1, <2>2, <2>3, <2>4
<1> QED
  BY <1>1, <1>2

\* The state and the theme of the new row, by the operation.
Means(a, was, state, t) ==
    LET l == loc[a] IN
    /\ l.op \in {"create", "generate", "edit", "rollback"}
    /\ state \in {"draft", "published", "archived"}
    /\ l.op = "create" => was = {} /\ state = "draft" /\ t = l.theme
    /\ l.op # "create" => was = {l.row} \ {Nothing}
    /\ l.op = "generate" => state = "draft" /\ t = Nothing
    /\ l.op = "edit" => /\ state = rows[l.row].state
                        /\ t = IF l.theme = Carried THEN rows[l.row].theme ELSE l.theme
    /\ l.op = "rollback" => state = "published"

\* CommitInsert refuses, or inserts a row as it should.
LEMMA InsertForms ==
    ASSUME Kinds, HandsInv, NEW a \in Editor, CommitInsert(a)
    PROVE  /\ a \in Flying /\ pc[a] = "commit" /\ Leave(a) /\ UNCHANGED <<awaited, pins, lost, beside, mixed>>
           /\ Refuse(a) \/ InsertsRow(a)
<1> DEFINE l == loc[a]
           olds == {l.row} \ {Nothing}
<1>1. a \in Flying /\ pc[a] = "commit" /\ Leave(a) /\ UNCHANGED <<awaited, pins, lost, beside, mixed>>
  BY DEF CommitInsert, Flying
<1>2. l \in Locals /\ InHand(a)
  BY <1>1 DEF Kinds, HandsInv
<1>3. l.new \in Slug
  BY <1>2 DEF Locals
<1>4. l.op \in ByLock => \A i \in olds : i = l.row /\ i \in Live /\ held[i] = a /\ rows[i].slug = l.slug
  BY <1>1, <1>2 DEF InHand
<1>5. l.op = "edit" => olds = {l.row} /\ l.row \in Live
  BY <1>1, <1>2 DEF InHand, ById, ByLock
<1>6. ASSUME NEW state, NEW t, NEW was, Means(a, was, state, t),
             Supersede(a, was, Version(l.new, state, t))
      PROVE  Refuse(a) \/ InsertsRow(a)
  <2>0. /\ state \in {"draft", "published", "archived"}
        /\ l.op \in {"create", "generate", "edit", "rollback"}
        /\ l.op = "create" => was = {}
        /\ l.op # "create" => was = olds
    BY <1>6 DEF Means
  <2> DEFINE ver == Version(l.new, state, t)
  <2>1. CASE Refuse(a)
    BY <2>1
  <2>2. CASE ~Refuse(a)
    <3>0. Supersede(a, was, ver)
      BY <1>6
    <3>3. /\ ver.active /\ ver.slug = l.new /\ ver.state = state /\ ver.theme \in {t, Nothing}
          /\ l.new \in ThemeSlug => ver.theme = Nothing
          /\ ver.theme \in Nat \cup {Nothing} => ver \in Record
      BY <1>3, <2>0, VersionIs
    <3> HIDE DEF ver, olds
    <3>1. Insert(a, was, ver) /\ Holder(ver.slug) \subseteq was
      BY <1>1, <2>2, <3>0, SupersedeForms DEF Flying
    <3>2. ver.theme \in Present \cup {Nothing} /\ ver.theme \in Nat \cup {Nothing}
      BY <1>1, <2>2, <3>0, SupersedeForms DEF Flying
    <3>4. \A i \in was : i = l.row /\ i \in Live /\ held[i] = a /\ rows[i].slug = l.slug
      BY <1>4, <2>0 DEF ByLock
    <3>5. Fresh(a, was, ver)
      <4>1. l.op = "edit" => was = {l.row} /\ l.row \in Live
        BY <1>5, <2>0
      <4>2. l.op = "create" => was = {}
        BY <2>0
      <4>3. l.op # "create" => was = {l.row} \ {Nothing}
        BY <2>0 DEF olds
      <4> QED
        BY <1>6, <2>0, <3>1, <3>2, <3>3, <3>4, <4>1, <4>2, <4>3 DEF Fresh, Means
    <3> QED
      BY <3>1, <3>5 DEF InsertsRow
  <2> QED
    BY <2>1, <2>2
<1>7. CASE l.op = "create" /\ Supersede(a, {}, Version(l.new, "draft", l.theme))
  <2>1. Means(a, {}, "draft", l.theme)
    BY <1>7 DEF Means
  <2> QED
    BY <1>1, <1>6, <1>7, <2>1
<1>8. CASE l.op = "generate" /\ Supersede(a, olds, Version(l.new, "draft", Nothing))
  <2>1. Means(a, olds, "draft", Nothing)
    BY <1>8 DEF Means
  <2> QED
    BY <1>1, <1>6, <1>8, <2>1
<1>9. CASE /\ l.op = "edit"
           /\ Supersede(a, olds,
                     Version(l.new, rows[l.row].state,
                         IF l.theme = Carried THEN rows[l.row].theme ELSE l.theme))
  <2>1. rows[l.row].state \in {"draft", "published", "archived"}
    <3>1. rows[l.row] \in Record
      BY <1>5, <1>9, PresentIs
    <3> QED
      BY <3>1 DEF Record
  <2> DEFINE state == rows[l.row].state
             t == IF l.theme = Carried THEN rows[l.row].theme ELSE l.theme
  <2>2. Supersede(a, olds, Version(l.new, state, t))
    BY <1>9
  <2>3. Means(a, olds, state, t)
    BY <1>9, <2>1 DEF Means
  <2> HIDE DEF t, state, olds
  <2> QED
    BY <1>1, <1>6, <2>2, <2>3
<1>10. CASE l.op = "rollback" /\ Supersede(a, olds, Version(l.new, "published", rows[l.theme].theme))
  <2> DEFINE t == rows[l.theme].theme
  <2>1. Supersede(a, olds, Version(l.new, "published", t))
    BY <1>10
  <2>2. Means(a, olds, "published", t)
    BY <1>10 DEF Means
  <2> HIDE DEF t, olds
  <2> QED
    BY <1>1, <1>6, <2>1, <2>2
<1> QED
  BY <1>1, <1>7, <1>8, <1>9, <1>10 DEF CommitInsert

\* A request begins.
SetsForth(a) == \E l : Begin(a, l) /\ SetsOut(l)

\* The steps, each operation with what its first read has shown.
LEMMA Steps ==
    ASSUME Kinds, HandsInv, ConfigNext
    PROVE  \/ \E a \in Editor : \/ SetsForth(a)
                                \/ WriteStep(a)
                                \/ CommitInsert(a)
                                \/ CommitState(a)
                                \/ CommitDelete(a)
           \/ RenderTribute \/ FinishTribute
BY EditSetsOut, CreateSetsOut, GenerateSetsOut, OthersSetOut DEF ConfigNext, WriteStep, SetsForth

-----------------------------------------------------------------------------
(* What a step does, sorted by what it disturbs.                             *)

\* A request leaves and nothing was written.
Quits(a) == /\ a \in Flying /\ Leave(a) /\ (held' = held \/ held' = Released(a))
            /\ UNCHANGED <<rows, stamp, awaited, pins, past>>

\* A request locks.
Takes(a) == /\ a \in Flying /\ pc[a] = "write" /\ \E m : LocksRow(a, m)
            /\ UNCHANGED <<rows, stamp, awaited, pins, past>>

\* A request inserts a row and leaves.
Adds(a) == /\ a \in Flying /\ pc[a] = "commit" /\ Leave(a) /\ InsertsRow(a)
           /\ UNCHANGED <<awaited, pins, lost, beside, mixed>>

\* A request publishes or archives a row, or deletes rows, and leaves.
Changes(a) == a \in Flying /\ CommitState(a)
Deletes(a) == a \in Flying /\ CommitDelete(a)

\* Every step is one of these.
LEMMA StepKinds ==
    ASSUME Kinds, HandsInv, [ConfigNext]_configVars
    PROVE  \/ \E a \in Editor : \/ SetsForth(a) \/ Quits(a) \/ Takes(a) \/ Adds(a)
                                \/ Changes(a) \/ Deletes(a)
           \/ RenderTribute \/ FinishTribute
           \/ UNCHANGED configVars
<1>1. ASSUME NEW a \in Editor, WriteStep(a) PROVE Quits(a) \/ Takes(a)
  <2>1. a \in Flying /\ pc[a] = "write" /\ UNCHANGED <<rows, stamp, awaited, pins, past>>
    BY <1>1, WriteForms
  <2>2. GivesUp(a) \/ \E m : LocksRow(a, m)
    BY <1>1, WriteForms
  <2> QED
    BY <2>1, <2>2 DEF GivesUp, Quits, Takes, Leave, Becomes
<1>2. ASSUME NEW a \in Editor, CommitInsert(a) PROVE Quits(a) \/ Adds(a)
  <2>1. a \in Flying /\ pc[a] = "commit" /\ Leave(a) /\ UNCHANGED <<awaited, pins, lost, beside, mixed>>
    BY <1>2, InsertForms
  <2>2. Refuse(a) \/ InsertsRow(a)
    BY <1>2, InsertForms
  <2> QED
    BY <2>1, <2>2 DEF Quits, Adds, Refuse, past
<1>3. ASSUME NEW a \in Editor, CommitState(a) PROVE Changes(a)
  BY <1>3 DEF Changes, CommitState, Flying
<1>4. ASSUME NEW a \in Editor, CommitDelete(a) PROVE Deletes(a)
  BY <1>4 DEF Deletes, CommitDelete, Flying
<1> QED
  BY <1>1, <1>2, <1>3, <1>4, Steps

\* One request moves; the others stay where they are.
LEMMA Moved ==
    ASSUME Kinds, NEW a \in Editor, NEW s, NEW m,
           pc' = [pc EXCEPT ![a] = s], loc' = [loc EXCEPT ![a] = m]
    PROVE  /\ pc'[a] = s /\ loc'[a] = m
           /\ \A b \in Editor \ {a} : pc'[b] = pc[b] /\ loc'[b] = loc[b]
           /\ \A b \in Editor \ {a} : b \in Flying' <=> b \in Flying
           /\ a \in Flying' <=> s \notin {"idle", "done"}
<1>1. pc \in [Editor -> {"idle", "write", "commit", "done"}] /\ loc \in [Editor -> Locals \cup {Nothing}]
  BY DEF Kinds
<1> QED
  BY <1>1 DEF Flying

\* A request that leaves changes nothing in the hands of the others.
Left(a) == /\ a \notin Flying'
           /\ \A b \in Flying' : b \in Flying /\ b # a /\ pc'[b] = pc[b] /\ loc'[b] = loc[b]

\* Leave is such a step.
LEMMA LeftIs == ASSUME Kinds, NEW a \in Editor, Leave(a) PROVE Left(a)
<1>1. pc' = [pc EXCEPT ![a] = "done"] /\ loc' = [loc EXCEPT ![a] = Nothing]
  BY DEF Leave, Becomes
<1>2. Flying' \subseteq Editor
  BY DEF Flying
<1> QED
  BY <1>1, <1>2, Moved DEF Left

\* The types of the requests' places and locals.
PlaceTypes == /\ pc \in [Editor -> {"idle", "write", "commit", "done"}]
              /\ loc \in [Editor -> Locals \cup {Nothing}] /\ \A a \in Flying : loc[a] \in Locals

\* A move keeps them.
LEMMA PlacesTyped ==
    ASSUME Kinds, NEW a \in Editor, NEW s \in {"idle", "write", "commit", "done"},
           NEW m \in Locals \cup {Nothing}, s \in {"write", "commit"} => m \in Locals,
           pc' = [pc EXCEPT ![a] = s], loc' = [loc EXCEPT ![a] = m]
    PROVE  PlaceTypes'
<1>1. pc \in [Editor -> {"idle", "write", "commit", "done"}] /\ loc \in [Editor -> Locals \cup {Nothing}]
  BY DEF Kinds
<1>2. /\ pc' \in [Editor -> {"idle", "write", "commit", "done"}]
      /\ loc' \in [Editor -> Locals \cup {Nothing}]
  BY <1>1
<1>3. ASSUME NEW b \in Flying' PROVE loc'[b] \in Locals
  <2>1. b \in Editor
    BY DEF Flying
  <2>2. CASE b = a
    <3>1. a \in Flying' /\ loc'[a] = m /\ (a \in Flying' <=> s \notin {"idle", "done"})
      BY <2>2, Moved
    <3> QED
      BY <2>2, <3>1
  <2>3. CASE b # a
    <3>1. b \in Flying /\ loc'[b] = loc[b]
      BY <2>1, <2>3, Moved
    <3> QED
      BY <3>1 DEF Kinds
  <2> QED
    BY <2>2, <2>3
<1> QED
  BY <1>2, <1>3 DEF PlaceTypes

\* A request that leaves keeps them.
LEMMA PlacesLeft == ASSUME Kinds, NEW a \in Editor, Leave(a) PROVE PlaceTypes'
<1>1. pc' = [pc EXCEPT ![a] = "done"] /\ loc' = [loc EXCEPT ![a] = Nothing]
  BY DEF Leave, Becomes
<1> QED
  BY <1>1, PlacesTyped

\* The types of the rows, of the stamp and of the history.
RowTypes == rows \in Seq(RowOrGap) /\ held \in Seq(Editor \cup {Nothing}) /\ Len(held) = Len(rows)
StampType == stamp \in Nat \cup {Nothing}
PastTypes == /\ lost \subseteq Slug /\ renamed \subseteq Slug /\ mixed \subseteq Slug
             /\ beside \subseteq Editor /\ excused \subseteq Nat

\* Together these are the types.
LEMMA KindsAre == Kinds <=> RowTypes /\ PlaceTypes /\ StampType /\ PastTypes
BY DEF Kinds, RowTypes, PlaceTypes, StampType, PastTypes

\* And they are in the next state.
LEMMA KindsNext == (RowTypes /\ PlaceTypes /\ StampType /\ PastTypes)' => Kinds'
BY DEF Kinds, RowTypes, PlaceTypes, StampType, PastTypes, Flying

\* A request at its commit that named a row by id has a live one.
LEMMA InHandOf ==
    ASSUME Kinds, HandsInv, NEW a \in Flying, pc[a] = "commit", loc[a].op \in ById
    PROVE  loc[a].row \in Live /\ loc[a].row \in Present
BY PresentIs DEF HandsInv, InHand, ById, ByLock

\* Every step keeps the types.
LEMMA KindsStep ==
    ASSUME Kinds, HandsInv, [ConfigNext]_configVars
    PROVE  Kinds'
<1>0. RowTypes /\ PlaceTypes /\ StampType /\ PastTypes
  BY KindsAre
<1>1. ASSUME NEW a \in Editor, SetsForth(a) PROVE Kinds'
  <2>1. PICK l : Begin(a, l) /\ SetsOut(l)
    BY <1>1 DEF SetsForth
  <2>2. l \in Locals
    BY <2>1 DEF SetsOut
  <2>3. PlaceTypes'
    BY <2>1, <2>2, PlacesTyped DEF Begin, Becomes
  <2>4. UNCHANGED <<rows, held, stamp, pins, lost, renamed, excused>>
    BY <2>1 DEF Begin
  <2>5. beside' \subseteq Editor /\ mixed' \subseteq Slug
    <3>1. Flying \subseteq Editor
      BY DEF Flying
    <3>2. l.slug \in Slug /\ l.new \in Slug
      BY <2>2 DEF Locals
    <3> QED
      BY <1>0, <2>1, <3>1, <3>2 DEF Begin, PastTypes
  <2> QED
    BY <1>0, <2>3, <2>4, <2>5, KindsNext DEF RowTypes, StampType, PastTypes
<1>2. ASSUME NEW a \in Editor, Quits(a) PROVE Kinds'
  <2>1. PlaceTypes' /\ UNCHANGED <<rows, stamp, awaited, pins, past>>
    BY <1>2, PlacesLeft DEF Quits
  <2>2. held' \in Seq(Editor \cup {Nothing}) /\ Len(held') = Len(rows)
    BY <1>0, <1>2, ReleaseHeld DEF Quits, RowTypes
  <2> QED
    BY <1>0, <2>1, <2>2, KindsNext DEF RowTypes, StampType, PastTypes, past
<1>3. ASSUME NEW a \in Editor, Takes(a) PROVE Kinds'
  <2>1. PICK m : LocksRow(a, m)
    BY <1>3 DEF Takes
  <2>2. m \in Locals /\ (m.row # Nothing => m.row \in 1 .. Len(rows))
    <3>1. Found(a, m) /\ m \in Locals /\ m.op = loc[a].op
      BY <2>1 DEF LocksRow, Found
    <3>2. m.row \in Live \cup {Nothing}
      BY <3>1, SlugRowsAre DEF Found, Locals, Ops, ById
    <3> QED
      BY <3>1, <3>2, PresentIs
  <2>3. PlaceTypes'
    BY <2>1, <2>2, PlacesTyped DEF LocksRow
  <2>4. held' \in Seq(Editor \cup {Nothing}) /\ Len(held') = Len(rows)
    <3>1. held \in Seq(Editor \cup {Nothing}) /\ Len(held) = Len(rows) /\ DOMAIN held = 1 .. Len(rows)
      BY <1>0, PresentIs DEF RowTypes
    <3>2. held' = IF m.row = Nothing THEN held ELSE [held EXCEPT ![m.row] = a]
      BY <2>1 DEF LocksRow
    <3>3. CASE m.row = Nothing
      BY <3>1, <3>2, <3>3
    <3>4. CASE m.row # Nothing
      <4>1. held' = [held EXCEPT ![m.row] = a] /\ m.row \in 1 .. Len(rows)
        BY <2>2, <3>2, <3>4
      <4> QED
        BY <3>1, <4>1
    <3> QED
      BY <3>3, <3>4
  <2>5. UNCHANGED <<rows, stamp, awaited, pins, past>>
    BY <1>3 DEF Takes
  <2> QED
    BY <1>0, <2>3, <2>4, <2>5, KindsNext DEF RowTypes, StampType, PastTypes, past
<1>4. ASSUME NEW a \in Editor, Adds(a) PROVE Kinds'
  <2>0. PICK olds, ver : Fresh(a, olds, ver) /\ Insert(a, olds, ver)
    BY <1>4 DEF Adds, InsertsRow
  <2>1. ver \in Record
    BY <2>0 DEF Fresh
  <2>2. RowsAfter(a, olds, ver)
    BY <2>0, <2>1, InsertRows
  <2>3. RowTypes'
    BY <2>0, <2>1, <2>2, InsertHeld DEF RowTypes, RowsAfter
  <2>4. PlaceTypes'
    BY <1>4, PlacesLeft DEF Adds
  <2>5. Len(rows) + 1 \in Nat /\ DOMAIN rows \subseteq DOMAIN rows'
    BY <2>2, PresentIs DEF RowsAfter
  <2>6. StampType'
    BY <1>0, <1>4, <2>0, <2>5 DEF StampType, Adds, Insert
  <2>7. loc[a].slug \in Slug
    BY <1>4 DEF Adds, Kinds, Locals
  <2>8. PastTypes'
    BY <1>0, <1>4, <2>0, <2>5, <2>7 DEF PastTypes, Adds, Insert
  <2> QED
    BY <2>3, <2>4, <2>6, <2>8, KindsNext
<1>5. ASSUME NEW a \in Editor, Changes(a) PROVE Kinds'
  <2>1. loc[a].row \in Present /\ a \in Flying /\ CommitState(a)
    BY <1>5, InHandOf DEF Changes, CommitState, ById
  <2>2. rows' \in Seq(RowOrGap) /\ Len(rows') = Len(rows) /\ DOMAIN rows' = DOMAIN rows
    BY <2>1, StateRows, PresentIs
  <2>3. held' \in Seq(Editor \cup {Nothing}) /\ Len(held') = Len(rows)
    BY <2>1, ReleaseHeld DEF CommitState
  <2>4. PlaceTypes' /\ UNCHANGED <<stamp, pins, lost, beside, mixed, renamed, excused>>
    BY <2>1, PlacesLeft DEF CommitState
  <2> QED
    BY <1>0, <2>2, <2>3, <2>4, KindsNext DEF RowTypes, StampType, PastTypes
<1>6. ASSUME NEW a \in Editor, Deletes(a) PROVE Kinds'
  <2>1. a \in Flying /\ CommitDelete(a)
    BY <1>6 DEF Deletes
  <2>2. rows' \in Seq(RowOrGap) /\ Len(rows') = Len(rows) /\ DOMAIN rows' = DOMAIN rows
    BY <2>1, DeleteRows, PresentIs
  <2>3. PlaceTypes' /\ UNCHANGED <<held, pins, beside, mixed, renamed, excused>>
    BY <2>1, PlacesLeft DEF CommitDelete
  <2>4. loc[a].slug \in Slug
    BY <2>1 DEF Kinds, Locals
  <2>5. stamp' \in Nat \cup {Nothing} /\ lost' \subseteq Slug
    BY <1>0, <2>1, <2>4 DEF CommitDelete, StampType, PastTypes
  <2> QED
    BY <1>0, <2>2, <2>3, <2>5, KindsNext DEF RowTypes, StampType, PastTypes
<1>7. CASE RenderTribute \/ FinishTribute
  BY <1>7 DEF Kinds, RenderTribute, FinishTribute, past, Flying
<1>8. CASE UNCHANGED configVars
  BY <1>8 DEF Kinds, configVars, past, Flying
<1> QED
  BY <1>1, <1>2, <1>3, <1>4, <1>5, <1>6, <1>7, <1>8, StepKinds

\* No row changes its slug, and none comes back.
SameSlugs == /\ DOMAIN rows \subseteq DOMAIN rows'
             /\ \A i \in DOMAIN rows : i \in Present' => i \in Present /\ rows'[i].slug = rows[i].slug

\* A request that holds a row.
HoldsRow(b) == pc[b] = "commit" /\ loc[b].op \in ByLock /\ loc[b].row # Nothing

\* The row it holds is live, and its own.
LEMMA HeldRow ==
    ASSUME Kinds, HandsInv, NEW b \in Flying, HoldsRow(b)
    PROVE  /\ loc[b].row \in Live /\ loc[b].row \in Present /\ loc[b].row \in 1 .. Len(rows)
           /\ held[loc[b].row] = b /\ b # Nothing /\ b \in Editor
BY PresentIs, ConfigAssumption DEF HandsInv, InHand, HoldsRow, Flying

\* What a request knows stays true while its row is live and its own.
LEMMA HandKept ==
    ASSUME NEW b, InHand(b), pc'[b] = pc[b], loc'[b] = loc[b], SameSlugs,
           HoldsRow(b) => loc[b].row \in Live' /\ held'[loc[b].row] = b
    PROVE  InHand(b)'
<1> DEFINE l == loc[b]
<1>1. loc'[b] = l /\ pc'[b] = pc[b]
  OBVIOUS
<1> HIDE DEF l
<1>2. /\ l.op \in ById => l.row \in DOMAIN rows
      /\ l.op \in ById /\ l.row \in Present => rows[l.row].slug = l.slug
      /\ l.op # "edit" => l.new = l.slug
      /\ l.slug \in CampaignSlug <=> l.new \in CampaignSlug
      /\ l.op = "generate" => l.slug \in ThemeSlug
      /\ pc[b] = "commit" /\ l.op \in ById => l.row # Nothing
      /\ l.op = "delete" => \A i \in l.refs \cap Present : rows[i].slug = l.slug
      /\ l.refs \subseteq DOMAIN rows
  BY DEF InHand, l
<1>3. pc[b] = "commit" /\ l.op \in ByLock /\ l.row # Nothing =>
          /\ l.row \in Live' /\ held'[l.row] = b /\ l.row \in DOMAIN rows /\ rows[l.row].slug = l.slug
  BY DEF HoldsRow, l, InHand, Live, Present
<1>4. l.op \in ById => l.row \in DOMAIN rows'
  BY <1>2 DEF SameSlugs
<1>5. l.op \in ById /\ l.row \in Present' => rows'[l.row].slug = l.slug
  BY <1>2 DEF SameSlugs
<1>6. pc[b] = "commit" /\ l.op \in ByLock /\ l.row # Nothing => rows'[l.row].slug = l.slug
  BY <1>3 DEF SameSlugs, Live
<1>7. l.op = "delete" => \A i \in l.refs \cap Present' : rows'[i].slug = l.slug
  BY <1>2 DEF SameSlugs
<1>8. l.refs \subseteq DOMAIN rows'
  BY <1>2 DEF SameSlugs
<1> QED
  BY <1>1, <1>2, <1>3, <1>4, <1>5, <1>6, <1>7, <1>8 DEF InHand

\* An insertion keeps the slugs,
LEMMA SlugsAdded ==
    ASSUME Kinds, NEW a \in Flying, NEW olds, NEW ver,
           Fresh(a, olds, ver), Insert(a, olds, ver)
    PROVE  SameSlugs
<1>1. ver \in Record /\ ver.active /\ a \in Editor
  BY DEF Fresh, Flying
<1>2. RowsAfter(a, olds, ver)
  BY <1>1, InsertRows
<1>3. Present' = Present \cup {Len(rows) + 1}
  BY <1>1, InsertSets
<1>4. /\ Len(rows) \in Nat /\ DOMAIN rows = 1 .. Len(rows)
      /\ DOMAIN rows' = 1 .. Len(rows) + 1
  BY <1>2, PresentIs DEF RowsAfter
<1>5. \A i \in Present : rows'[i].slug = rows[i].slug
  BY <1>2 DEF RowsAfter
<1>6. \A i \in DOMAIN rows : i # Len(rows) + 1 /\ i \in DOMAIN rows'
  BY <1>4
<1> QED
  BY <1>3, <1>5, <1>6 DEF SameSlugs

\* so does a publish or an archive,
LEMMA SlugsChanged == ASSUME Kinds, HandsInv, NEW a, Changes(a) PROVE SameSlugs
<1>1. a \in Flying /\ CommitState(a) /\ loc[a].row \in Present
  BY InHandOf DEF Changes, CommitState, ById
<1>2. DOMAIN rows' = 1 .. Len(rows)
  BY <1>1, StateRows
<1>3. \A i \in Present : rows'[i].slug = rows[i].slug
  BY <1>1, StateRows
<1>4. Present' = Present
  BY <1>1, StateSets
<1> QED
  BY <1>2, <1>3, <1>4, PresentIs DEF SameSlugs

\* a delete,
LEMMA SlugsDeleted == ASSUME Kinds, NEW a, Deletes(a) PROVE SameSlugs
<1>1. a \in Flying /\ CommitDelete(a)
  BY DEF Deletes
<1> QED
  BY <1>1, DeleteRows, DeleteSets, PresentIs DEF SameSlugs

\* and a step that writes no row.
LEMMA SlugsSame == ASSUME UNCHANGED rows PROVE SameSlugs
BY SameSets DEF SameSlugs

\* A request keeps its row while another releases others.
LEMMA StillHeld ==
    ASSUME Kinds, HandsInv, NEW a \in Editor, NEW b \in Flying, b # a, HoldsRow(b),
           \/ held' = held \/ held' = Released(a)
           \/ \E olds, ver : Insert(a, olds, ver)
    PROVE  held'[loc[b].row] = b
<1>1. loc[b].row \in 1 .. Len(rows) /\ held[loc[b].row] = b
  BY HeldRow
<1> QED
  BY <1>1, ReleaseHeld, InsertHeld

\* Every step keeps what the requests know.
LEMMA HandsStep ==
    ASSUME Kinds, HandsInv, [ConfigNext]_configVars
    PROVE  HandsInv'
<1>1. ASSUME NEW a \in Editor, SetsForth(a), NEW b \in Flying' PROVE InHand(b)'
  <2>1. PICK l : Begin(a, l) /\ SetsOut(l)
    BY <1>1 DEF SetsForth
  <2>2. /\ pc'[a] = "write" /\ loc'[a] = l /\ rows' = rows /\ held' = held
        /\ \A c \in Editor \ {a} : pc'[c] = pc[c] /\ loc'[c] = loc[c] /\ (c \in Flying' <=> c \in Flying)
    BY <2>1, Moved DEF Begin, Becomes
  <2>3. CASE b = a
    <3>1. l.op \in ById => l.row \in Live' /\ l.row \in DOMAIN rows' /\ rows'[l.row].slug = l.slug
      BY <2>1, <2>2, SameSets, PresentIs DEF SetsOut, ById
    <3> QED
      BY <2>1, <2>2, <2>3, <3>1 DEF SetsOut, InHand
  <2>4. CASE b # a
    <3>1. b \in Editor /\ b \in Flying
      BY <2>2, <2>4 DEF Flying
    <3> QED
      BY <2>2, <2>4, <3>1, HandKept, SlugsSame, SameSets, HeldRow DEF HandsInv
  <2> QED
    BY <2>3, <2>4
<1>2. ASSUME NEW a \in Editor, Quits(a), NEW b \in Flying' PROVE InHand(b)'
  <2>1. b \in Flying /\ b # a /\ pc'[b] = pc[b] /\ loc'[b] = loc[b]
    BY <1>2, LeftIs DEF Quits, Left
  <2>2. rows' = rows
    BY <1>2 DEF Quits
  <2>3. HoldsRow(b) => loc[b].row \in Live' /\ held'[loc[b].row] = b
    BY <1>2, <2>1, <2>2, HeldRow, StillHeld, SameSets DEF Quits
  <2> QED
    BY <2>1, <2>2, <2>3, HandKept, SlugsSame DEF HandsInv
<1>3. ASSUME NEW a \in Editor, Takes(a), NEW b \in Flying' PROVE InHand(b)'
  <2>1. PICK m : LocksRow(a, m)
    BY <1>3 DEF Takes
  <2>2. /\ pc'[a] = "commit" /\ loc'[a] = m /\ rows' = rows
        /\ \A c \in Editor \ {a} : pc'[c] = pc[c] /\ loc'[c] = loc[c] /\ (c \in Flying' <=> c \in Flying)
    BY <1>3, <2>1, Moved DEF LocksRow, Takes
  <2>3. Found(a, m) /\ held' = IF m.row = Nothing THEN held ELSE [held EXCEPT ![m.row] = a]
    BY <2>1 DEF LocksRow
  <2>4. \A i \in 1 .. Len(rows) : i # m.row => held'[i] = held[i]
    BY <2>3, PresentIs
  <2>5. CASE b = a
    <3>1. /\ m.op = loc[a].op /\ m.slug = loc[a].slug /\ m.new = loc[a].new /\ m.op \in Ops
          /\ InHand(a)
      BY <1>3, <2>3 DEF Found, HandsInv, Takes, Locals
    <3>2. m.op \in ById => m.row \in Live /\ m.row = loc[a].row /\ rows[m.row].slug = m.slug
      BY <2>3, <3>1 DEF Found, InHand, Live
    <3>3. m.op \in {"generate", "rollback"} /\ m.row # Nothing => m.row \in Live /\ rows[m.row].slug = m.slug
      BY <2>3, <3>1 DEF Found, Holder, Of
    <3>4. m.op \in ByLock /\ m.row # Nothing => m.row \in Live /\ rows[m.row].slug = m.slug
      BY <3>2, <3>3 DEF ById, ByLock
    <3>5. \A i \in Live : i \in 1 .. Len(rows) /\ i \in DOMAIN rows /\ i \in DOMAIN held /\ i # Nothing
      BY PresentIs, ConfigAssumption
    <3>6. m.op \in ByLock /\ m.row # Nothing => held'[m.row] = a
      BY <2>3, <3>4, <3>5
    <3>7. m.op = "delete" => \A i \in m.refs : rows[i].slug = m.slug
      BY <2>3, <3>1 DEF Found, Of
    <3>8. m.refs \subseteq DOMAIN rows
      BY <2>3, PresentIs DEF Found
    <3>9. m.op # "edit" => m.new = m.slug
      BY <3>1 DEF InHand
    <3>10. (m.slug \in CampaignSlug <=> m.new \in CampaignSlug) /\ (m.op = "generate" => m.slug \in ThemeSlug)
      BY <3>1 DEF InHand
    <3>11. Present' = Present /\ Live' = Live
      BY <2>2, SameSets
    <3>12. /\ m.op \in ById => m.row \in DOMAIN rows /\ m.row # Nothing
           /\ m.op \in ById /\ m.row \in Present => rows[m.row].slug = m.slug
           /\ m.op = "delete" => \A i \in m.refs \cap Present : rows[i].slug = m.slug
      BY <3>2, <3>5, <3>7
    <3>13. loc'[b] = m /\ rows' = rows /\ b = a
      BY <2>2, <2>5
    <3> QED
      BY <3>4, <3>6, <3>8, <3>9, <3>10, <3>11, <3>12, <3>13 DEF InHand
  <2>6. CASE b # a
    <3>1. b \in Editor /\ b \in Flying
      BY <2>2, <2>6 DEF Flying
    <3>2. HoldsRow(b) => loc[b].row # m.row
      <4> SUFFICES ASSUME HoldsRow(b) PROVE loc[b].row # m.row
        OBVIOUS
      <4>1. loc[b].row # Nothing /\ held[loc[b].row] = b /\ b # Nothing
        BY <3>1, HeldRow DEF HoldsRow
      <4>2. m.row # Nothing => held[m.row] = Nothing
        BY <2>3 DEF Found
      <4> QED
        BY <4>1, <4>2
    <3>3. HoldsRow(b) => loc[b].row \in Live' /\ held'[loc[b].row] = b
      BY <2>2, <2>4, <3>1, <3>2, HeldRow, SameSets
    <3> QED
      BY <2>2, <2>6, <3>1, <3>3, HandKept, SlugsSame DEF HandsInv
  <2> QED
    BY <2>5, <2>6
<1>4. ASSUME NEW a \in Editor, Adds(a), NEW b \in Flying' PROVE InHand(b)'
  <2>1. b \in Flying /\ b # a /\ pc'[b] = pc[b] /\ loc'[b] = loc[b] /\ a \in Flying
    BY <1>4, LeftIs DEF Adds, Left
  <2>2. PICK olds, ver : Fresh(a, olds, ver) /\ Insert(a, olds, ver)
    BY <1>4 DEF Adds, InsertsRow
  <2>3. ver \in Record /\ ver.active /\ \A i \in olds : held[i] = a
    BY <2>2 DEF Fresh
  <2>4. Live' = (Live \ olds) \cup {Len(rows) + 1}
    BY <2>2, <2>3, InsertSets
  <2>5. HoldsRow(b) => loc[b].row \in Live' /\ held'[loc[b].row] = b
    BY <2>1, <2>2, <2>3, <2>4, HeldRow, StillHeld
  <2> QED
    BY <2>1, <2>2, <2>5, HandKept, SlugsAdded DEF HandsInv
<1>5. ASSUME NEW a \in Editor, Changes(a), NEW b \in Flying' PROVE InHand(b)'
  <2>1. b \in Flying /\ b # a /\ pc'[b] = pc[b] /\ loc'[b] = loc[b] /\ a \in Flying
    BY <1>5, LeftIs DEF Changes, CommitState, Left
  <2>2. loc[a].row \in Present /\ CommitState(a) /\ held' = Released(a)
    BY <1>5, InHandOf DEF Changes, CommitState, ById
  <2>3. Live' = Live
    BY <2>1, <2>2, StateSets
  <2>4. HoldsRow(b) => loc[b].row \in Live' /\ held'[loc[b].row] = b
    BY <2>1, <2>2, <2>3, HeldRow, StillHeld
  <2> QED
    BY <1>5, <2>1, <2>4, HandKept, SlugsChanged DEF HandsInv
<1>6. ASSUME NEW a \in Editor, Deletes(a), NEW b \in Flying' PROVE InHand(b)'
  <2>1. b \in Flying /\ b # a /\ pc'[b] = pc[b] /\ loc'[b] = loc[b] /\ a \in Flying /\ CommitDelete(a)
    BY <1>6, LeftIs DEF Deletes, CommitDelete, Left
  <2>2. /\ \A i \in loc[a].refs \cap Present : Free(i, a)
        /\ held' = held
    BY <2>1 DEF CommitDelete
  <2>3. Live' = Live \ (loc[a].refs \cap Present)
    BY <2>1, DeleteSets
  <2>4. HoldsRow(b) => loc[b].row \in Live' /\ held'[loc[b].row] = b
    BY <2>1, <2>2, <2>3, HeldRow DEF Free
  <2> QED
    BY <1>6, <2>1, <2>4, HandKept, SlugsDeleted DEF HandsInv
<1>7. CASE RenderTribute \/ FinishTribute \/ UNCHANGED configVars
  <2>1. UNCHANGED <<rows, held, pc, loc>>
    BY <1>7 DEF RenderTribute, FinishTribute, configVars
  <2> QED
    BY <2>1, SameSets DEF HandsInv, InHand, Flying
<1> QED
  BY <1>1, <1>2, <1>3, <1>4, <1>5, <1>6, <1>7, StepKinds DEF HandsInv

\* It holds at the start.
LEMMA StartHands == ConfigInit => Kinds /\ HandsInv
<1> SUFFICES ASSUME ConfigInit PROVE Kinds /\ HandsInv
  OBVIOUS
<1>1. PICK t \in ThemeSlug, c \in CampaignSlug, state \in {"draft", "published"} :
         rows = <<Version(t, state, Nothing), Version(c, "published", 1)>>
  BY DEF ConfigInit
<1>2. Version(t, state, Nothing) \in RowOrGap /\ Version(c, "published", 1) \in RowOrGap
  BY DEF Version, Record, RowOrGap, Slug
<1>3. rows \in Seq(RowOrGap) /\ Len(rows) = 2
  BY <1>1, <1>2
<1>4. held \in [1 .. 2 -> Editor \cup {Nothing}] /\ 2 \in Nat
  BY DEF ConfigInit
<1>5. held \in Seq(Editor \cup {Nothing}) /\ Len(held) = 2
  BY <1>4, Remade
<1>6. Flying = {}
  BY DEF ConfigInit, Flying
<1> QED
  BY <1>3, <1>5, <1>6 DEF ConfigInit, Kinds, HandsInv

\* The types, and what the requests know.
BaseInv == Kinds /\ HandsInv

\* A slug has one active row: the partial unique index.
Single == \A i, j \in Live : rows[i].slug = rows[j].slug => i = j

\* A reference is to a row that is there, and is not the row itself.
ForeignKey == \A i \in Present : rows[i].theme # Nothing => rows[i].theme \in Present /\ rows[i].theme # i

\* Nothing pinned is a draft, nor is the campaign a tribute is stamped with; while
\* the tribute is awaited, that campaign is active.
Marked == /\ pins \subseteq DOMAIN rows
          /\ \A i \in pins \cap Present : rows[i].state # "draft"
          /\ stamp # Nothing => /\ stamp \in Present /\ rows[stamp].state # "draft"
                                /\ rows[stamp].slug \in CampaignSlug
                                /\ awaited => stamp \in Live

-----------------------------------------------------------------------------
\* The sets of rows after an insertion.
AddsRow(a, olds, ver) ==
    LET new == Len(rows) + 1 IN
    /\ Fresh(a, olds, ver) /\ Insert(a, olds, ver) /\ RowsAfter(a, olds, ver)
    /\ new \notin Present /\ new \notin DOMAIN rows /\ new # Nothing
    /\ DOMAIN rows \subseteq DOMAIN rows'
    /\ Present' = Present \cup {new} /\ Live' = (Live \ olds) \cup {new}
    /\ \A s : Of(s)' = IF ver.slug = s THEN Of(s) \cup {new} ELSE Of(s)

\* What an insertion does to the rows and their sets.
LEMMA AddsForms == ASSUME Kinds, NEW a, Adds(a) PROVE \E olds, ver : AddsRow(a, olds, ver)
<1>1. PICK olds, ver : Fresh(a, olds, ver) /\ Insert(a, olds, ver)
  BY DEF Adds, InsertsRow
<1>2. ver \in Record /\ ver.active /\ a \in Editor
  BY <1>1 DEF Fresh, Adds, Flying
<1>3. RowsAfter(a, olds, ver)
  BY <1>1, <1>2, InsertRows
<1>4. /\ Len(rows) \in Nat /\ DOMAIN rows = 1 .. Len(rows)
      /\ DOMAIN rows' = 1 .. Len(rows) + 1
  BY <1>3, PresentIs DEF RowsAfter
<1>5. /\ Len(rows) + 1 \notin DOMAIN rows /\ DOMAIN rows \subseteq DOMAIN rows'
      /\ Len(rows) + 1 # Nothing
  BY <1>4, ConfigAssumption
<1>6. /\ Len(rows) + 1 \notin Present
      /\ Present' = Present \cup {Len(rows) + 1}
      /\ Live' = (Live \ olds) \cup {Len(rows) + 1}
  BY <1>1, <1>2, InsertSets
<1>7. \A s : Of(s)' = IF ver.slug = s THEN Of(s) \cup {Len(rows) + 1} ELSE Of(s)
  BY <1>1, <1>2, InsertSets
<1> QED
  BY <1>1, <1>3, <1>5, <1>6, <1>7 DEF AddsRow

\* The old rows keep their slug, and a row that is no draft never becomes one.
OldRows == /\ SameSlugs
           /\ \A i \in Present \cap Present' : rows[i].state # "draft" => rows'[i].state # "draft"

\* Every step does so.
LEMMA OldRowsStay ==
    ASSUME BaseInv, [ConfigNext]_configVars
    PROVE  OldRows
<1>0. Kinds /\ HandsInv
  BY DEF BaseInv
<1>1. CASE UNCHANGED rows
  BY <1>1, SlugsSame DEF OldRows
<1>2. ASSUME NEW a, Adds(a) PROVE OldRows
  <2>1. PICK olds, ver : AddsRow(a, olds, ver)
    BY <1>0, <1>2, AddsForms
  <2>2. SameSlugs
    BY <1>0, <1>2, <2>1, SlugsAdded DEF AddsRow, Adds
  <2> QED
    BY <2>1, <2>2 DEF OldRows, AddsRow, RowsAfter
<1>3. ASSUME NEW a, Changes(a) PROVE OldRows
  <2>1. a \in Flying /\ CommitState(a) /\ loc[a].row \in Present
    BY <1>0, <1>3, InHandOf DEF Changes, CommitState, ById
  <2>2. \A i \in Present : (i # loc[a].row => rows'[i].state = rows[i].state) /\ (i = loc[a].row => rows'[i].state # "draft")
    BY <1>0, <2>1, StateRows
  <2> QED
    BY <1>0, <1>3, <2>2, SlugsChanged DEF OldRows
<1>4. ASSUME NEW a, Deletes(a) PROVE OldRows
  <2>1. a \in Flying /\ CommitDelete(a)
    BY <1>4 DEF Deletes
  <2>2. \A i \in Present \ (loc[a].refs \cap Present) : rows'[i].state = rows[i].state
    BY <1>0, <2>1, DeleteRows
  <2>3. Present' = Present \ (loc[a].refs \cap Present)
    BY <1>0, <2>1, DeleteSets
  <2> QED
    BY <1>0, <1>4, <2>2, <2>3, SlugsDeleted DEF OldRows
<1>5. ASSUME NEW a, SetsForth(a) \/ Quits(a) \/ Takes(a) PROVE UNCHANGED rows
  BY <1>5 DEF SetsForth, Begin, Quits, Takes
<1>6. RenderTribute \/ FinishTribute \/ UNCHANGED configVars => UNCHANGED rows
  BY DEF RenderTribute, FinishTribute, configVars
<1> QED
  BY <1>0, <1>1, <1>2, <1>3, <1>4, <1>5, <1>6, StepKinds

\* Apart from an insertion no row becomes live.
LEMMA LiveShrinks ==
    ASSUME BaseInv, [ConfigNext]_configVars, \A a \in Editor : ~Adds(a)
    PROVE  Live' \subseteq Live /\ Present' \subseteq Present /\ DOMAIN rows' = DOMAIN rows
<1>0. Kinds /\ HandsInv
  BY DEF BaseInv
<1>1. CASE UNCHANGED rows
  BY <1>1, SameSets
<1>2. ASSUME NEW a, SetsForth(a) \/ Quits(a) \/ Takes(a) PROVE UNCHANGED rows
  BY <1>2 DEF SetsForth, Begin, Quits, Takes
<1>3. RenderTribute \/ FinishTribute \/ UNCHANGED configVars => UNCHANGED rows
  BY DEF RenderTribute, FinishTribute, configVars
<1>4. ASSUME NEW a, Changes(a) PROVE Live' \subseteq Live /\ Present' \subseteq Present /\ DOMAIN rows' = DOMAIN rows
  <2>1. a \in Flying /\ CommitState(a) /\ loc[a].row \in Present
    BY <1>0, <1>4, InHandOf DEF Changes, CommitState, ById
  <2>2. DOMAIN rows' = 1 .. Len(rows)
    BY <1>0, <2>1, StateRows
  <2>3. Live' = Live /\ Present' = Present
    BY <1>0, <2>1, StateSets
  <2> QED
    BY <1>0, <2>2, <2>3, PresentIs
<1>5. ASSUME NEW a, Deletes(a) PROVE Live' \subseteq Live /\ Present' \subseteq Present /\ DOMAIN rows' = DOMAIN rows
  <2>1. a \in Flying /\ CommitDelete(a)
    BY <1>5 DEF Deletes
  <2>2. DOMAIN rows' = 1 .. Len(rows)
    BY <1>0, <2>1, DeleteRows
  <2>3. Live' \subseteq Live /\ Present' \subseteq Present
    BY <1>0, <2>1, DeleteSets
  <2> QED
    BY <1>0, <2>2, <2>3, PresentIs
<1> QED
  BY <1>0, <1>1, <1>2, <1>3, <1>4, <1>5, StepKinds

\* Live rows are present, and present rows were inserted.
LEMMA LiveRows == ASSUME Kinds PROVE Live \subseteq Present /\ Present \subseteq DOMAIN rows
BY PresentIs

\* Every step keeps one active row for a slug.
LEMMA SingleStep ==
    ASSUME BaseInv, Single, [ConfigNext]_configVars
    PROVE  Single'
<1>0. Kinds /\ OldRows
  BY OldRowsStay DEF BaseInv
<1>1. ASSUME NEW a, Adds(a) PROVE Single'
  <2>1. PICK olds, ver : AddsRow(a, olds, ver)
    BY <1>0, <1>1, AddsForms
  <2> DEFINE new == Len(rows) + 1
  <2>2. /\ Live' = (Live \ olds) \cup {new} /\ new \notin Live /\ rows'[new] = ver
        /\ Holder(ver.slug) \subseteq olds
    BY <1>0, <2>1, LiveRows DEF AddsRow, RowsAfter, Fresh
  <2>3. \A i \in Live : rows'[i].slug = rows[i].slug
    BY <1>0, <2>1, LiveRows DEF AddsRow, RowsAfter
  <2>4. \A i \in Live \ olds : rows[i].slug # ver.slug
    BY <1>0, <2>2, LiveRows DEF Holder, Of
  <2> HIDE DEF new
  <2> QED
    BY <2>2, <2>3, <2>4 DEF Single
<1>2. CASE \A a \in Editor : ~Adds(a)
  <2>1. Live' \subseteq Live /\ Live \subseteq DOMAIN rows /\ Live' \subseteq Present'
    BY <1>0, <1>2, LiveShrinks, LiveRows DEF Live
  <2>2. \A i \in Live' : rows'[i].slug = rows[i].slug
    BY <1>0, <2>1 DEF OldRows, SameSlugs
  <2> QED
    BY <2>1, <2>2 DEF Single
<1> QED
  BY <1>1, <1>2

\* Every step keeps the references.
LEMMA ForeignKeyStep ==
    ASSUME BaseInv, ForeignKey, [ConfigNext]_configVars
    PROVE  ForeignKey'
<1>0. Kinds /\ HandsInv
  BY DEF BaseInv
<1>1. CASE UNCHANGED rows
  BY <1>1, SameSets DEF ForeignKey
<1>2. ASSUME NEW a, SetsForth(a) \/ Quits(a) \/ Takes(a) PROVE UNCHANGED rows
  BY <1>2 DEF SetsForth, Begin, Quits, Takes
<1>3. RenderTribute \/ FinishTribute \/ UNCHANGED configVars => UNCHANGED rows
  BY DEF RenderTribute, FinishTribute, configVars
<1>4. ASSUME NEW a, Adds(a) PROVE ForeignKey'
  <2>1. PICK olds, ver : AddsRow(a, olds, ver)
    BY <1>0, <1>4, AddsForms
  <2> DEFINE new == Len(rows) + 1
  <2>2. /\ Present' = Present \cup {new} /\ new \notin Present /\ rows'[new] = ver
        /\ ver.theme \in Present \cup {Nothing}
    BY <2>1 DEF AddsRow, RowsAfter, Fresh
  <2>3. \A i \in Present : rows'[i].theme = rows[i].theme \/ rows'[i].theme = new
    BY <2>1 DEF AddsRow, RowsAfter
  <2> HIDE DEF new
  <2> QED
    BY <2>2, <2>3 DEF ForeignKey
<1>5. ASSUME NEW a, Changes(a) PROVE ForeignKey'
  <2>1. a \in Flying /\ CommitState(a) /\ loc[a].row \in Present
    BY <1>0, <1>5, InHandOf DEF Changes, CommitState, ById
  <2>2. \A i \in Present : rows'[i].theme = rows[i].theme \/ (rows'[i].theme = loc[a].row /\ i # loc[a].row)
    BY <1>0, <2>1, StateRows
  <2>3. Present' = Present
    BY <1>0, <2>1, StateSets
  <2> QED
    BY <2>1, <2>2, <2>3 DEF ForeignKey
<1>6. ASSUME NEW a, Deletes(a) PROVE ForeignKey'
  <2> DEFINE gone == loc[a].refs \cap Present
  <2>1. a \in Flying /\ CommitDelete(a)
    BY <1>6 DEF Deletes
  <2>2. \A i \in Present \ gone : rows'[i].theme = IF rows[i].theme \in gone THEN Nothing ELSE rows[i].theme
    BY <1>0, <2>1, DeleteRows
  <2>3. Present' = Present \ gone
    BY <1>0, <2>1, DeleteSets
  <2> HIDE DEF gone
  <2> QED
    BY <2>2, <2>3 DEF ForeignKey
<1> QED
  BY <1>0, <1>1, <1>2, <1>3, <1>4, <1>5, <1>6, StepKinds

\* The row that replaces what the tribute is stamped with is as good.
LEMMA StampMoves ==
    ASSUME BaseInv, Marked, NEW a \in Flying, NEW olds, NEW ver, AddsRow(a, olds, ver),
           stamp \in olds, loc[a].op # "generate", stamp # Nothing, pc[a] = "commit"
    PROVE  ver.state # "draft" /\ ver.slug \in CampaignSlug
<1> DEFINE l == loc[a]
<1>1. /\ stamp = l.row /\ rows[l.row].slug = l.slug /\ ver.slug = l.new
      /\ rows[stamp].state # "draft" /\ rows[stamp].slug \in CampaignSlug
  BY DEF AddsRow, Fresh, Marked
<1>2. l.slug \in CampaignSlug <=> l.new \in CampaignSlug
  BY DEF BaseInv, HandsInv, InHand
<1>3. l.op \in {"edit", "rollback"}
  BY DEF AddsRow, Fresh
<1> QED
  BY <1>1, <1>2, <1>3 DEF AddsRow, Fresh

\* A generation does not touch the row of a tribute.
LEMMA GenerateSpares ==
    ASSUME BaseInv, Marked, NEW a \in Flying, NEW olds, NEW ver, AddsRow(a, olds, ver),
           loc[a].op = "generate", stamp # Nothing
    PROVE  stamp \notin olds
<1>1. loc[a].slug \in ThemeSlug
  BY DEF BaseInv, HandsInv, InHand
<1>2. \A i \in olds : rows[i].slug = loc[a].slug
  BY DEF AddsRow, Fresh
<1> QED
  BY <1>1, <1>2, ConfigAssumption DEF Marked

\* Every step keeps the pins and the stamp apart from drafts.
LEMMA MarkedStep ==
    ASSUME BaseInv, Single, ForeignKey, Marked, [ConfigNext]_configVars
    PROVE  Marked'
<1>0. Kinds /\ HandsInv /\ OldRows
  BY OldRowsStay DEF BaseInv
<1>1. Live \subseteq Present /\ Present \subseteq DOMAIN rows
  BY <1>0, LiveRows
<1>2. ASSUME stamp' = stamp, stamp # Nothing => stamp \in Present', awaited' = awaited,
             awaited /\ stamp # Nothing => stamp \in Live'
      PROVE  stamp' # Nothing => /\ stamp' \in Present' /\ rows'[stamp'].state # "draft"
                                 /\ rows'[stamp'].slug \in CampaignSlug
                                 /\ awaited' => stamp' \in Live'
  BY <1>0, <1>1, <1>2 DEF Marked, OldRows, SameSlugs
<1>3. ASSUME pins' = pins
      PROVE  pins' \subseteq DOMAIN rows' /\ \A i \in pins' \cap Present' : rows'[i].state # "draft"
  BY <1>0, <1>1, <1>3 DEF Marked, OldRows, SameSlugs
<1>4. ASSUME NEW a, Adds(a) PROVE Marked'
  <2>1. PICK olds, ver : AddsRow(a, olds, ver)
    BY <1>0, <1>4, AddsForms
  <2> DEFINE new == Len(rows) + 1
  <2>2. /\ Live' = (Live \ olds) \cup {new} /\ rows'[new] = ver /\ new # Nothing
        /\ Present' = Present \cup {new}
        /\ stamp' \in IF stamp \notin olds \/ loc[a].op = "generate" THEN {stamp}
                      ELSE IF awaited THEN {new} ELSE {stamp, new}
    BY <2>1 DEF AddsRow, RowsAfter, Insert
  <2>3. pins' = pins /\ awaited' = awaited /\ a \in Flying /\ pc[a] = "commit"
    BY <1>4 DEF Adds
  <2>4. \A i \in olds : i \in Live
    BY <2>1 DEF AddsRow, Fresh
  <2>5. Nothing \notin Live
    BY <1>0, PresentIs, ConfigAssumption
  <2> HIDE DEF new
  <2>6. CASE stamp \in olds /\ loc[a].op # "generate" /\ stamp' = new
    <3>1. ver.state # "draft" /\ ver.slug \in CampaignSlug
      BY <2>1, <2>3, <2>4, <2>5, <2>6, StampMoves
    <3> QED
      BY <1>3, <2>2, <2>3, <2>6, <3>1 DEF Marked
  <2>7. CASE stamp \in olds /\ loc[a].op # "generate" /\ stamp' # new
    <3>1. stamp' = stamp /\ ~awaited
      BY <2>2, <2>7
    <3> QED
      BY <1>2, <1>3, <2>2, <2>3, <3>1 DEF Marked
  <2>8. CASE ~(stamp \in olds /\ loc[a].op # "generate")
    <3>1. stamp' = stamp
      BY <2>2, <2>8
    <3>2. stamp # Nothing => stamp \notin olds
      BY <2>1, <2>3, <2>8, GenerateSpares
    <3> QED
      BY <1>2, <1>3, <2>2, <2>3, <3>1, <3>2 DEF Marked
  <2> QED
    BY <2>6, <2>7, <2>8
<1>5. ASSUME NEW a, Changes(a) PROVE Marked'
  <2>1. a \in Flying /\ CommitState(a) /\ loc[a].row \in Present
    BY <1>0, <1>5, InHandOf DEF Changes, CommitState, ById
  <2>2. Live' = Live /\ Present' = Present /\ stamp' = stamp /\ awaited' = awaited /\ pins' = pins
    BY <1>0, <2>1, StateSets DEF CommitState
  <2> QED
    BY <1>2, <1>3, <2>2 DEF Marked
<1>6. ASSUME NEW a, Deletes(a) PROVE Marked'
  <2> DEFINE gone == loc[a].refs \cap Present
  <2>1. a \in Flying /\ CommitDelete(a)
    BY <1>6 DEF Deletes
  <2>2. /\ Live' = Live \ gone /\ Present' = Present \ gone /\ pins' = pins /\ awaited' = awaited
        /\ stamp' = IF stamp \in gone THEN Nothing ELSE stamp
    BY <1>0, <2>1, DeleteSets DEF CommitDelete
  <2> HIDE DEF gone
  <2> QED
    BY <1>2, <1>3, <2>2 DEF Marked
<1>7. CASE UNCHANGED <<rows, stamp, pins>> /\ (awaited' => awaited)
  BY <1>7, SameSets DEF Marked
<1>8. ASSUME NEW a, SetsForth(a) \/ Quits(a) \/ Takes(a) PROVE UNCHANGED <<rows, stamp, awaited, pins>>
  BY <1>8 DEF SetsForth, Begin, Quits, Takes
<1>9. CASE RenderTribute
  <2> DEFINE now == IF stamp = Nothing THEN Nothing
               ELSE IF \E i \in Holder(rows[stamp].slug) : rows[i].state = "published"
                    THEN CHOOSE i \in Holder(rows[stamp].slug) : TRUE
                    ELSE stamp
             style == IF now = Nothing THEN Nothing
                 ELSE IF rows[now].theme # Nothing /\ rows[rows[now].theme].state = "published"
                      THEN rows[now].theme ELSE Nothing
  <2>1. pins' = (pins \cup {now, style}) \ {Nothing} /\ UNCHANGED <<rows, stamp, awaited>>
    BY <1>9 DEF RenderTribute
  <2>2. now # Nothing => now \in Present /\ rows[now].state # "draft"
    <3>1. CASE stamp # Nothing /\ \E i \in Holder(rows[stamp].slug) : rows[i].state = "published"
      <4>1. PICK i \in Holder(rows[stamp].slug) : rows[i].state = "published"
        BY <3>1
      <4>2. now \in Holder(rows[stamp].slug)
        BY <3>1
      <4> HIDE DEF now
      <4>3. now = i
        BY <4>1, <4>2 DEF Single, Holder, Of
      <4> QED
        BY <1>1, <4>1, <4>3 DEF Holder
    <3>2. CASE ~(stamp # Nothing /\ \E i \in Holder(rows[stamp].slug) : rows[i].state = "published")
      <4>1. now = stamp
        BY <3>2
      <4> HIDE DEF now
      <4> QED
        BY <1>1, <4>1 DEF Marked
    <3> QED
      BY <3>1, <3>2
  <2>3. style # Nothing => now # Nothing /\ style = rows[now].theme /\ rows[style].state = "published"
    OBVIOUS
  <2> HIDE DEF now, style
  <2>4. style # Nothing => style \in Present /\ rows[style].state # "draft"
    BY <2>2, <2>3 DEF ForeignKey
  <2>5. Present' = Present /\ Live' = Live
    BY <2>1, SameSets
  <2> QED
    BY <1>1, <2>1, <2>2, <2>4, <2>5 DEF Marked
<1>10. CASE FinishTribute
  BY <1>7, <1>10 DEF FinishTribute
<1> QED
  BY <1>0, <1>4, <1>5, <1>6, <1>7, <1>8, <1>9, <1>10, StepKinds DEF configVars

\* The slugs a request works on.
Touched(a) == {loc[a].slug, loc[a].new}

\* Requests that are in flight together are known to be, and so is what both work on.
Together == \A a, b \in Flying : a # b => a \in beside /\ Touched(a) \cap Touched(b) \subseteq mixed

\* The slugs that two worked on at once, or that were renamed from.
Mistakable == renamed \cup mixed

\* Of a slug nobody mistakes, the active row, if it is a draft, proves that there
\* were drafts only.
ProvesDrafts(s) ==
    /\ Of(s) # {} => Holder(s) # {}
    /\ \A i \in Holder(s), j \in Of(s) : rows[i].state = "draft" => rows[j].state = "draft"

\* So it is for every slug nobody mistakes.
Drafts == \A s \in Slug \ Mistakable : ProvesDrafts(s)

\* What a request that deletes or generates has looked at stays so.
LookedAt(a) ==
    loc[a].op \in {"delete", "generate"} /\ loc[a].slug \notin Mistakable =>
       /\ \A j \in Of(loc[a].slug) : rows[j].state = "draft"
       /\ loc[a].op = "delete" /\ pc[a] = "commit" => Of(loc[a].slug) \subseteq loc[a].refs

\* So it is for every request.
Looked == \A a \in Flying : LookedAt(a)

-----------------------------------------------------------------------------
\* A step other than a request that sets out.
Goes == /\ Flying' \subseteq Flying /\ beside' = beside /\ mixed' = mixed
        /\ \A b \in Flying' : loc'[b].op = loc[b].op /\ loc'[b].slug = loc[b].slug /\ loc'[b].new = loc[b].new

\* Every other step is one.
LEMMA StepGoes ==
    ASSUME BaseInv, [ConfigNext]_configVars, \A a \in Editor : ~SetsForth(a)
    PROVE  Goes
<1>0. Kinds /\ HandsInv
  BY DEF BaseInv
<1>1. ASSUME NEW a \in Editor, Leave(a), beside' = beside, mixed' = mixed PROVE Goes
  BY <1>0, <1>1, LeftIs DEF Goes, Left
<1>2. ASSUME NEW a \in Editor, Takes(a) PROVE Goes
  <2>1. PICK m : LocksRow(a, m)
    BY <1>2 DEF Takes
  <2>2. /\ loc'[a] = m
        /\ \A c \in Editor \ {a} : loc'[c] = loc[c] /\ (c \in Flying' <=> c \in Flying)
    BY <1>0, <2>1, Moved DEF LocksRow
  <2>3. m.op = loc[a].op /\ m.slug = loc[a].slug /\ m.new = loc[a].new
    BY <2>1 DEF LocksRow, Found
  <2>4. a \in Flying /\ beside' = beside /\ mixed' = mixed /\ Flying' \subseteq Editor
    BY <1>2 DEF Takes, past, Flying
  <2>5. \A b \in Flying' : b \in Flying /\ loc'[b].op = loc[b].op /\ loc'[b].slug = loc[b].slug /\ loc'[b].new = loc[b].new
    BY <2>2, <2>3, <2>4
  <2> QED
    BY <2>4, <2>5 DEF Goes
<1>3. ASSUME NEW a \in Editor, Quits(a) \/ Adds(a) \/ Changes(a) \/ Deletes(a) PROVE Goes
  <2>1. Leave(a) /\ beside' = beside /\ mixed' = mixed
    BY <1>3 DEF Quits, Adds, Changes, Deletes, CommitState, CommitDelete, past
  <2> QED
    BY <1>1, <2>1
<1>4. CASE RenderTribute \/ FinishTribute \/ UNCHANGED configVars
  BY <1>4 DEF RenderTribute, FinishTribute, configVars, past, Goes, Flying
<1> QED
  BY <1>0, <1>2, <1>3, <1>4, StepKinds

\* Every step keeps track of who is in flight beside whom.
LEMMA TogetherStep ==
    ASSUME BaseInv, Together, [ConfigNext]_configVars
    PROVE  Together'
<1>1. ASSUME NEW a \in Editor, SetsForth(a) PROVE Together'
  <2>1. PICK l : Begin(a, l)
    BY <1>1 DEF SetsForth
  <2>2. /\ loc'[a] = l
        /\ \A c \in Editor \ {a} : loc'[c] = loc[c] /\ (c \in Flying' <=> c \in Flying)
    BY <2>1, Moved DEF Begin, Becomes, BaseInv
  <2>3. /\ beside \subseteq beside' /\ mixed \subseteq mixed'
        /\ \A b \in Flying : /\ a \in beside' /\ b \in beside'
                             /\ \A s \in {l.slug, l.new} \cap Touched(b) : s \in mixed'
    BY <2>1 DEF Begin, Touched
  <2>4. \A b \in Flying' \ {a} : b \in Flying /\ loc'[b] = loc[b]
    BY <2>2 DEF Flying
  <2>5. \A b \in Flying' \ {a} : Touched(b)' = Touched(b)
    BY <2>4 DEF Touched
  <2>6. Touched(a)' = {l.slug, l.new}
    BY <2>2 DEF Touched
  <2> SUFFICES ASSUME NEW b \in Flying', NEW c \in Flying', b # c
               PROVE  b \in beside' /\ Touched(b)' \cap Touched(c)' \subseteq mixed'
    BY DEF Together
  <2>7. CASE b = a
    <3>1. c \in Flying /\ Touched(c)' = Touched(c) /\ Touched(b)' = {l.slug, l.new}
      BY <2>4, <2>5, <2>6, <2>7
    <3> QED
      BY <2>3, <2>7, <3>1
  <2>8. CASE c = a
    <3>1. b \in Flying /\ Touched(b)' = Touched(b) /\ Touched(c)' = {l.slug, l.new}
      BY <2>4, <2>5, <2>6, <2>8
    <3> QED
      BY <2>3, <2>8, <3>1
  <2>9. CASE b # a /\ c # a
    <3>1. b \in Flying /\ Touched(b)' = Touched(b) /\ c \in Flying /\ Touched(c)' = Touched(c)
      BY <2>4, <2>5, <2>9
    <3> QED
      BY <2>3, <3>1 DEF Together
  <2> QED
    BY <2>7, <2>8, <2>9
<1>2. CASE \A a \in Editor : ~SetsForth(a)
  <2>1. Goes
    BY <1>2, StepGoes
  <2>2. \A b \in Flying' : b \in Flying /\ Touched(b)' = Touched(b)
    BY <2>1 DEF Goes, Touched
  <2> QED
    BY <2>1, <2>2 DEF Together, Goes
<1> QED
  BY <1>1, <1>2

\* The inductive invariant of the pins.
PinsInv == BaseInv /\ Single /\ ForeignKey /\ Marked /\ Together /\ Drafts /\ Looked /\ PinsNeedARename

\* A slug that was mistaken once remains so.
LEMMA MistakesGrow ==
    ASSUME Kinds, HandsInv, [ConfigNext]_configVars
    PROVE  Mistakable \subseteq Mistakable'
<1>1. ASSUME NEW a, Adds(a) PROVE Mistakable \subseteq Mistakable'
  <2>1. PICK olds, ver : Insert(a, olds, ver)
    BY <1>1 DEF Adds, InsertsRow
  <2> QED
    BY <1>1, <2>1 DEF Adds, Insert, Mistakable
<1>2. ASSUME NEW a, SetsForth(a) \/ Quits(a) \/ Takes(a) \/ Changes(a) \/ Deletes(a)
      PROVE  Mistakable \subseteq Mistakable'
  BY <1>2 DEF SetsForth, Begin, Quits, Takes, Changes, CommitState, Deletes, CommitDelete, past, Mistakable
<1>3. RenderTribute \/ FinishTribute \/ UNCHANGED configVars => Mistakable \subseteq Mistakable'
  BY DEF RenderTribute, FinishTribute, configVars, past, Mistakable
<1> QED
  BY <1>1, <1>2, <1>3, StepKinds

\* A row inserted under a slug nobody mistakes.
LEMMA FreshDrafts ==
    ASSUME PinsInv, NEW a \in Flying, NEW olds, NEW ver, AddsRow(a, olds, ver), pc[a] = "commit",
           ver.slug \notin Mistakable', Mistakable \subseteq Mistakable', ver.state = "draft"
    PROVE  \A j \in Of(ver.slug) : rows[j].state = "draft"
<1> DEFINE l == loc[a]
<1>1. Fresh(a, olds, ver) /\ Insert(a, olds, ver)
  BY DEF AddsRow
<1>2. ver.slug = l.new /\ ver.slug \in Slug \ Mistakable /\ Holder(ver.slug) \subseteq olds
  BY <1>1 DEF Fresh, Record
<1>3. ProvesDrafts(ver.slug) /\ InHand(a) /\ LookedAt(a)
  BY <1>2 DEF PinsInv, Drafts, Looked, BaseInv, HandsInv
<1>4. CASE l.op = "create"
  <2>1. Holder(ver.slug) = {}
    BY <1>1, <1>2, <1>4 DEF Fresh
  <2> QED
    BY <1>3, <2>1 DEF ProvesDrafts
<1>5. CASE l.op = "generate"
  <2>1. l.slug = ver.slug
    BY <1>2, <1>3, <1>5 DEF InHand
  <2> QED
    BY <1>2, <1>3, <1>5, <2>1 DEF LookedAt
<1>6. CASE l.op = "edit"
  <2>1. olds = {l.row} /\ l.row \in Live /\ rows[l.row].slug = l.slug /\ rows[l.row].state = "draft"
    BY <1>1, <1>6 DEF Fresh
  <2>2. CASE l.slug = ver.slug
    <3>1. l.row \in Holder(ver.slug)
      BY <2>1, <2>2 DEF Holder, Of, Live
    <3> QED
      BY <1>3, <2>1, <3>1 DEF ProvesDrafts
  <2>3. CASE l.slug # ver.slug
    <3>1. Holder(ver.slug) = {}
      BY <1>2, <2>1, <2>3 DEF Holder, Of
    <3> QED
      BY <1>3, <3>1 DEF ProvesDrafts
  <2> QED
    BY <2>2, <2>3
<1>7. l.op # "rollback"
  BY <1>1 DEF Fresh
<1> QED
  BY <1>1, <1>4, <1>5, <1>6, <1>7 DEF Fresh

\* Every step keeps what an active draft proves.
LEMMA DraftsStep ==
    ASSUME PinsInv, [ConfigNext]_configVars
    PROVE  Drafts'
<1>0. Kinds /\ HandsInv /\ BaseInv /\ OldRows /\ Mistakable \subseteq Mistakable' /\ Drafts
  BY OldRowsStay, MistakesGrow DEF BaseInv, PinsInv
<1>1. ASSUME NEW a, Adds(a), NEW s \in Slug \ Mistakable' PROVE ProvesDrafts(s)'
  <2>1. PICK olds, ver : AddsRow(a, olds, ver)
    BY <1>0, <1>1, AddsForms
  <2> DEFINE new == Len(rows) + 1
  <2>2. /\ new \notin Present /\ Live' = (Live \ olds) \cup {new}
        /\ Of(s)' = IF ver.slug = s THEN Of(s) \cup {new} ELSE Of(s)
        /\ rows'[new] = ver
        /\ \A i \in Present : rows'[i].state = rows[i].state
        /\ \A i \in olds : i = loc[a].row /\ rows[i].slug = loc[a].slug
        /\ Holder(ver.slug) \subseteq olds
        /\ Fresh(a, olds, ver) /\ Insert(a, olds, ver)
    BY <2>1 DEF AddsRow, RowsAfter, Fresh
  <2>3. Of(s) \subseteq Present /\ ProvesDrafts(s) /\ a \in Flying /\ pc[a] = "commit"
    BY <1>0, <1>1, SlugRowsAre DEF Drafts, Adds
  <2> HIDE DEF new
  <2>4. CASE ver.slug = s
    <3>1. Of(s)' = Of(s) \cup {new} /\ Holder(s)' = {new}
      BY <2>2, <2>3, <2>4 DEF Holder
    <3>2. ver.state = "draft" => \A j \in Of(s) : rows[j].state = "draft"
      BY <1>0, <1>1, <2>1, <2>3, <2>4, FreshDrafts
    <3>3. \A j \in Of(s) : rows'[j].state = rows[j].state
      BY <2>2, <2>3
    <3> QED
      BY <2>2, <3>1, <3>2, <3>3 DEF ProvesDrafts
  <2>5. CASE ver.slug # s
    <3>1. Of(s) \cap olds = {}
      <4> SUFFICES ASSUME NEW i \in Of(s), i \in olds PROVE FALSE
        OBVIOUS
      <4>1. loc[a].slug = s /\ loc[a].slug # ver.slug
        BY <2>2, <2>5 DEF Of
      <4>2. s \in renamed'
        BY <2>2, <4>1 DEF Insert
      <4> QED
        BY <4>2 DEF Mistakable
    <3>2. Of(s)' = Of(s) /\ Holder(s)' = Holder(s)
      BY <2>2, <2>3, <2>5, <3>1 DEF Holder
    <3>3. \A j \in Of(s) : rows'[j].state = rows[j].state
      BY <2>2, <2>3
    <3>4. Holder(s) \subseteq Of(s)
      BY DEF Holder
    <3> QED
      BY <2>3, <3>2, <3>3, <3>4 DEF ProvesDrafts
  <2> QED
    BY <2>4, <2>5
<1>2. ASSUME NEW a, Changes(a), NEW s \in Slug \ Mistakable' PROVE ProvesDrafts(s)'
  <2>1. a \in Flying /\ CommitState(a) /\ loc[a].row \in Live /\ loc[a].row \in Present
    BY <1>0, <1>2, InHandOf DEF Changes, CommitState, ById
  <2>2. \A i \in Present : (i # loc[a].row => rows'[i].state = rows[i].state) /\ (i = loc[a].row => rows'[i].state # "draft")
    BY <1>0, <2>1, StateRows
  <2>3. Of(s)' = Of(s) /\ Live' = Live
    BY <1>0, <2>1, StateSets
  <2>4. Holder(s)' = Holder(s) /\ Holder(s) \subseteq Of(s) /\ Of(s) \subseteq Present
    BY <1>0, <2>3, SlugRowsAre DEF Holder
  <2>5. ProvesDrafts(s)
    BY <1>0 DEF Drafts
  <2>6. loc[a].row \in Of(s) => Holder(s) = {loc[a].row}
    BY <2>1 DEF PinsInv, Single, Holder, Of
  <2> QED
    BY <2>2, <2>3, <2>4, <2>5, <2>6 DEF ProvesDrafts
<1>3. ASSUME NEW a, Deletes(a), NEW s \in Slug \ Mistakable' PROVE ProvesDrafts(s)'
  <2> DEFINE gone == loc[a].refs \cap Present
  <2>1. a \in Flying /\ CommitDelete(a) /\ loc[a].op = "delete" /\ pc[a] = "commit"
    BY <1>3 DEF Deletes, CommitDelete
  <2>2. \A i \in Present \ gone : rows'[i].state = rows[i].state
    BY <1>0, <2>1, DeleteRows
  <2>3. Of(s)' = Of(s) \ gone /\ Live' = Live \ gone
    BY <1>0, <2>1, DeleteSets
  <2>4. Of(s) \subseteq Present /\ ProvesDrafts(s) /\ InHand(a) /\ LookedAt(a)
    BY <1>0, <2>1, SlugRowsAre DEF Drafts, HandsInv, PinsInv, Looked
  <2>5. CASE s = loc[a].slug
    <3>1. Of(s) \subseteq gone
      BY <1>0, <2>1, <2>4, <2>5 DEF LookedAt
    <3> HIDE DEF gone
    <3>2. Of(s)' = {} /\ Holder(s)' = {}
      BY <2>3, <3>1 DEF Holder
    <3> QED
      BY <3>2 DEF ProvesDrafts
  <2>6. CASE s # loc[a].slug
    <3>1. Of(s) \cap gone = {}
      BY <2>1, <2>4, <2>6 DEF InHand, Of
    <3> HIDE DEF gone
    <3>2. Of(s)' = Of(s) /\ Holder(s)' = Holder(s) /\ Holder(s) \subseteq Of(s)
      BY <2>3, <3>1 DEF Holder
    <3>3. \A j \in Of(s) : rows'[j].state = rows[j].state
      BY <2>2, <2>4, <3>1
    <3> QED
      BY <2>4, <3>2, <3>3 DEF ProvesDrafts
  <2> QED
    BY <2>5, <2>6
<1>4. ASSUME UNCHANGED rows PROVE Drafts'
  <2>1. \A s : Of(s)' = Of(s) /\ Holder(s)' = Holder(s)
    BY <1>4, SameSets DEF Holder
  <2>2. \A s : ProvesDrafts(s) => ProvesDrafts(s)'
    BY <1>4, <2>1 DEF ProvesDrafts
  <2> QED
    BY <1>0, <2>2 DEF Drafts
<1>5. ASSUME NEW a, SetsForth(a) \/ Quits(a) \/ Takes(a) PROVE UNCHANGED rows
  BY <1>5 DEF SetsForth, Begin, Quits, Takes
<1>6. RenderTribute \/ FinishTribute \/ UNCHANGED configVars => UNCHANGED rows
  BY DEF RenderTribute, FinishTribute, configVars
<1> QED
  BY <1>0, <1>1, <1>2, <1>3, <1>4, <1>5, <1>6, StepKinds DEF Drafts

\* What another request does to the rows of a slug that both do not share.
SparesSlug(s) == Of(s)' \subseteq Of(s) /\ \A j \in Of(s)' : rows'[j].state = rows[j].state

\* No other request touches the rows of a slug it does not share.
LEMMA OthersSpare ==
    ASSUME PinsInv, NEW a \in Flying, NEW b \in Flying, a # b,
           NEW s, s = loc[b].slug, s \notin mixed,
           Adds(a) \/ Changes(a) \/ Deletes(a)
    PROVE  SparesSlug(s)
<1>0. Kinds /\ HandsInv
  BY DEF PinsInv, BaseInv
<1>1. loc[a].slug # s /\ loc[a].new # s
  BY DEF PinsInv, Together, Touched
<1>2. Of(s) \subseteq Present
  BY <1>0, SlugRowsAre
<1>3. CASE Adds(a)
  <2>1. PICK olds, ver : AddsRow(a, olds, ver)
    BY <1>0, <1>3, AddsForms
  <2>2. Of(s)' = Of(s) /\ \A j \in Present : rows'[j].state = rows[j].state
    BY <1>1, <2>1 DEF AddsRow, RowsAfter, Fresh
  <2> QED
    BY <1>2, <2>2 DEF SparesSlug
<1>4. CASE Changes(a)
  <2>1. CommitState(a) /\ loc[a].row \in Present /\ rows[loc[a].row].slug = loc[a].slug
    BY <1>0, <1>4, InHandOf DEF Changes, CommitState, ById, HandsInv, InHand
  <2>2. Of(s)' = Of(s)
    BY <1>0, <2>1, StateSets
  <2>3. \A i \in Present : i # loc[a].row => rows'[i].state = rows[i].state
    BY <1>0, <2>1, StateRows
  <2>4. loc[a].row \notin Of(s)
    BY <1>1, <2>1 DEF Of
  <2> QED
    BY <1>2, <2>2, <2>3, <2>4 DEF SparesSlug
<1>5. CASE Deletes(a)
  <2> DEFINE gone == loc[a].refs \cap Present
  <2>1. CommitDelete(a)
    BY <1>5 DEF Deletes
  <2>2. Of(s)' = Of(s) \ gone
    BY <1>0, <2>1, DeleteSets
  <2>3. \A i \in Present \ gone : rows'[i].state = rows[i].state
    BY <1>0, <2>1, DeleteRows
  <2> HIDE DEF gone
  <2> QED
    BY <1>2, <2>2, <2>3 DEF SparesSlug
<1> QED
  BY <1>3, <1>4, <1>5

\* Every step keeps what the requests looked at.
LEMMA LookedStep ==
    ASSUME PinsInv, [ConfigNext]_configVars
    PROVE  Looked'
<1>0. Kinds /\ HandsInv /\ BaseInv /\ Mistakable \subseteq Mistakable' /\ Drafts /\ Looked
  BY MistakesGrow DEF BaseInv, PinsInv
\* A request that neither sets out nor locks its rows in this step.
<1>1. ASSUME NEW b \in Flying, pc'[b] = pc[b], loc'[b] = loc[b],
             NEW s, s = loc[b].slug, SparesSlug(s) \/ s \in mixed
      PROVE  LookedAt(b)'
  <2>1. LookedAt(b)
    BY <1>0 DEF Looked
  <2>2. CASE s \in Mistakable'
    BY <1>1, <2>2 DEF LookedAt
  <2>3. CASE s \notin Mistakable'
    <3>1. SparesSlug(s) /\ s \notin Mistakable
      BY <1>0, <1>1, <2>3 DEF Mistakable
    <3> QED
      BY <1>1, <2>1, <3>1 DEF LookedAt, SparesSlug
  <2> QED
    BY <2>2, <2>3
<1>2. ASSUME UNCHANGED rows PROVE \A s : SparesSlug(s)
  BY <1>2, SameSets DEF SparesSlug
<1>3. ASSUME NEW a \in Editor, SetsForth(a), NEW b \in Flying' PROVE LookedAt(b)'
  <2>1. PICK l : Begin(a, l) /\ SetsOut(l)
    BY <1>3 DEF SetsForth
  <2>2. /\ pc'[a] = "write" /\ loc'[a] = l /\ rows' = rows
        /\ \A c \in Editor \ {a} : pc'[c] = pc[c] /\ loc'[c] = loc[c] /\ (c \in Flying' <=> c \in Flying)
    BY <1>0, <2>1, Moved DEF Begin, Becomes
  <2>3. CASE b = a
    <3> SUFFICES ASSUME l.op \in {"delete", "generate"}, l.slug \notin Mistakable'
                 PROVE  \A j \in Of(l.slug)' : rows'[j].state = "draft"
      BY <2>2, <2>3 DEF LookedAt
    <3>1. l.slug \in Slug \ Mistakable
      BY <1>0, <2>1 DEF SetsOut, Locals
    <3>2. \E i \in Holder(l.slug) : rows[i].state = "draft"
      BY <2>1 DEF SetsOut
    <3>3. ProvesDrafts(l.slug)
      BY <1>0, <3>1 DEF Drafts
    <3> QED
      BY <2>2, <3>2, <3>3, SameSets DEF ProvesDrafts
  <2>4. CASE b # a
    <3>1. b \in Flying
      BY <2>2, <2>4 DEF Flying
    <3> QED
      BY <1>1, <1>2, <2>2, <2>4, <3>1 DEF Flying
  <2> QED
    BY <2>3, <2>4
<1>4. ASSUME NEW a \in Editor, Takes(a), NEW b \in Flying' PROVE LookedAt(b)'
  <2>1. PICK m : LocksRow(a, m)
    BY <1>4 DEF Takes
  <2>2. /\ pc'[a] = "commit" /\ loc'[a] = m /\ rows' = rows
        /\ \A c \in Editor \ {a} : pc'[c] = pc[c] /\ loc'[c] = loc[c] /\ (c \in Flying' <=> c \in Flying)
    BY <1>0, <1>4, <2>1, Moved DEF LocksRow, Takes
  <2>3. /\ m.op = loc[a].op /\ m.slug = loc[a].slug
        /\ m.op = "delete" => m.refs = Of(m.slug)
    BY <2>1 DEF LocksRow, Found
  <2>4. CASE b = a
    <3>1. LookedAt(a) /\ \A s : Of(s)' = Of(s)
      BY <1>0, <1>4, <2>2, SameSets DEF Looked, Takes
    <3> QED
      BY <1>0, <2>2, <2>3, <2>4, <3>1 DEF LookedAt
  <2>5. CASE b # a
    <3>1. b \in Flying
      BY <2>2, <2>5 DEF Flying
    <3> QED
      BY <1>1, <1>2, <2>2, <2>5, <3>1 DEF Flying
  <2> QED
    BY <2>4, <2>5
<1>5. ASSUME NEW a \in Editor, Quits(a) \/ Adds(a) \/ Changes(a) \/ Deletes(a), NEW b \in Flying' PROVE LookedAt(b)'
  <2>1. Leave(a) /\ a \in Flying
    BY <1>5 DEF Quits, Adds, Changes, Deletes, CommitState, CommitDelete
  <2>2. b \in Flying /\ b # a /\ pc'[b] = pc[b] /\ loc'[b] = loc[b]
    BY <1>0, <2>1, LeftIs DEF Left
  <2>3. PICK s : s = loc[b].slug
    OBVIOUS
  <2>4. SparesSlug(s) \/ s \in mixed
    BY <1>2, <1>5, <2>1, <2>2, <2>3, OthersSpare DEF Quits
  <2> QED
    BY <1>1, <2>2, <2>3, <2>4
<1>6. ASSUME RenderTribute \/ FinishTribute \/ UNCHANGED configVars PROVE Looked'
  <2>1. UNCHANGED <<rows, pc, loc>>
    BY <1>6 DEF RenderTribute, FinishTribute, configVars
  <2>2. \A b \in Flying' : b \in Flying /\ pc'[b] = pc[b] /\ loc'[b] = loc[b]
    BY <2>1 DEF Flying
  <2> QED
    BY <1>1, <1>2, <2>1, <2>2 DEF Looked
<1> QED
  BY <1>0, <1>3, <1>4, <1>5, <1>6, StepKinds DEF Looked

\* A deletion takes a pinned row only with a slug that is mistaken.
LEMMA LostStep ==
    ASSUME PinsInv, [ConfigNext]_configVars
    PROVE  PinsNeedARename'
<1>0. Kinds /\ HandsInv /\ Mistakable \subseteq Mistakable' /\ lost \subseteq Mistakable
  BY MistakesGrow DEF BaseInv, PinsInv, PinsNeedARename, Mistakable
<1>1. ASSUME NEW a, Deletes(a) PROVE lost' \subseteq Mistakable'
  <2> DEFINE gone == loc[a].refs \cap Present
  <2>1. a \in Flying /\ CommitDelete(a) /\ loc[a].op = "delete"
    BY <1>1 DEF Deletes, CommitDelete
  <2>2. lost' = IF gone \cap pins # {} THEN lost \cup {loc[a].slug} ELSE lost
    BY <2>1 DEF CommitDelete
  <2>3. ASSUME NEW i \in gone, i \in pins PROVE loc[a].slug \in Mistakable
    <3>1. i \in Of(loc[a].slug)
      BY <1>0, <2>1, <2>3 DEF HandsInv, InHand, Of
    <3>2. rows[i].state # "draft"
      BY <2>3 DEF PinsInv, Marked
    <3> QED
      BY <2>1, <3>1, <3>2 DEF PinsInv, Looked, LookedAt
  <2> HIDE DEF gone
  <2> QED
    BY <1>0, <2>2, <2>3
<1>2. ASSUME NEW a, SetsForth(a) \/ Quits(a) \/ Takes(a) \/ Adds(a) \/ Changes(a) PROVE lost' = lost
  BY <1>2 DEF SetsForth, Begin, Quits, Takes, Adds, Changes, CommitState, past
<1>3. RenderTribute \/ FinishTribute \/ UNCHANGED configVars => lost' = lost
  BY DEF RenderTribute, FinishTribute, configVars, past
<1> QED
  BY <1>0, <1>1, <1>2, <1>3, StepKinds DEF PinsNeedARename, Mistakable

\* The invariant is kept by every step,
LEMMA PinsStep == PinsInv /\ [ConfigNext]_configVars => PinsInv'
<1> SUFFICES ASSUME PinsInv, [ConfigNext]_configVars PROVE PinsInv'
  OBVIOUS
<1>1. Kinds' /\ HandsInv'
  BY KindsStep, HandsStep DEF PinsInv, BaseInv
<1>2. Single' /\ ForeignKey' /\ Marked' /\ Together'
  BY SingleStep, ForeignKeyStep, MarkedStep, TogetherStep DEF PinsInv
<1> QED
  BY <1>1, <1>2, DraftsStep, LookedStep, LostStep DEF PinsInv, BaseInv

\* The rows a project starts with.
LEMMA FirstRows ==
    ASSUME ConfigInit
    PROVE  \E t \in ThemeSlug, c \in CampaignSlug, state \in {"draft", "published"} :
              /\ DOMAIN rows = 1 .. 2 /\ Present = {1, 2} /\ Live = {1, 2} /\ t # c
              /\ rows[1].slug = t /\ rows[1].state = state /\ rows[1].theme = Nothing
              /\ rows[2].slug = c /\ rows[2].state = "published" /\ rows[2].theme = 1
<1>1. PICK t \in ThemeSlug, c \in CampaignSlug, state \in {"draft", "published"} :
         rows = <<Version(t, state, Nothing), Version(c, "published", 1)>>
  BY DEF ConfigInit
<1>2. Version(t, state, Nothing) # Nothing /\ Version(c, "published", 1) # Nothing /\ t # c
  <2>1. Version(t, state, Nothing) \in Record /\ Version(c, "published", 1) \in Record
    BY DEF Version, Record, Slug
  <2> QED
    BY <2>1, ConfigAssumption
<1>3. DOMAIN rows = 1 .. 2 /\ rows[1] = Version(t, state, Nothing) /\ rows[2] = Version(c, "published", 1)
  BY <1>1
<1>4. Present = {1, 2}
  BY <1>2, <1>3 DEF Present
<1>5. Live = {1, 2}
  BY <1>3, <1>4 DEF Live, Version
<1> QED
  BY <1>2, <1>3, <1>4, <1>5, ConfigAssumption DEF Version

\* and holds at the start.
LEMMA PinsStart == ConfigInit => PinsInv
<1> SUFFICES ASSUME ConfigInit PROVE PinsInv
  OBVIOUS
<1>1. BaseInv /\ Flying = {} /\ stamp = 2 /\ pins = {} /\ lost = {}
  BY StartHands DEF BaseInv, ConfigInit, Flying
<1>2. PICK t \in ThemeSlug, c \in CampaignSlug, state \in {"draft", "published"} :
              /\ DOMAIN rows = 1 .. 2 /\ Present = {1, 2} /\ Live = {1, 2} /\ t # c
              /\ rows[1].slug = t /\ rows[1].state = state /\ rows[1].theme = Nothing
              /\ rows[2].slug = c /\ rows[2].state = "published" /\ rows[2].theme = 1
  BY FirstRows
<1>3. Single /\ ForeignKey /\ Marked
  BY <1>1, <1>2 DEF Single, ForeignKey, Marked
<1>4. Drafts
  BY <1>2 DEF Drafts, ProvesDrafts, Holder, Of
<1> QED
  BY <1>1, <1>3, <1>4 DEF PinsInv, Together, Looked, PinsNeedARename

\* However many requests, slugs and rows there are: a row that a render snapshot
\* pins is deleted only with a slug that a row was renamed from or that two requests
\* worked on at once (delete_draft_chain trusts an active draft to prove that its
\* slug was never published; repository.py has no lock behind that look).
THEOREM PinsSurvive == ConfigSpec => []PinsNeedARename
<1>1. PinsInv => PinsNeedARename
  BY DEF PinsInv
<1> QED
  BY PinsStart, PinsStep, <1>1, PTL DEF ConfigSpec

\* A request that replaces a row and repoints.
Replacing(a) == loc[a].op \in {"edit", "rollback"} /\ loc[a].row # Nothing

\* The rows that a request takes the references of.
Sought(a) == IF Replacing(a) THEN {loc[a].row}
             ELSE IF loc[a].op = "publish" THEN Siblings(loc[a].row) ELSE {}

\* A request has found whatever refers to them.
FoundAll(a) == pc[a] = "commit" =>
                  \A k \in Live \ excused : rows[k].theme \in Sought(a) => k \in loc[a].refs

\* An edit does not make a row refer to itself.
NotItself(a) == loc[a].op = "edit" => loc[a].theme # loc[a].row

\* A theme refers to nothing.
ThemesAlone == \A i \in Present : rows[i].slug \in ThemeSlug => rows[i].theme = Nothing

\* The inductive invariant of the references.
ReferringInv == /\ PinsInv /\ ThemesAlone /\ ReferencesAreCurrent
                /\ \A a \in Flying : FoundAll(a) /\ NotItself(a)

\* It contains that of the pins.
LEMMA BaseOf == ASSUME ReferringInv PROVE Kinds /\ HandsInv /\ BaseInv /\ PinsInv
BY DEF ReferringInv, PinsInv, BaseInv

\* Every step keeps the themes bare.
LEMMA ThemesAloneStep ==
    ASSUME ReferringInv, [ConfigNext]_configVars
    PROVE  ThemesAlone'
<1>0. Kinds /\ HandsInv /\ ThemesAlone /\ Live \subseteq Present /\ Nothing \notin Present
  BY BaseOf, PresentIs, ConfigAssumption DEF ReferringInv
<1>1. CASE UNCHANGED rows
  BY <1>0, <1>1, SameSets DEF ThemesAlone
<1>2. ASSUME NEW a, SetsForth(a) \/ Quits(a) \/ Takes(a) PROVE UNCHANGED rows
  BY <1>2 DEF SetsForth, Begin, Quits, Takes
<1>3. RenderTribute \/ FinishTribute \/ UNCHANGED configVars => UNCHANGED rows
  BY DEF RenderTribute, FinishTribute, configVars
<1>4. ASSUME NEW a, Adds(a) PROVE ThemesAlone'
  <2>1. PICK olds, ver : AddsRow(a, olds, ver)
    BY <1>0, <1>4, AddsForms
  <2> DEFINE new == Len(rows) + 1
  <2>2. /\ Present' = Present \cup {new} /\ rows'[new] = ver
        /\ ver.slug \in ThemeSlug => ver.theme = Nothing
    BY <2>1 DEF AddsRow, RowsAfter, Fresh
  <2>3. \A i \in olds : i \in Live
    BY <2>1 DEF AddsRow, Fresh
  <2>4. Nothing \notin olds
    BY <1>0, <2>3
  <2>5. \A i \in Present : /\ rows'[i].slug = rows[i].slug
                           /\ rows[i].theme = Nothing => rows'[i].theme = Nothing
    BY <2>1, <2>4 DEF AddsRow, RowsAfter
  <2> HIDE DEF new
  <2> QED
    BY <1>0, <2>2, <2>5 DEF ThemesAlone
<1>5. ASSUME NEW a, Changes(a) PROVE ThemesAlone'
  <2>1. a \in Flying /\ CommitState(a) /\ loc[a].row \in Present
    BY <1>0, <1>5, InHandOf DEF Changes, CommitState, ById
  <2>2. Nothing \notin Siblings(loc[a].row)
    BY <1>0 DEF Siblings, Of
  <2>3. \A i \in Present : /\ rows'[i].slug = rows[i].slug
                           /\ i = loc[a].row => rows'[i].theme = rows[i].theme
                           /\ i # loc[a].row /\ rows[i].theme = Nothing => rows'[i].theme = Nothing
    BY <1>0, <2>1, <2>2, StateRows
  <2>4. Present' = Present
    BY <1>0, <2>1, StateSets
  <2> QED
    BY <1>0, <2>3, <2>4 DEF ThemesAlone
<1>6. ASSUME NEW a, Deletes(a) PROVE ThemesAlone'
  <2> DEFINE gone == loc[a].refs \cap Present
  <2>1. a \in Flying /\ CommitDelete(a)
    BY <1>6 DEF Deletes
  <2>2. \A i \in Present \ gone :
           /\ rows'[i].slug = rows[i].slug
           /\ rows'[i].theme = IF rows[i].theme \in gone THEN Nothing ELSE rows[i].theme
    BY <1>0, <2>1, DeleteRows
  <2>3. Present' = Present \ gone
    BY <1>0, <2>1, DeleteSets
  <2> HIDE DEF gone
  <2> QED
    BY <1>0, <2>2, <2>3 DEF ThemesAlone
<1> QED
  BY <1>0, <1>1, <1>2, <1>3, <1>4, <1>5, <1>6, StepKinds, BaseOf

\* Every step keeps edits from referring to what they replace.
LEMMA NotItselfStep ==
    ASSUME ReferringInv, [ConfigNext]_configVars
    PROVE  \A b \in Flying' : NotItself(b)'
<1>0. Kinds /\ HandsInv /\ \A b \in Flying : NotItself(b)
  BY BaseOf DEF ReferringInv
<1>1. ASSUME NEW a \in Editor, SetsForth(a), NEW b \in Flying' PROVE NotItself(b)'
  <2>1. PICK l : Begin(a, l) /\ SetsOut(l)
    BY <1>1 DEF SetsForth
  <2>2. /\ loc'[a] = l
        /\ \A c \in Editor \ {a} : loc'[c] = loc[c] /\ (c \in Flying' <=> c \in Flying)
    BY <1>0, <2>1, Moved DEF Begin, Becomes
  <2>3. b = a \/ (b \in Flying /\ loc'[b] = loc[b])
    BY <2>2 DEF Flying
  <2> QED
    BY <1>0, <2>1, <2>2, <2>3 DEF NotItself, SetsOut
<1>2. ASSUME NEW a \in Editor, Takes(a), NEW b \in Flying' PROVE NotItself(b)'
  <2>1. PICK m : LocksRow(a, m)
    BY <1>2 DEF Takes
  <2>2. /\ loc'[a] = m /\ a \in Flying
        /\ \A c \in Editor \ {a} : loc'[c] = loc[c] /\ (c \in Flying' <=> c \in Flying)
    BY <1>0, <1>2, <2>1, Moved DEF LocksRow, Takes
  <2>3. m.op = loc[a].op /\ (m.op = "edit" => m.row = loc[a].row /\ m.theme = loc[a].theme)
    BY <2>1 DEF LocksRow, Found, ById
  <2>4. b = a \/ (b \in Flying /\ loc'[b] = loc[b])
    BY <2>2 DEF Flying
  <2> QED
    BY <1>0, <2>2, <2>3, <2>4 DEF NotItself
<1>3. ASSUME NEW a \in Editor, Quits(a) \/ Adds(a) \/ Changes(a) \/ Deletes(a), NEW b \in Flying'
      PROVE  NotItself(b)'
  <2>1. Leave(a)
    BY <1>3 DEF Quits, Adds, Changes, Deletes, CommitState, CommitDelete
  <2>2. b \in Flying /\ loc'[b] = loc[b]
    BY <1>0, <2>1, LeftIs DEF Left
  <2> QED
    BY <1>0, <2>2 DEF NotItself
<1>4. ASSUME RenderTribute \/ FinishTribute \/ UNCHANGED configVars, NEW b \in Flying' PROVE NotItself(b)'
  <2>1. UNCHANGED <<pc, loc>>
    BY <1>4 DEF RenderTribute, FinishTribute, configVars
  <2>2. b \in Flying
    BY <2>1 DEF Flying
  <2> QED
    BY <1>0, <2>1, <2>2 DEF NotItself
<1> QED
  BY <1>0, <1>1, <1>2, <1>3, <1>4, StepKinds

\* The same rows and locals make the same rows sought.
LEMMA SameSought ==
    ASSUME UNCHANGED rows, NEW b, loc'[b] = loc[b]
    PROVE  Sought(b)' = Sought(b)
BY DEF Sought, Replacing, Siblings, Themes, Of, Present

\* What a request in its commit seeks is there, and in nobody else's hands.
LEMMA SoughtIs ==
    ASSUME ReferringInv, NEW b \in Flying, pc[b] = "commit"
    PROVE  /\ Sought(b) \subseteq Present
           /\ Replacing(b) => held[loc[b].row] = b
           /\ loc[b].op = "publish" => loc[b].row \in Live /\ held[loc[b].row] = b
<1>0. Kinds /\ HandsInv /\ Live \subseteq Present
  BY BaseOf, LiveRows
<1>1. InHand(b)
  BY <1>0 DEF HandsInv
<1>2. loc[b].op = "publish" => loc[b].row # Nothing
  BY <1>1 DEF InHand, ById
<1>3. Replacing(b) \/ loc[b].op = "publish" => loc[b].row \in Live /\ held[loc[b].row] = b
  BY <1>1, <1>2 DEF InHand, ByLock, Replacing
<1>4. Siblings(loc[b].row) \subseteq Present
  BY DEF Siblings, Of
<1> QED
  BY <1>0, <1>3, <1>4 DEF Sought

\* The siblings of a row in another's hands do not grow.
LEMMA SiblingsKept ==
    ASSUME ReferringInv, [ConfigNext]_configVars, NEW a \in Flying, NEW b \in Flying, a # b,
           pc[b] = "commit", loc[b].op = "publish", loc'[b] = loc[b],
           Adds(a) \/ Changes(a) \/ Deletes(a)
    PROVE  /\ Siblings(loc[b].row)' \subseteq Siblings(loc[b].row)
           /\ Adds(a) => Len(rows) + 1 \notin Siblings(loc[b].row)'
           /\ Changes(a) => loc[a].row \notin Siblings(loc[b].row)
<1>9. PICK r, sl : r = loc[b].row /\ sl = rows[r].slug
  OBVIOUS
<1>0. Kinds /\ HandsInv /\ Single /\ OldRows /\ Live \subseteq Present /\ Present \subseteq DOMAIN rows
  BY BaseOf, LiveRows, OldRowsStay DEF PinsInv
<1>1. r \in Live /\ held[r] = b /\ loc[b].row = r /\ loc'[b].row = r /\ rows[r].slug = sl
  BY <1>9, SoughtIs
<1>2. r \in Present' => rows'[r].slug = sl
  BY <1>0, <1>1 DEF OldRows, SameSlugs
<1>4. r \in Themes' => r \in Themes /\ rows'[r].slug = sl
  BY <1>0, <1>1, <1>2 DEF Themes
<1>3. Siblings(loc[b].row)' = IF r \in Themes' THEN Of(sl)' \ {r} ELSE {}
  <2>1. Siblings(loc[b].row)' = IF r \in Themes' THEN Of(rows[r].slug)' \ {r} ELSE {}
    BY <1>1 DEF Siblings
  <2>2. r \in Themes' => Of(rows[r].slug)' = Of(sl)'
    BY <1>4 DEF Of
  <2> QED
    BY <2>1, <2>2
<1>5. Siblings(loc[b].row) = IF r \in Themes THEN Of(sl) \ {r} ELSE {}
  BY <1>1 DEF Siblings
<1>6. CASE Adds(a)
  <2>1. PICK olds, ver : AddsRow(a, olds, ver)
    BY <1>0, <1>6, AddsForms
  <2>2. /\ Len(rows) + 1 \notin Present
        /\ \A s : Of(s)' = IF ver.slug = s THEN Of(s) \cup {Len(rows) + 1} ELSE Of(s)
        /\ Holder(ver.slug) \subseteq olds /\ \A i \in olds : held[i] = a
    BY <2>1 DEF AddsRow, Fresh
  <2>3. ver.slug # sl
    <3>1. r \in Holder(sl)
      BY <1>0, <1>1 DEF Holder, Of
    <3> QED
      BY <1>1, <2>2, <3>1
  <2>4. Of(sl)' = Of(sl) /\ Len(rows) + 1 \notin Of(sl)
    BY <2>2, <2>3 DEF Of
  <2>5. ~Changes(a)
    BY <1>6 DEF Adds, Changes, CommitState, InsertsRow, Fresh
  <2> QED
    BY <1>3, <1>4, <1>5, <2>4, <2>5
<1>7. CASE Changes(a)
  <2>1. a \in Flying /\ CommitState(a) /\ loc[a].row \in Live /\ loc[a].row \in Present
    BY <1>0, <1>7, InHandOf DEF Changes, CommitState, ById
  <2>2. Of(sl)' = Of(sl)
    BY <1>0, <2>1, StateSets
  <2>3. loc[a].row \notin Siblings(loc[b].row)
    BY <1>1, <1>5, <2>1 DEF Of, Single, ReferringInv, PinsInv
  <2>4. ~Adds(a)
    BY <1>7 DEF Adds, Changes, CommitState, InsertsRow, Fresh
  <2> QED
    BY <1>3, <1>4, <1>5, <2>2, <2>3, <2>4
<1>8. CASE Deletes(a)
  <2>1. CommitDelete(a) /\ loc[a].op = "delete"
    BY <1>8 DEF Deletes, CommitDelete
  <2>2. Of(sl)' \subseteq Of(sl)
    BY <1>0, <2>1, DeleteSets
  <2>3. ~Adds(a) /\ ~Changes(a)
    BY <2>1 DEF Adds, Changes, CommitState, InsertsRow, Fresh
  <2> QED
    BY <1>3, <1>4, <1>5, <2>2, <2>3
<1> QED
  BY <1>6, <1>7, <1>8

\* What a request seeks does not grow by what another commits.
LEMMA SoughtKept ==
    ASSUME ReferringInv, [ConfigNext]_configVars, NEW a \in Flying, NEW b \in Flying, a # b,
           pc[b] = "commit", loc'[b] = loc[b], Adds(a) \/ Changes(a) \/ Deletes(a)
    PROVE  /\ Sought(b)' \subseteq Sought(b)
           /\ Adds(a) => Len(rows) + 1 \notin Sought(b)'
           /\ Changes(a) => loc[a].row \notin Sought(b)
<1>0. Kinds /\ HandsInv
  BY BaseOf
<1>1. Replacing(b)' <=> Replacing(b)
  BY DEF Replacing
<1>2. CASE Replacing(b)
  <2>1. Sought(b)' = {loc[b].row} /\ Sought(b) = {loc[b].row}
    BY <1>1, <1>2 DEF Sought
  <2>2. loc[b].row \in Present /\ held[loc[b].row] = b
    BY <1>2, <2>1, SoughtIs
  <2>3. Len(rows) + 1 \notin Present
    BY <1>0, PresentIs
  <2>4. Changes(a) => held[loc[a].row] = a
    <3> SUFFICES ASSUME Changes(a) PROVE held[loc[a].row] = a
      OBVIOUS
    <3>1. pc[a] = "commit" /\ loc[a].op \in ById
      BY DEF Changes, CommitState, ById
    <3>2. InHand(a)
      BY <1>0 DEF HandsInv
    <3> QED
      BY <3>1, <3>2 DEF InHand, ById, ByLock
  <2> QED
    BY <2>1, <2>2, <2>3, <2>4
<1>3. CASE ~Replacing(b) /\ loc[b].op = "publish"
  <2>1. Sought(b)' = Siblings(loc[b].row)' /\ Sought(b) = Siblings(loc[b].row)
    BY <1>1, <1>3 DEF Sought
  <2> QED
    BY <1>3, <2>1, SiblingsKept
<1>4. CASE ~Replacing(b) /\ loc[b].op # "publish"
  BY <1>1, <1>4 DEF Sought
<1> QED
  BY <1>2, <1>3, <1>4

\* Whoever refers to a row that a request seeks did so before, or is excused.
LEMMA FoundKept ==
    ASSUME ReferringInv, [ConfigNext]_configVars, NEW a \in Flying, NEW b \in Flying, a # b,
           pc[b] = "commit", loc'[b] = loc[b], Adds(a) \/ Changes(a) \/ Deletes(a),
           NEW k \in Live' \ excused', rows'[k].theme \in Sought(b)'
    PROVE  k \in Live \ excused /\ rows[k].theme \in Sought(b)
<1>0. Kinds /\ HandsInv /\ Together /\ Live \subseteq Present /\ Nothing \notin Present
  BY BaseOf, LiveRows, PresentIs, ConfigAssumption DEF PinsInv
<1>1. rows'[k].theme \in Sought(b) /\ Sought(b) \subseteq Present
  BY SoughtKept, SoughtIs
<1>2. CASE Adds(a)
  <2>1. PICK olds, ver : AddsRow(a, olds, ver)
    BY <1>0, <1>2, AddsForms
  <2> DEFINE new == Len(rows) + 1
  <2>2. /\ Live' = (Live \ olds) \cup {new} /\ new \notin Present
        /\ \A i \in Present : rows'[i].theme = rows[i].theme \/ rows'[i].theme = new
        /\ a \in beside => excused' = excused \cup {new}
    BY <2>1 DEF AddsRow, RowsAfter, Insert
  <2>3. a \in beside
    BY <1>0 DEF Together
  <2>4. new \notin Sought(b)'
    BY <1>2, SoughtKept
  <2> HIDE DEF new
  <2> QED
    BY <1>0, <1>1, <2>2, <2>3, <2>4
<1>3. CASE Changes(a)
  <2>1. /\ CommitState(a) /\ loc[a].row \in Present /\ excused' = excused
    BY <1>0, <1>3, InHandOf DEF Changes, CommitState, ById
  <2>2. loc[a].row \notin Sought(b)
    BY <1>3, SoughtKept
  <2>3. Live' = Live
    BY <1>0, <2>1, StateSets
  <2>4. \A i \in Present : rows'[i].theme = rows[i].theme \/ rows'[i].theme = loc[a].row
    BY <1>0, <2>1, StateRows
  <2> QED
    BY <1>0, <1>1, <2>1, <2>2, <2>3, <2>4
<1>4. CASE Deletes(a)
  <2> DEFINE gone == loc[a].refs \cap Present
  <2>1. CommitDelete(a) /\ excused' = excused
    BY <1>4 DEF Deletes, CommitDelete
  <2>2. Live' = Live \ gone
    BY <1>0, <2>1, DeleteSets
  <2>3. \A i \in Present \ gone : rows'[i].theme = IF rows[i].theme \in gone THEN Nothing ELSE rows[i].theme
    BY <1>0, <2>1, DeleteRows
  <2> HIDE DEF gone
  <2> QED
    BY <1>0, <1>1, <2>1, <2>2, <2>3
<1> QED
  BY <1>2, <1>3, <1>4

\* Every step keeps the references that a request has found complete.
LEMMA FoundStep ==
    ASSUME ReferringInv, [ConfigNext]_configVars
    PROVE  \A b \in Flying' : FoundAll(b)'
<1>0. Kinds /\ HandsInv /\ \A b \in Flying : FoundAll(b)
  BY BaseOf DEF ReferringInv
<1>1. ASSUME NEW b \in Flying, pc'[b] = pc[b], loc'[b] = loc[b],
             rows' = rows, excused' = excused
      PROVE  FoundAll(b)'
  BY <1>0, <1>1, SameSets, SameSought DEF FoundAll
<1>2. ASSUME NEW a \in Editor, SetsForth(a), NEW b \in Flying' PROVE FoundAll(b)'
  <2>1. PICK l : Begin(a, l) /\ SetsOut(l)
    BY <1>2 DEF SetsForth
  <2>2. /\ pc'[a] = "write" /\ rows' = rows /\ excused' = excused
        /\ \A c \in Editor \ {a} : pc'[c] = pc[c] /\ loc'[c] = loc[c] /\ (c \in Flying' <=> c \in Flying)
    BY <1>0, <2>1, Moved DEF Begin, Becomes
  <2>3. CASE b = a
    BY <2>2, <2>3 DEF FoundAll
  <2>4. CASE b # a
    BY <1>1, <2>2, <2>4 DEF Flying
  <2> QED
    BY <2>3, <2>4
<1>3. ASSUME NEW a \in Editor, Takes(a), NEW b \in Flying' PROVE FoundAll(b)'
  <2>1. PICK m : LocksRow(a, m)
    BY <1>3 DEF Takes
  <2>2. /\ loc'[a] = m /\ rows' = rows /\ excused' = excused
        /\ \A c \in Editor \ {a} : pc'[c] = pc[c] /\ loc'[c] = loc[c] /\ (c \in Flying' <=> c \in Flying)
    BY <1>0, <1>3, <2>1, Moved DEF LocksRow, Takes, past
  <2>3. CASE b = a
    <3>1. /\ m.op \in {"edit", "rollback"} /\ m.row # Nothing => m.refs = Referring({m.row})
          /\ m.op = "publish" => m.refs = Referring(Siblings(m.row))
      BY <2>1 DEF LocksRow, Found
    <3>2. Live' = Live /\ Siblings(m.row)' = Siblings(m.row)
      <4>1. Themes' = Themes /\ Of(rows[m.row].slug)' = Of(rows[m.row].slug)
        BY <2>2, SameSets DEF Themes
      <4>2. m' = m
        BY <2>2
      <4> QED
        BY <2>2, <4>1, SameSets DEF Siblings
    <3>3. CASE m.op \in {"edit", "rollback"} /\ m.row # Nothing
      <4>1. Sought(a)' = {m.row}
        BY <2>2, <3>3 DEF Sought, Replacing
      <4> QED
        BY <2>2, <2>3, <3>1, <3>2, <3>3, <4>1 DEF FoundAll, Referring
    <3>4. CASE m.op = "publish"
      <4>1. Sought(a)' = Siblings(m.row)
        BY <2>2, <3>2, <3>4 DEF Sought, Replacing
      <4> QED
        BY <2>2, <2>3, <3>1, <3>2, <3>4, <4>1 DEF FoundAll, Referring
    <3>5. CASE m.op # "publish" /\ ~(m.op \in {"edit", "rollback"} /\ m.row # Nothing)
      <4>1. Sought(a)' = {}
        BY <2>2, <3>5 DEF Sought, Replacing
      <4> QED
        BY <2>3, <4>1 DEF FoundAll
    <3> QED
      BY <3>3, <3>4, <3>5
  <2>4. CASE b # a
    BY <1>1, <2>2, <2>4 DEF Flying
  <2> QED
    BY <2>3, <2>4
<1>4. ASSUME NEW a \in Editor, Quits(a) \/ Adds(a) \/ Changes(a) \/ Deletes(a), NEW b \in Flying' PROVE FoundAll(b)'
  <2>1. Leave(a) /\ a \in Flying
    BY <1>4 DEF Quits, Adds, Changes, Deletes, CommitState, CommitDelete
  <2>2. b \in Flying /\ b # a /\ pc'[b] = pc[b] /\ loc'[b] = loc[b]
    BY <1>0, <2>1, LeftIs DEF Left
  <2>3. CASE Quits(a)
    BY <1>1, <2>2, <2>3 DEF Quits, past
  <2>4. CASE Adds(a) \/ Changes(a) \/ Deletes(a)
    <3> SUFFICES ASSUME pc[b] = "commit", NEW k \in Live' \ excused',
                        rows'[k].theme \in Sought(b)'
                 PROVE  k \in loc[b].refs
      BY <2>2 DEF FoundAll
    <3>1. k \in Live \ excused /\ rows[k].theme \in Sought(b)
      BY <2>1, <2>2, <2>4, FoundKept
    <3> QED
      BY <1>0, <2>2, <3>1 DEF FoundAll
  <2> QED
    BY <1>4, <2>3, <2>4
<1>5. ASSUME RenderTribute \/ FinishTribute \/ UNCHANGED configVars, NEW b \in Flying' PROVE FoundAll(b)'
  <2>1. UNCHANGED <<rows, pc, loc, excused>>
    BY <1>5 DEF RenderTribute, FinishTribute, configVars, past
  <2> QED
    BY <1>1, <2>1 DEF Flying
<1> QED
  BY <1>0, <1>2, <1>3, <1>4, <1>5, StepKinds

\* A reference as it should be.
Refers(i) == rows[i].theme \in Live \cup replaced \cup {Nothing}

\* The row that is inserted.
LEMMA FreshRefers ==
    ASSUME ReferringInv, NEW a \in Flying, NEW olds, NEW ver, AddsRow(a, olds, ver), pc[a] = "commit",
           olds \cap excused = {}, loc[a].op # "rollback", loc[a].theme \notin Present \ Live
    PROVE  ver.theme \in (Live \ olds) \cup replaced \cup {Nothing}
<1> DEFINE l == loc[a]
<1>1. /\ Fresh(a, olds, ver) /\ NotItself(a) /\ ForeignKey /\ Live \subseteq Present
      /\ \A i \in Live \ excused : Refers(i)
  BY BaseOf, LiveRows DEF AddsRow, ReferringInv, PinsInv, ReferencesAreCurrent, Refers
<1>2. ver.theme \in Present \cup {Nothing} /\ Carried \notin Present /\ Carried # Nothing
  BY <1>1, BaseOf, PresentIs, ConfigAssumption DEF Fresh
<1>3. CASE l.op = "generate"
  BY <1>1, <1>3 DEF Fresh
<1>4. CASE l.op = "create"
  <2>1. olds = {} /\ ver.theme \in {l.theme, Nothing}
    BY <1>1, <1>4 DEF Fresh
  <2> QED
    BY <1>2, <2>1
<1>5. CASE l.op = "edit"
  <2>1. /\ olds = {l.row} /\ l.row \in Live
        /\ ver.theme \in {IF l.theme = Carried THEN rows[l.row].theme ELSE l.theme, Nothing}
    BY <1>1, <1>5 DEF Fresh
  <2>2. CASE ver.theme = Nothing
    BY <2>2
  <2>3. CASE ver.theme # Nothing /\ l.theme = Carried
    <3>1. ver.theme = rows[l.row].theme /\ l.row \notin excused /\ rows[l.row].theme # Nothing
      BY <2>1, <2>3
    <3>2. rows[l.row].theme \in Live \cup replaced /\ rows[l.row].theme # l.row
      BY <1>1, <2>1, <3>1 DEF Refers, ForeignKey
    <3> QED
      BY <2>1, <3>1, <3>2
  <2>4. CASE ver.theme # Nothing /\ l.theme # Carried
    <3>1. ver.theme = l.theme /\ l.theme # l.row
      BY <1>1, <1>5, <2>1, <2>4 DEF NotItself
    <3> QED
      BY <1>2, <2>1, <2>4, <3>1
  <2> QED
    BY <2>2, <2>3, <2>4
<1> QED
  BY <1>1, <1>3, <1>4, <1>5 DEF Fresh

\* An insertion keeps the references current.
LEMMA AddsRefers ==
    ASSUME ReferringInv, NEW a, Adds(a), NEW i \in Live' \ excused'
    PROVE  Refers(i)'
<1>0. Kinds /\ HandsInv /\ (\A k \in Live \ excused : Refers(k)) /\ Live \subseteq Present
  BY BaseOf, LiveRows DEF ReferringInv, ReferencesAreCurrent, Refers
<1>1. PICK olds, ver : AddsRow(a, olds, ver)
  BY <1>0, AddsForms
<1> DEFINE new == Len(rows) + 1
<1>2. /\ Live' = (Live \ olds) \cup {new} /\ new \notin Present /\ rows'[new] = ver
      /\ replaced' = IF loc[a].op = "generate" THEN replaced \cup olds ELSE replaced
      /\ excused' = IF \/ a \in beside \/ olds \cap excused # {} \/ loc[a].op = "rollback"
                       \/ loc[a].theme \in Present \ Live
                    THEN excused \cup {new} ELSE excused
  BY <1>1 DEF AddsRow, RowsAfter, Insert
<1>3. a \in Flying /\ pc[a] = "commit" /\ FoundAll(a)
  BY DEF Adds, ReferringInv
<1>4. replaced \subseteq replaced' /\ excused \subseteq excused'
  BY <1>2
<1>5. ASSUME i # new
      PROVE  /\ i \in Live \ excused /\ i \in Present /\ i \notin olds
             /\ rows'[i].theme = IF i \in loc[a].refs \cap Live /\ rows[i].theme \in olds
                                 THEN new ELSE rows[i].theme
  <2>1. i \in Live /\ i \notin olds /\ i \notin excused /\ i \in Present
    BY <1>0, <1>2, <1>4, <1>5
  <2> QED
    BY <1>1, <2>1 DEF AddsRow, RowsAfter
<1>6. \A j \in olds : loc[a].op # "generate" => j \in Sought(a)
  <2> SUFFICES ASSUME NEW j \in olds, loc[a].op # "generate" PROVE j \in Sought(a)
    OBVIOUS
  <2>1. /\ j = loc[a].row /\ j \in Live
        /\ loc[a].op \in {"create", "generate", "edit", "rollback"}
        /\ loc[a].op = "create" => olds = {}
    BY <1>1 DEF AddsRow, Fresh
  <2>2. j # Nothing
    BY <1>0, <2>1, PresentIs, ConfigAssumption
  <2> QED
    BY <2>1, <2>2 DEF Replacing, Sought
<1>7. CASE i = new
  <2>1. olds \cap excused = {} /\ loc[a].op # "rollback" /\ loc[a].theme \notin Present \ Live
    BY <1>2, <1>7
  <2>2. ver.theme \in (Live \ olds) \cup replaced \cup {Nothing}
    BY <1>1, <1>3, <2>1, FreshRefers
  <2> HIDE DEF new
  <2> QED
    BY <1>2, <1>4, <1>7, <2>2 DEF Refers
<1>8. CASE i # new /\ rows[i].theme \in olds /\ loc[a].op = "generate"
  <2>1. rows'[i].theme \in olds \cup {new}
    BY <1>5, <1>8
  <2> HIDE DEF new
  <2> QED
    BY <1>2, <1>8, <2>1 DEF Refers
<1>9. CASE i # new /\ rows[i].theme \in olds /\ loc[a].op # "generate"
  <2>1. i \in loc[a].refs
    BY <1>3, <1>5, <1>6, <1>9 DEF FoundAll
  <2>2. rows'[i].theme = new
    BY <1>5, <1>9, <2>1
  <2> HIDE DEF new
  <2> QED
    BY <1>2, <2>2 DEF Refers
<1>10. CASE i # new /\ rows[i].theme \notin olds
  <2>1. rows'[i].theme = rows[i].theme /\ Refers(i)
    BY <1>0, <1>5, <1>10
  <2> HIDE DEF new
  <2> QED
    BY <1>2, <1>4, <1>10, <2>1 DEF Refers
<1> QED
  BY <1>7, <1>8, <1>9, <1>10

\* So does a publish: what referred to a sibling refers to the row.
LEMMA ChangesRefers ==
    ASSUME ReferringInv, NEW a, Changes(a), NEW i \in Live' \ excused'
    PROVE  Refers(i)'
<1> DEFINE r == loc[a].row
           siblings == IF loc[a].op = "publish" THEN Siblings(r) ELSE {}
<1>0. /\ Kinds /\ HandsInv /\ (\A k \in Live \ excused : Refers(k)) /\ Live \subseteq Present
      /\ ThemesAlone /\ Nothing \notin Present
  BY BaseOf, LiveRows, PresentIs, ConfigAssumption DEF ReferringInv, ReferencesAreCurrent, Refers
<1>1. /\ a \in Flying /\ CommitState(a) /\ pc[a] = "commit" /\ r \in Present /\ r \in Live
      /\ excused' = excused
  BY <1>0, InHandOf DEF Changes, CommitState, ById
<1>2. replaced' = replaced \ siblings
  BY <1>1 DEF CommitState
<1>3. Live' = Live /\ i \in Live \ excused /\ i \in Present
  BY <1>0, <1>1, StateSets
<1>4. /\ i = r => rows'[i].theme = rows[i].theme
      /\ i # r => rows'[i].theme =
            IF loc[a].op = "publish" /\ i \in loc[a].refs \cap Live /\ rows[i].theme \in Siblings(r)
            THEN r ELSE rows[i].theme
  BY <1>0, <1>1, <1>3, StateRows
<1>5. CASE rows[i].theme \notin siblings
  <2>1. rows'[i].theme \in {rows[i].theme, r}
    BY <1>4
  <2>2. rows[i].theme \in Live \cup (replaced \ siblings) \cup {Nothing}
    BY <1>0, <1>3, <1>5 DEF Refers
  <2> HIDE DEF siblings, r
  <2> QED
    BY <1>1, <1>2, <1>3, <2>1, <2>2 DEF Refers
<1>6. CASE rows[i].theme \in siblings
  <2>1. loc[a].op = "publish" /\ rows[i].theme \in Siblings(r)
    BY <1>6
  <2>2. rows[i].theme # Nothing /\ r \in Themes
    BY <1>0, <2>1 DEF Siblings, Of
  <2>3. i # r
    BY <1>0, <2>2 DEF ThemesAlone, Themes
  <2>4. i \in loc[a].refs
    <3>1. Sought(a) = Siblings(r)
      BY <2>1 DEF Sought, Replacing
    <3> QED
      BY <1>1, <1>3, <2>1, <3>1 DEF ReferringInv, FoundAll
  <2>5. rows'[i].theme = r
    BY <1>3, <1>4, <2>1, <2>3, <2>4
  <2> HIDE DEF siblings, r
  <2> QED
    BY <1>1, <1>3, <2>5 DEF Refers
<1> QED
  BY <1>5, <1>6

\* Every step keeps the references current.
LEMMA ReferencesStep ==
    ASSUME ReferringInv, [ConfigNext]_configVars
    PROVE  \A i \in Live' \ excused' : Refers(i)'
<1>0. Kinds /\ HandsInv /\ (\A i \in Live \ excused : Refers(i)) /\ Live \subseteq Present
  BY BaseOf, LiveRows DEF ReferringInv, ReferencesAreCurrent, Refers
<1>1. ASSUME UNCHANGED <<rows, replaced, excused>> PROVE \A i \in Live' \ excused' : Refers(i)'
  BY <1>0, <1>1, SameSets DEF Refers
<1>2. ASSUME NEW a, SetsForth(a) \/ Quits(a) \/ Takes(a) PROVE UNCHANGED <<rows, replaced, excused>>
  BY <1>2 DEF SetsForth, Begin, Quits, Takes, past
<1>3. RenderTribute \/ FinishTribute \/ UNCHANGED configVars => UNCHANGED <<rows, replaced, excused>>
  BY DEF RenderTribute, FinishTribute, configVars, past
<1>4. ASSUME NEW a, Deletes(a), NEW i \in Live' \ excused' PROVE Refers(i)'
  <2> DEFINE gone == loc[a].refs \cap Present
  <2>1. a \in Flying /\ CommitDelete(a) /\ excused' = excused /\ replaced' = replaced
    BY <1>4 DEF Deletes, CommitDelete
  <2>2. Live' = Live \ gone
    BY <1>0, <2>1, DeleteSets
  <2>3. \A j \in Present \ gone : rows'[j].theme = IF rows[j].theme \in gone THEN Nothing ELSE rows[j].theme
    BY <1>0, <2>1, DeleteRows
  <2> HIDE DEF gone
  <2> QED
    BY <1>0, <2>1, <2>2, <2>3 DEF Refers
<1> QED
  BY <1>0, <1>1, <1>2, <1>3, <1>4, AddsRefers, ChangesRefers, StepKinds

\* The invariant is kept by every step,
LEMMA ReferringStep == ReferringInv /\ [ConfigNext]_configVars => ReferringInv'
<1> SUFFICES ASSUME ReferringInv, [ConfigNext]_configVars PROVE ReferringInv'
  OBVIOUS
<1>1. PinsInv'
  BY BaseOf, PinsStep
<1>2. \A i \in Live' \ excused' : Refers(i)'
  BY ReferencesStep
<1>3. awaited' /\ stamp' # Nothing => stamp' \in Live'
  BY <1>1 DEF PinsInv, Marked
<1>4. ReferencesAreCurrent'
  BY <1>2, <1>3 DEF ReferencesAreCurrent, Refers
<1> QED
  BY <1>1, <1>4, ThemesAloneStep, NotItselfStep, FoundStep DEF ReferringInv

\* and holds at the start.
LEMMA ReferringStart == ConfigInit => ReferringInv
<1> SUFFICES ASSUME ConfigInit PROVE ReferringInv
  OBVIOUS
<1>1. PinsInv /\ Flying = {} /\ stamp = 2
  BY PinsStart DEF ConfigInit, Flying
<1>2. PICK t \in ThemeSlug, c \in CampaignSlug, state \in {"draft", "published"} :
              /\ DOMAIN rows = 1 .. 2 /\ Present = {1, 2} /\ Live = {1, 2} /\ t # c
              /\ rows[1].slug = t /\ rows[1].state = state /\ rows[1].theme = Nothing
              /\ rows[2].slug = c /\ rows[2].state = "published" /\ rows[2].theme = 1
  BY FirstRows
<1>3. ThemesAlone
  BY <1>2, ConfigAssumption DEF ThemesAlone
<1> QED
  BY <1>1, <1>2, <1>3 DEF ReferringInv, ReferencesAreCurrent

\* However many requests, slugs and rows there are: an active campaign refers to an
\* active theme (repoint_references, and _repoint_theme_slug_siblings for a theme
\* that is published), unless a candidate took its slug and was not published, its
\* row was inserted with the id of an old row, by a rollback or by a request that
\* overlapped another, or it was edited from such a row; a tribute that has never
\* been finished is stamped with an active campaign.
THEOREM ReferencesStayCurrent == ConfigSpec => []ReferencesAreCurrent
<1>1. ReferringInv => ReferencesAreCurrent
  BY DEF ReferringInv
<1> QED
  BY ReferringStart, ReferringStep, <1>1, PTL DEF ConfigSpec
=============================================================================
