------------------------ MODULE ArticleRevisionsProofs ------------------------
(***************************************************************************)
(* Proofs of the safety of an article's versions and of their revisions,   *)
(* for every set of producers, requests, choices and texts and any number  *)
(* of calls and faults: the versions are one line however agents and       *)
(* revisions race, a version of a revision has its one owner, what is      *)
(* shown was stored first, and a choice is recorded once, about what the   *)
(* user was shown.                                                         *)
(***************************************************************************)
EXTENDS ArticleRevisions, Sequences, FiniteSetTheorems, TLAPS

-----------------------------------------------------------------------------
(* The inductive invariant: the versions and their producers. What was     *)
(* stored is said by what there is in the tables, so that it stays true    *)
(* while they grow.                                                        *)

Calls ==
  [pc : {"idle", "read", "write", "done"}, kind : Kinds, key : Keys, on : Ids,
   value : Texts \cup DOMAIN Advances \cup {"none"}, expected : Nat, no : Nat,
   seen : DOMAIN Advances \cup {"none"}, answer : Answers]

Follows(no, parent) == \E w \in versions : parent = w.id /\ no = w.no + 1

\* The versions differ in id, number and parent; every one but the first has
\* its parent's number plus one; one has the highest.
Line ==
  /\ \A v \in versions, w \in versions : v.id = w.id \/ v.no = w.no \/ v.parent = w.parent => v = w
  /\ \A v \in versions :
       \/ v.id = "initial" /\ v.no = 1 /\ v.parent = "none"
       \/ v.id # "initial" /\ Follows(v.no, v.parent)
  /\ Has("initial")
  /\ \E v \in versions : \A w \in versions : w.no <= v.no

\* What MovesExplainStage says of one version.
History(mine, now) ==
  /\ {m.revision : m \in mine} = 1 .. now.revision
  /\ \A m \in mine, n \in mine : m.revision = n.revision => m = n
  /\ \A m \in mine : m.to \in Advances[m.from] /\ \A n \in mine : n.revision = m.revision + 1 => n.from = m.to
  /\ \A m \in mine : m.revision = now.revision => m.to = now.state

\* Moves are of versions there are, and a version has a storable stage.
Staged ==
  /\ \A v \in versions : stage[v.id].state \in Storable
  /\ \A m \in moves : Has(m.on)
  /\ \A v \in versions : History({m \in moves : m.on = v.id}, stage[v.id])

\* The call is in the tables.
Stored(c) ==
  \/ c.kind = "version" /\ \E v \in versions : v.id = c.key /\ v.parent = c.on /\ v.text = c.value
  \/ c.kind = "move" /\ \E m \in moves : m.on = c.on /\ m.key = c.key /\ m.to = c.value /\ m.revision = c.expected + 1
  \/ c.kind \in {"review", "plan"} /\ Reviewed(c) \in records

\* What a call knows at its step, and what it was told.
CallOK(c) ==
  /\ Has(c.on)
  /\ c.pc \in {"read", "write"} /\ c.kind = "version" => c.value \in Texts
  /\ c.pc = "write" /\ c.kind = "version" => Follows(c.no, c.on)
  /\ c.pc = "write" /\ c.kind = "move" => c.seen \in Storable /\ c.value \in Advances[c.seen]
  /\ c.answer \in {"created", "replayed"} => Stored(c)

EditorialTypes ==
  /\ EditorialTypeOK
  /\ producer \in [Producers -> Calls]

EditorialInv == EditorialTypes /\ Line /\ Staged /\ \A p \in Producers : CallOK(producer[p])

-----------------------------------------------------------------------------
(* The inductive invariant: choices, requests and jobs.                    *)

Handled ==
  [pc : {"idle", "insertChoice", "chosen", "insert", "store", "dispatch"}, on : Ids,
   id : Events \cup Requests \cup {"none"}, choice : Choices \cup {"none"}, replay : BOOLEAN]

\* Where the job's version is stored.
Versioned == {"prior", "ready", "pending", "draft", "notDrafted", "complete", "postFailed", "postCompleted"}
Job ==
  [pc : {"idle", "other", "load", "prepare", "version", "fail"} \cup Versioned, id : Requests \cup {"none", "other"},
   text : Texts \cup {"none"}, restored : BOOLEAN, failed : BOOLEAN]

RequestTypes ==
  /\ requests \in [Requests -> [status : {"none", "queued", "wechat_pending", "completed", "wechat_failed"},
                                parent : Ids \cup {"none"}, child : Requests \cup {"none"}, failed : BOOLEAN]]
  /\ artifacts \subseteq Requests
  /\ prepared \in [Requests -> Texts \cup {"none"}]
PublishedTypes ==
  /\ transcript \in [id : Ids, text : Texts, stage : Stages]
  /\ draft \in Texts \cup {"none"}
  /\ recording \in [stage : Stages, text : Texts]
HandlerTypes == handler \in [Handlers -> Handled]
JobTypes == job \in Job /\ waiting \in Requests \cup {"none", "other"}
ChoiceTypes ==
  /\ feedback \in [Events -> {<<>>} \cup Ids \X Choices]
  /\ pending \in [Ids -> [Choices -> Events \cup {"none"}]]
  /\ confirmed \in [Ids -> [Choices -> Nat]]

\* A request is about a version there is, alone; its child is its own.
RequestsKept ==
  /\ \A r \in Requests : requests[r] = NoRequest \/ (Has(requests[r].parent) /\ requests[r].status # "none")
  /\ \A r \in Requests, q \in Requests :
       requests[r] # NoRequest /\ requests[r].parent = requests[q].parent => r = q
  /\ \A r \in Requests : Has(r) <=> requests[r].child = r
  /\ \A r \in Requests, v \in versions :
       v.id = r => v.parent = requests[r].parent /\ requests[r].status # "queued"

Choosing(h) == handler[h].pc \in {"insertChoice", "chosen"}

\* A handler of a choice holds the id the phone keeps for it, and alone.
HandlerOK(h) ==
  LET k == handler[h] IN
  /\ k.pc = "insert" => k.id \in Requests /\ Has(k.on)
  /\ k.pc \in {"store", "dispatch"} => k.id \in Requests /\ requests[k.id] # NoRequest
  /\ Choosing(h) => k.id \in Events /\ k.choice \in Choices /\ pending[k.on][k.choice] = k.id
ChoosersDiffer ==
  \A g \in Handlers, h \in Handlers : Choosing(g) /\ Choosing(h) /\ handler[g].id = handler[h].id => g = h

Stores(id, text) == \E v \in versions : v.id = id /\ v.text = text
SomeText(text) == \E v \in versions : v.text = text

\* The job serves a request there is; from its version on, that version has
\* its text; and before it rewrites the draft the transcript says so.
JobOK ==
  /\ waiting \notin {"none", "other"} => requests[waiting] # NoRequest
  /\ job.pc \notin {"idle", "other"} => job.id \in Requests /\ requests[job.id] # NoRequest
  /\ job.pc = "version" => job.text \in Texts
  /\ job.pc \in Versioned => Stores(job.id, job.text)
  /\ job.pc \in {"pending", "draft"} => transcript.stage = "ARTICLE_READY"
  /\ job.pc = "complete" => draft \in {"none", job.text}

\* Everything shown was stored, and what is completed is in the draft.
Shown ==
  /\ Stores(transcript.id, transcript.text)
  /\ SomeText(recording.text)
  /\ draft # "none" => SomeText(draft)
  /\ CompletedIsDrafted

\* All recorded choices but the one whose answer is out were confirmed.
Recorded(v, c) == {e \in Events : feedback[e] = <<v, c>>}
ChoicesCounted ==
  \A v \in Ids, c \in Choices :
    IsFiniteSet(Recorded(v, c)) /\ Cardinality(Recorded(v, c) \ {pending[v][c]}) <= confirmed[v][c]

RevisionTypes == RequestTypes /\ PublishedTypes /\ HandlerTypes /\ JobTypes /\ ChoiceTypes /\ faults \in 0 .. MaxFaults

RevisionInv ==
  /\ RevisionTypes /\ RequestsKept /\ JobOK /\ Shown
  /\ \A h \in Handlers : HandlerOK(h)
  /\ ChoosersDiffer /\ ChoicesCounted

IInv == EditorialInv /\ RevisionInv

-----------------------------------------------------------------------------
(* Versions.                                                               *)

\* In a line the record under an id, and the last one, are well defined.
LEMMA VersionFound ==
  ASSUME Line, NEW v \in versions
  PROVE  VersionOf(v.id) = v
BY DEF Line, VersionOf

LEMMA LatestFound ==
  ASSUME Line
  PROVE  Latest \in versions /\ \A w \in versions : w.no <= Latest.no
<1>1. \E v \in versions : \A w \in versions : w.no <= v.no
  BY DEF Line
<1>2. QED
  BY <1>1 DEF Latest

LEMMA ReadyIsCall == Ready \in Calls
<1>1. (CHOOSE k \in Keys : TRUE) \in Keys
  BY EditorialOK
<1>2. QED
  BY <1>1 DEF Ready, Calls, Kinds, Ids, Answers

\* Every advance leads to a stage.
LEMMA AdvancesAreStages == \A s \in DOMAIN Advances : Advances[s] \subseteq DOMAIN Advances
BY DEF Advances

\* A version appended under its constraints leaves a line.
LEMMA LineGrows ==
  ASSUME EditorialTypes, Line, NEW v \in [id : Ids, no : Nat \ {0}, parent : Ids \cup {"none"}, text : Texts],
         Insertable(v), v.id # "initial", Follows(v.no, v.parent), versions' = versions \cup {v}
  PROVE  Line'
<1>1. \A x \in versions', w \in versions' : x.id = w.id \/ x.no = w.no \/ x.parent = w.parent => x = w
  BY DEF Line, Insertable
<1>2. \A x \in versions' : \/ x.id = "initial" /\ x.no = 1 /\ x.parent = "none"
                           \/ x.id # "initial" /\ Follows(x.no, x.parent)'
  BY DEF Line, Follows
<1>3. Has("initial")'
  BY DEF Line, Has
<1>4. \E x \in versions' : \A w \in versions' : w.no <= x.no
  <2>1. PICK l \in versions : \A w \in versions : w.no <= l.no
    BY DEF Line
  <2>2. \A w \in versions' : w.no \in Nat
    BY DEF EditorialTypes, EditorialTypeOK
  <2>3. CASE v.no <= l.no
    BY <2>1, <2>3
  <2>4. CASE ~(v.no <= l.no)
    <3>1. \A w \in versions' : w.no <= v.no
      BY <2>1, <2>2, <2>4
    <3>2. QED
      BY <3>1
  <2>5. QED
    BY <2>3, <2>4
<1>5. QED
  BY <1>1, <1>2, <1>3, <1>4 DEF Line

\* A new version has no moves yet.
LEMMA StagedGrows ==
  ASSUME EditorialTypes, Staged, NEW v, v.id \in Ids, ~ Has(v.id), NEW s \in Storable,
         versions' = versions \cup {v}, stage' = [stage EXCEPT ![v.id] = NewStage(s)], moves' = moves
  PROVE  Staged'
<1>1. stage'[v.id] = NewStage(s) /\ \A w \in versions : stage'[w.id] = stage[w.id]
  BY DEF EditorialTypes, EditorialTypeOK, Has
<1>2. \A w \in versions' : stage'[w.id].state \in Storable
  BY <1>1 DEF Staged, NewStage
<1>3. \A m \in moves' : Has(m.on)'
  BY DEF Staged, Has
<1>4. History({}, NewStage(s))
  BY DEF History, NewStage
<1>5. {m \in moves : m.on = v.id} = {}
  BY DEF Staged
<1>6. \A w \in versions' : History({m \in moves' : m.on = w.id}, stage'[w.id])
  BY <1>1, <1>4, <1>5 DEF Staged
<1>7. QED
  BY <1>2, <1>3, <1>6 DEF Staged, History

\* A move from the stage a version has makes its history one longer.
LEMMA HistoryGrows ==
  ASSUME NEW mine, NEW now, NEW m, History(mine, now), now.revision \in Nat, \A n \in mine : n.revision \in Nat,
         m.revision = now.revision + 1, m.from = now.state, m.to \in Advances[m.from]
  PROVE  History(mine \cup {m}, [state |-> m.to, revision |-> m.revision])
<1>1. \A n \in mine : n.revision \in 1 .. now.revision
  BY DEF History
<1>2. {n.revision : n \in mine \cup {m}} = 1 .. m.revision
  <2>1. {n.revision : n \in mine \cup {m}} = {n.revision : n \in mine} \cup {m.revision}
    OBVIOUS
  <2>2. QED
    BY <2>1 DEF History
<1>3. \A n \in mine : n.revision # m.revision /\ n.revision # m.revision + 1
  BY <1>1
<1>4. \A n \in mine : m.revision = n.revision + 1 => m.from = n.to
  BY <1>1 DEF History
<1>5. m.revision # m.revision + 1
  OBVIOUS
<1>6. QED
  BY <1>2, <1>3, <1>4, <1>5 DEF History

\* What a call knows and was told stays true while the tables grow.
LEMMA CallKept ==
  ASSUME versions \subseteq versions', moves \subseteq moves', records \subseteq records',
         NEW p, producer'[p] = producer[p], CallOK(producer[p])
  PROVE  CallOK(producer[p])'
BY DEF CallOK, Has, Follows, Stored, Reviewed

\* What the handlers look for is what Stored says.
LEMMA FoundIsStored ==
  ASSUME Line, NEW c, c.kind \in Kinds
  PROVE  Found(c) = "same" <=> Stored(c)
<1>1. CASE c.kind = "version"
  BY <1>1, VersionFound DEF Found, Stored, Has
<1>2. CASE c.kind = "move"
  BY <1>2 DEF Found, Stored, MoveOf
<1>3. CASE c.kind \in {"review", "plan"}
  BY <1>3 DEF Found, Stored, SameKey, Reviewed
<1>4. QED
  BY <1>1, <1>2, <1>3 DEF Kinds

-----------------------------------------------------------------------------
(* The producers' steps.                                                   *)

\* Only producer p moves, to a call it may make.
Moves(p) ==
  /\ producer' \in [Producers -> Calls] /\ \A q \in Producers : q # p => producer'[q] = producer[q]
  /\ CallOK(producer[p])'

LEMMA ProducerStep ==
  ASSUME EditorialInv, NEW p \in Producers, Moves(p), EditorialTypeOK', Line', Staged',
         versions \subseteq versions', moves \subseteq moves', records \subseteq records'
  PROVE  EditorialInv'
<1>1. \A q \in Producers : CallOK(producer[q])'
  BY CallKept DEF EditorialInv, Moves
<1>2. QED
  BY <1>1 DEF EditorialInv, EditorialTypes, Moves

\* While the tables stay, so does what is said of them.
LEMMA TablesStay ==
  ASSUME EditorialInv, UNCHANGED Tables, calls' \in 0 .. MaxCalls, producer' \in [Producers -> Calls]
  PROVE  EditorialTypeOK' /\ Line' /\ Staged'
<1>1. EditorialTypeOK'
  BY DEF EditorialInv, EditorialTypes, EditorialTypeOK, Tables, Calls
<1>2. Line' /\ Staged'
  BY DEF EditorialInv, Line, Staged, Tables, Has, Follows, History
<1>3. QED
  BY <1>1, <1>2

LEMMA TablesStayStep ==
  ASSUME EditorialInv, NEW p \in Producers, Moves(p), UNCHANGED Tables, calls' \in 0 .. MaxCalls
  PROVE  EditorialInv'
<1>1. EditorialTypeOK' /\ Line' /\ Staged'
  BY TablesStay DEF Moves
<1>2. QED
  BY <1>1, ProducerStep DEF Tables

\* Nothing of the versions changes.
LEMMA EditorialStays ==
  ASSUME EditorialInv, UNCHANGED <<versions, stage, moves, records, producer>>, calls' \in 0 .. MaxCalls
  PROVE  EditorialInv'
<1>1. EditorialTypeOK' /\ Line' /\ Staged'
  BY TablesStay DEF EditorialInv, EditorialTypes, Tables
<1>2. \A p \in Producers : CallOK(producer[p])'
  BY CallKept DEF EditorialInv
<1>3. QED
  BY <1>1, <1>2 DEF EditorialInv, EditorialTypes

\* A refusal says nothing; an answer found under the key says what is stored.
LEMMA Refused ==
  ASSUME EditorialInv, NEW p \in Producers, Answer(p, "refused"), versions \subseteq versions'
  PROVE  Moves(p)
BY DEF EditorialInv, EditorialTypes, Moves, Answer, Calls, Answers, CallOK, Has

LEMMA Replayed ==
  ASSUME EditorialInv, NEW p \in Producers, NEW c \in Calls, Has(c.on), Replay(p, c),
         versions' = versions, moves' = moves, records' = records
  PROVE  Moves(p)
<1> DEFINE a == IF Found(c) = "same" THEN "replayed" ELSE "refused"
           d == [c EXCEPT !.pc = "done", !.answer = a]
<1>1. a \in Answers /\ (a \in {"created", "replayed"} => Stored(c))
  BY FoundIsStored DEF EditorialInv, Answers, Calls
<1>2. producer' = [producer EXCEPT ![p] = d]
  BY DEF Replay
<1> HIDE DEF a
<1>3. d \in Calls /\ d.on = c.on /\ d.answer = a /\ d.pc = "done" /\ d.kind = c.kind /\ d.key = c.key
      /\ d.value = c.value /\ d.expected = c.expected
  BY <1>1 DEF Calls
<1> HIDE DEF d
<1>4. producer'[p] = d /\ producer' \in [Producers -> Calls] /\ \A q \in Producers : q # p => producer'[q] = producer[q]
  BY <1>2, <1>3 DEF EditorialInv, EditorialTypes
<1>5. CallOK(producer[p])'
  BY <1>1, <1>3, <1>4 DEF CallOK, Stored, Reviewed, Has
<1>6. QED
  BY <1>4, <1>5 DEF Moves

LEMMA RacedKeeps ==
  ASSUME EditorialInv, NEW p \in Producers, Raced(p), UNCHANGED Tables
  PROVE  Moves(p)
<1>1. producer[p] \in Calls /\ Has(producer[p].on)
  BY DEF EditorialInv, EditorialTypes, CallOK
<1>2. QED
  BY <1>1, Refused, Replayed DEF Raced, Tables

LEMMA CallKeeps ==
  ASSUME EditorialInv, NEW p \in Producers, Call(p)
  PROVE  EditorialInv'
<1>1. PICK kind \in Kinds, key \in Keys, v \in versions :
        \E value \in CASE kind = "version" -> Texts
                       [] kind = "move" -> Advances[stage[v.id].state]
                       [] OTHER -> {"none"} :
          LET c == [Ready EXCEPT !.kind = kind, !.key = key, !.on = v.id, !.value = value,
                                 !.expected = stage[v.id].revision]
          IN
          \/ Found(c) = "absent" /\ producer' = [producer EXCEPT ![p] = [c EXCEPT !.pc = "read"]]
          \/ Replay(p, c)
  BY DEF Call
<1>2. PICK value \in CASE kind = "version" -> Texts
                       [] kind = "move" -> Advances[stage[v.id].state]
                       [] OTHER -> {"none"} :
          LET c == [Ready EXCEPT !.kind = kind, !.key = key, !.on = v.id, !.value = value,
                                 !.expected = stage[v.id].revision]
          IN
          \/ Found(c) = "absent" /\ producer' = [producer EXCEPT ![p] = [c EXCEPT !.pc = "read"]]
          \/ Replay(p, c)
  BY <1>1
<1> DEFINE c == [Ready EXCEPT !.kind = kind, !.key = key, !.on = v.id, !.value = value,
                              !.expected = stage[v.id].revision]
           d == [c EXCEPT !.pc = "read"]
<1>3. UNCHANGED Tables /\ calls' \in 0 .. MaxCalls
  BY EditorialOK DEF Call, EditorialInv, EditorialTypes, EditorialTypeOK
<1>4. v.id \in Ids /\ stage[v.id].state \in Storable /\ stage[v.id].revision \in Nat
  BY DEF EditorialInv, EditorialTypes, EditorialTypeOK, Staged
<1>5. value \in Texts \cup DOMAIN Advances \cup {"none"} /\ (kind = "version" => value \in Texts)
  <2>1. kind = "move" => value \in DOMAIN Advances
    BY <1>4, AdvancesAreStages DEF Storable
  <2>2. QED
    BY <2>1
<1>6. c \in Calls /\ c.on = v.id /\ c.kind = kind /\ c.value = value /\ c.answer = "none"
  BY <1>4, <1>5, ReadyIsCall DEF Calls, Ready
<1>7. d \in Calls /\ d.on = v.id /\ d.kind = kind /\ d.value = value /\ d.pc = "read" /\ d.answer = "none"
  BY <1>6 DEF Calls
<1>8. Has(v.id)
  BY DEF Has
<1>9. producer' = [producer EXCEPT ![p] = d] \/ Replay(p, c)
  BY <1>2
<1> HIDE DEF c, d
<1>10. CASE producer' = [producer EXCEPT ![p] = d]
  <2>1. producer'[p] = d /\ producer' \in [Producers -> Calls] /\ \A q \in Producers : q # p => producer'[q] = producer[q]
    BY <1>7, <1>10 DEF EditorialInv, EditorialTypes
  <2>2. CallOK(producer[p])'
    BY <1>3, <1>5, <1>7, <1>8, <2>1 DEF CallOK, Has, Tables
  <2>3. QED
    BY <1>3, <2>1, <2>2, TablesStayStep DEF Moves
<1>11. CASE Replay(p, c)
  BY <1>3, <1>6, <1>8, <1>11, Replayed, TablesStayStep DEF Tables
<1>12. QED
  BY <1>9, <1>10, <1>11

LEMMA AllocateKeeps ==
  ASSUME EditorialInv, NEW p \in Producers, Allocate(p)
  PROVE  EditorialInv'
<1>1. UNCHANGED Tables /\ calls' \in 0 .. MaxCalls /\ producer[p] \in Calls /\ CallOK(producer[p])
      /\ producer[p].pc = "read" /\ producer[p].kind = "version"
  BY DEF Allocate, Is, EditorialInv, EditorialTypes, EditorialTypeOK
<1>2. CASE Answer(p, "refused")
  BY <1>1, <1>2, Refused, TablesStayStep DEF Tables
<1>3. CASE /\ VersionOf(producer[p].on).no = Latest.no
           /\ producer' = [producer EXCEPT ![p].pc = "write", ![p].no = Latest.no + 1]
  <2>1. PICK v \in versions : v.id = producer[p].on
    BY <1>1 DEF CallOK, Has
  <2>2. v.no = Latest.no /\ v.no \in Nat
    BY <1>3, <2>1, VersionFound DEF EditorialInv, EditorialTypes, EditorialTypeOK
  <2>3. Follows(v.no + 1, producer[p].on)
    BY <2>1 DEF Follows
  <2>4. /\ producer' \in [Producers -> Calls] /\ \A q \in Producers : q # p => producer'[q] = producer[q]
        /\ producer'[p] = [producer[p] EXCEPT !.pc = "write", !.no = v.no + 1]
    <3>1. producer \in [Producers -> Calls] /\ [producer[p] EXCEPT !.pc = "write", !.no = v.no + 1] \in Calls
      <4>1. \A n \in Nat : [producer[p] EXCEPT !.pc = "write", !.no = n] \in Calls
        BY <1>1 DEF Calls
      <4>2. v.no + 1 \in Nat
        BY <2>2
      <4>3. QED
        BY <4>1, <4>2 DEF EditorialInv, EditorialTypes
    <3>2. producer' = [producer EXCEPT ![p] = [producer[p] EXCEPT !.pc = "write", !.no = v.no + 1]]
      BY <1>3, <2>2, <3>1
    <3>3. QED
      BY <3>1, <3>2
  <2>5. CallOK(producer[p])'
    BY <1>1, <2>3, <2>4 DEF CallOK, Calls, Has, Follows, Stored, Reviewed, Tables
  <2>6. QED
    BY <1>1, <2>4, <2>5, TablesStayStep DEF Moves
<1>4. QED
  BY <1>2, <1>3 DEF Allocate

LEMMA LeavesKeeps ==
  ASSUME EditorialInv, NEW p \in Producers, Leaves(p)
  PROVE  EditorialInv'
<1>1. UNCHANGED Tables /\ calls' \in 0 .. MaxCalls /\ producer' = [producer EXCEPT ![p] = Ready]
  BY DEF Leaves, EditorialInv, EditorialTypes, EditorialTypeOK
<1>2. Has("initial")' /\ Ready.on = "initial" /\ Ready.pc = "idle" /\ Ready.answer = "none"
  BY <1>1 DEF Ready, EditorialInv, Line, Has, Tables
<1>3. /\ producer' \in [Producers -> Calls] /\ \A q \in Producers : q # p => producer'[q] = producer[q]
      /\ producer'[p] = Ready
  BY <1>1, ReadyIsCall DEF EditorialInv, EditorialTypes
<1>4. CallOK(producer[p])'
  BY <1>2, <1>3 DEF CallOK
<1>5. QED
  BY <1>1, <1>3, <1>4, TablesStayStep DEF Moves

LEMMA InsertVersionKeeps ==
  ASSUME EditorialInv, NEW p \in Producers, InsertVersion(p)
  PROVE  EditorialInv'
<1> DEFINE c == producer[p]
           v == Version(c.key, c.no, c.on, c.value)
<1>1. c \in Calls /\ CallOK(c) /\ c.pc = "write" /\ c.kind = "version"
      /\ UNCHANGED <<moves, records, calls>> /\ calls' \in 0 .. MaxCalls
  BY DEF InsertVersion, Is, EditorialInv, EditorialTypes, EditorialTypeOK
<1>2. CASE ~ Insertable(v)
  <2>1. Raced(p) /\ UNCHANGED Tables
    BY <1>1, <1>2 DEF InsertVersion, Tables
  <2>2. QED
    BY <1>1, <2>1, RacedKeeps, TablesStayStep
<1>3. CASE Insertable(v)
  <2>1. versions' = versions \cup {v} /\ stage' = [stage EXCEPT ![c.key] = NewStage("draft_generated")]
        /\ Answer(p, "created")
    BY <1>3 DEF InsertVersion, Version
  <2>2. v = [id |-> c.key, no |-> c.no, parent |-> c.on, text |-> c.value]
    BY DEF Version
  <2>3. c.key \in Ids /\ c.key # "initial" /\ Follows(c.no, c.on) /\ c.no \in Nat \ {0}
    BY <1>1, EditorialOK DEF Calls, CallOK, Ids, Follows, EditorialInv, EditorialTypes, EditorialTypeOK
  <2>4. v \in [id : Ids, no : Nat \ {0}, parent : Ids \cup {"none"}, text : Texts]
    BY <1>1, <2>2, <2>3 DEF Calls, CallOK
  <2>5. ~ Has(c.key) /\ "draft_generated" \in Storable
    BY <1>3, <2>2 DEF Insertable, Has, Storable, Advances
  <2> HIDE DEF v
  <2>6. v.id = c.key /\ v.no = c.no /\ v.parent = c.on /\ v.text = c.value
    BY <2>2
  <2>7. Line'
    BY <1>3, <2>1, <2>3, <2>4, <2>6, LineGrows DEF EditorialInv
  <2>8. Staged'
    BY <1>1, <2>1, <2>3, <2>5, <2>6, StagedGrows DEF EditorialInv
  <2>9. Moves(p)
    <3>1. /\ producer' \in [Producers -> Calls] /\ \A q \in Producers : q # p => producer'[q] = producer[q]
          /\ producer'[p] = [c EXCEPT !.pc = "done", !.answer = "created"]
      BY <1>1, <2>1 DEF Answer, EditorialInv, EditorialTypes, Calls, Answers
    <3>2. CallOK(producer[p])'
      BY <1>1, <2>1, <2>6, <3>1 DEF CallOK, Calls, Has, Follows, Stored
    <3>3. QED
      BY <3>1, <3>2 DEF Moves
  <2>10. EditorialTypeOK'
    <3>1. versions' \subseteq [id : Ids, no : Nat \ {0}, parent : Ids \cup {"none"}, text : Texts]
      BY <2>1, <2>4 DEF EditorialInv, EditorialTypes, EditorialTypeOK
    <3>2. stage' \in [Ids -> [state : Storable \cup {"none"}, revision : Nat]]
      BY <2>1, <2>5 DEF EditorialInv, EditorialTypes, EditorialTypeOK, NewStage
    <3>3. \A q \in Producers : producer'[q] \in Calls
      BY <2>9 DEF Moves
    <3>4. QED
      BY <1>1, <3>1, <3>2, <3>3 DEF EditorialInv, EditorialTypes, EditorialTypeOK, Calls
  <2>11. QED
    BY <1>1, <2>1, <2>7, <2>8, <2>9, <2>10, ProducerStep
<1>4. QED
  BY <1>2, <1>3

LEMMA InsertRecordKeeps ==
  ASSUME EditorialInv, NEW p \in Producers, InsertRecord(p)
  PROVE  EditorialInv'
<1> DEFINE c == producer[p]
<1>1. c \in Calls /\ CallOK(c) /\ c.pc = "read" /\ c.kind \in {"review", "plan"}
      /\ UNCHANGED <<versions, stage, moves, calls>> /\ calls' \in 0 .. MaxCalls
  BY DEF InsertRecord, Is, EditorialInv, EditorialTypes, EditorialTypeOK
<1>2. CASE Raced(p) /\ UNCHANGED records
  BY <1>1, <1>2, RacedKeeps, TablesStayStep DEF Tables
<1>3. CASE Answer(p, "created") /\ records' = records \cup {Reviewed(c)}
  <2>1. /\ producer' \in [Producers -> Calls] /\ \A q \in Producers : q # p => producer'[q] = producer[q]
        /\ producer'[p] = [c EXCEPT !.pc = "done", !.answer = "created"]
    BY <1>1, <1>3 DEF Answer, EditorialInv, EditorialTypes, Calls, Answers
  <2>2. CallOK(producer[p])'
    BY <1>1, <1>3, <2>1 DEF CallOK, Calls, Has, Stored, Reviewed
  <2>3. EditorialTypeOK'
    <3>1. records' \subseteq [kind : {"review", "plan"}, key : Keys, on : Ids]
      BY <1>1, <1>3 DEF EditorialInv, EditorialTypes, EditorialTypeOK, Reviewed, Calls
    <3>2. QED
      BY <1>1, <2>1, <3>1 DEF EditorialInv, EditorialTypes, EditorialTypeOK, Calls
  <2>4. Line' /\ Staged'
    BY <1>1 DEF EditorialInv, Line, Staged, Has, Follows, History
  <2>5. QED
    BY <1>1, <1>3, <2>1, <2>2, <2>3, <2>4, ProducerStep DEF Moves
<1>4. QED
  BY <1>2, <1>3 DEF InsertRecord

LEMMA ReadStageKeeps ==
  ASSUME EditorialInv, NEW p \in Producers, ReadStage(p)
  PROVE  EditorialInv'
<1> DEFINE c == producer[p]
<1>1. c \in Calls /\ CallOK(c) /\ c.pc = "read" /\ c.kind = "move" /\ UNCHANGED Tables /\ calls' \in 0 .. MaxCalls
  BY DEF ReadStage, Is, EditorialInv, EditorialTypes, EditorialTypeOK
<1>2. CASE Answer(p, "refused")
  BY <1>1, <1>2, Refused, TablesStayStep DEF Tables
<1>3. CASE /\ c.value \in Advances[stage[c.on].state]
           /\ producer' = [producer EXCEPT ![p].pc = "write", ![p].seen = stage[c.on].state]
  <2> DEFINE s == stage[c.on].state
             d == [c EXCEPT !.pc = "write", !.seen = s]
  <2>1. s \in Storable /\ s \in DOMAIN Advances
    BY <1>1 DEF CallOK, Has, EditorialInv, Staged, Storable
  <2>2. producer' = [producer EXCEPT ![p] = d]
    BY <1>1, <1>3 DEF EditorialInv, EditorialTypes, Calls
  <2> HIDE DEF s
  <2>3. d \in Calls /\ d.pc = "write" /\ d.seen = s /\ d.on = c.on /\ d.kind = "move" /\ d.value = c.value
        /\ d.answer = c.answer /\ d.key = c.key /\ d.expected = c.expected
    BY <1>1, <2>1 DEF Calls
  <2> HIDE DEF d
  <2>4. /\ producer' \in [Producers -> Calls] /\ \A q \in Producers : q # p => producer'[q] = producer[q]
        /\ producer'[p] = d
    BY <2>2, <2>3 DEF EditorialInv, EditorialTypes
  <2>5. CallOK(producer[p])'
    BY <1>1, <1>3, <2>1, <2>3, <2>4 DEF CallOK, Has, Stored, Reviewed, Tables, s
  <2>6. QED
    BY <1>1, <2>4, <2>5, TablesStayStep DEF Moves
<1>4. QED
  BY <1>2, <1>3 DEF ReadStage

LEMMA CommitMoveKeeps ==
  ASSUME EditorialInv, NEW p \in Producers, CommitMove(p)
  PROVE  EditorialInv'
<1> DEFINE c == producer[p]
           m == [on |-> c.on, key |-> c.key, from |-> c.seen, to |-> c.value, revision |-> c.expected + 1]
           now == [state |-> c.value, revision |-> c.expected + 1]
<1>1. c \in Calls /\ CallOK(c) /\ c.pc = "write" /\ c.kind = "move"
      /\ UNCHANGED <<versions, records, calls>> /\ calls' \in 0 .. MaxCalls
  BY DEF CommitMove, Is, EditorialInv, EditorialTypes, EditorialTypeOK
<1>2. CASE UNCHANGED <<stage, moves>> /\ (Answer(p, "refused") \/ Raced(p))
  BY <1>1, <1>2, Refused, RacedKeeps, TablesStayStep DEF Tables
<1>3. CASE /\ c.value \in Storable /\ StageHolds(c)
           /\ stage' = [stage EXCEPT ![c.on] = [state |-> c.value, revision |-> @.revision + 1]]
           /\ moves' = moves \cup {m} /\ Answer(p, "created")
  <2>1. /\ c.on \in Ids /\ Has(c.on) /\ c.seen \in Storable /\ c.value \in Advances[c.seen] /\ c.expected \in Nat
        /\ c.key \in Keys /\ stage \in [Ids -> [state : Storable \cup {"none"}, revision : Nat]]
    BY <1>1 DEF CallOK, Calls, EditorialInv, EditorialTypes, EditorialTypeOK
  <2>2. stage[c.on].state = c.seen /\ stage[c.on].revision = c.expected
    BY <1>3 DEF StageHolds
  <2>3. stage' = [stage EXCEPT ![c.on] = now]
    BY <1>3, <2>1, <2>2
  <2>4. /\ producer' \in [Producers -> Calls] /\ \A q \in Producers : q # p => producer'[q] = producer[q]
        /\ producer'[p] = [c EXCEPT !.pc = "done", !.answer = "created"]
    BY <1>1, <1>3 DEF Answer, EditorialInv, EditorialTypes, Calls, Answers
  <2>5. CallOK(producer[p])'
    <3>1. m \in moves' /\ m.on = c.on /\ m.key = c.key /\ m.to = c.value /\ m.revision = c.expected + 1
      BY <1>3
    <3> HIDE DEF m
    <3>2. producer'[p].on = c.on /\ producer'[p].key = c.key /\ producer'[p].value = c.value
          /\ producer'[p].expected = c.expected /\ producer'[p].kind = "move" /\ producer'[p].pc = "done"
      BY <1>1, <2>4 DEF Calls
    <3>3. Stored(producer[p])'
      BY <3>1, <3>2 DEF Stored
    <3>4. QED
      BY <1>1, <3>2, <3>3 DEF CallOK, Has
  <2> DEFINE Mine(v) == {n \in moves : n.on = v.id}
  <2>6. m.revision = c.expected + 1 /\ m.from = c.seen /\ m.to = c.value /\ m.on = c.on
        /\ m \in [on : Ids, key : Keys, from : Storable, to : Storable, revision : Nat]
    BY <1>3, <2>1
  <2> HIDE DEF m
  <2>7. \A n \in moves : n.revision \in Nat
    BY DEF EditorialInv, EditorialTypes, EditorialTypeOK
  <2>8. \A v \in versions : History(Mine(v), stage[v.id])
    BY DEF EditorialInv, Staged
  <2>9. ASSUME NEW v \in versions
        PROVE  History({n \in moves' : n.on = v.id}, stage'[v.id])
    <3>1. CASE v.id = c.on
      <4>1. {n \in moves' : n.on = v.id} = Mine(v) \cup {m}
        BY <1>3, <2>6, <3>1
      <4>2. History(Mine(v) \cup {m}, [state |-> m.to, revision |-> m.revision])
        <5>1. \A n \in Mine(v) : n.revision \in Nat
          BY <2>7
        <5> HIDE DEF Mine
        <5>2. History(Mine(v), stage[v.id]) /\ stage[v.id].state = c.seen /\ stage[v.id].revision = c.expected
          BY <2>2, <2>8, <3>1
        <5>3. m.revision = stage[v.id].revision + 1 /\ m.from = stage[v.id].state /\ m.to \in Advances[m.from]
              /\ stage[v.id].revision \in Nat
          BY <2>1, <2>6, <5>2
        <5>4. QED
          BY <5>1, <5>2, <5>3, HistoryGrows
      <4>3. stage'[v.id] = [state |-> m.to, revision |-> m.revision]
        BY <2>1, <2>3, <2>6, <3>1
      <4>4. QED
        BY <4>1, <4>2, <4>3
    <3>2. CASE v.id # c.on
      <4>1. {n \in moves' : n.on = v.id} = Mine(v) /\ stage'[v.id] = stage[v.id]
        BY <1>3, <2>1, <2>3, <2>6, <3>2 DEF EditorialInv, EditorialTypes, EditorialTypeOK
      <4>2. QED
        BY <2>8, <4>1
    <3>3. QED
      BY <3>1, <3>2
  <2>10. Staged'
    <3>1. \A v \in versions : stage'[v.id].state \in Storable
      BY <1>3, <2>1, <2>3 DEF EditorialInv, EditorialTypes, EditorialTypeOK, Staged
    <3>2. \A n \in moves' : Has(n.on)'
      BY <1>1, <1>3, <2>1, <2>6 DEF EditorialInv, Staged, Has
    <3>3. QED
      BY <1>1, <2>9, <3>1, <3>2 DEF Staged, History
  <2>11. Line'
    BY <1>1 DEF EditorialInv, Line, Has, Follows
  <2>12. EditorialTypeOK'
    <3>1. stage' \in [Ids -> [state : Storable \cup {"none"}, revision : Nat]]
      BY <1>3, <2>1, <2>3
    <3>2. moves' \subseteq [on : Ids, key : Keys, from : Storable, to : Storable, revision : Nat]
      BY <1>3, <2>6 DEF EditorialInv, EditorialTypes, EditorialTypeOK
    <3>3. QED
      BY <1>1, <2>4, <3>1, <3>2 DEF EditorialInv, EditorialTypes, EditorialTypeOK, Calls
  <2>13. QED
    BY <1>1, <1>3, <2>4, <2>5, <2>10, <2>11, <2>12, ProducerStep DEF Moves
<1>4. QED
  BY <1>2, <1>3 DEF CommitMove

\* A producer's step appends versions of producers only.
LEMMA EditorialKeeps ==
  ASSUME EditorialInv, EditorialNext
  PROVE  /\ EditorialInv' /\ versions \subseteq versions'
         /\ \A v \in versions' : v \in versions \/ v.id \in Keys
<1>1. EditorialInv'
  BY CallKeeps, AllocateKeeps, InsertVersionKeeps, InsertRecordKeeps, ReadStageKeeps, CommitMoveKeeps, LeavesKeeps
     DEF EditorialNext
<1>2. ASSUME NEW p \in Producers, InsertVersion(p)
      PROVE  versions \subseteq versions' /\ \A v \in versions' : v \in versions \/ v.id \in Keys
  BY <1>2 DEF InsertVersion, Version, EditorialInv, EditorialTypes, Calls
<1>3. ASSUME NEW p \in Producers, Call(p) \/ Allocate(p) \/ InsertRecord(p) \/ ReadStage(p) \/ CommitMove(p) \/ Leaves(p)
      PROVE  versions' = versions
  BY <1>3 DEF Call, Allocate, InsertRecord, ReadStage, CommitMove, Leaves, Tables
<1>4. QED
  BY <1>1, <1>2, <1>3 DEF EditorialNext

-----------------------------------------------------------------------------
(* What a step of someone else leaves true.                                *)

\* Versions and requests only appear.
Grow ==
  /\ versions \subseteq versions'
  /\ \A r \in Requests : requests[r] # NoRequest => requests'[r] # NoRequest

HandlerSide ==
  HandlerTypes /\ ChoiceTypes /\ (\A h \in Handlers : HandlerOK(h)) /\ ChoosersDiffer /\ ChoicesCounted
JobSide == PublishedTypes /\ JobTypes /\ JobOK /\ Shown
RequestSide == RequestTypes /\ RequestsKept

LEMMA Sides == RevisionInv <=> HandlerSide /\ JobSide /\ RequestSide /\ faults \in 0 .. MaxFaults
BY DEF RevisionInv, RevisionTypes, HandlerSide, JobSide, RequestSide

LEMMA CostsBounded ==
  ASSUME faults \in 0 .. MaxFaults, NEW o, Costs(o)
  PROVE  faults' \in 0 .. MaxFaults
BY RevisionsOK DEF Costs

LEMMA HandlerKept ==
  ASSUME Grow, NEW h, HandlerOK(h), handler'[h] = handler[h],
         Choosing(h) => pending'[handler[h].on][handler[h].choice] = pending[handler[h].on][handler[h].choice]
  PROVE  HandlerOK(h)'
BY DEF Grow, HandlerOK, Choosing, Has

LEMMA HandlersStay ==
  ASSUME HandlerSide, Grow, UNCHANGED <<app, handler>>
  PROVE  HandlerSide'
<1>1. \A h \in Handlers : HandlerOK(h)'
  BY HandlerKept DEF HandlerSide, app
<1>2. QED
  BY <1>1 DEF HandlerSide, HandlerTypes, ChoiceTypes, ChoosersDiffer, Choosing, ChoicesCounted, Recorded, app

\* A handler that is not about a choice moves.
LEMMA HandlerStep ==
  ASSUME HandlerSide, Grow, UNCHANGED app, NEW h \in Handlers, NEW k \in Handled,
         handler' = [handler EXCEPT ![h] = k], k.pc \notin {"insertChoice", "chosen"},
         k.pc = "insert" => k.id \in Requests /\ Has(k.on),
         k.pc \in {"store", "dispatch"} => k.id \in Requests /\ requests'[k.id] # NoRequest
  PROVE  HandlerSide'
<1>1. handler' \in [Handlers -> Handled] /\ handler'[h] = k /\ \A g \in Handlers : g # h => handler'[g] = handler[g]
  BY DEF HandlerSide, HandlerTypes
<1>2. ~ Choosing(h)'
  BY <1>1 DEF Choosing
<1>3. HandlerOK(h)'
  BY <1>1, <1>2 DEF HandlerOK, Grow, Has
<1>4. \A g \in Handlers : HandlerOK(g)'
  BY <1>1, <1>3, HandlerKept DEF HandlerSide, app
<1>5. ChoosersDiffer'
  BY <1>1, <1>2 DEF HandlerSide, ChoosersDiffer, Choosing
<1>6. ChoiceTypes' /\ ChoicesCounted'
  BY DEF HandlerSide, ChoiceTypes, ChoicesCounted, Recorded, app
<1>7. QED
  BY <1>1, <1>4, <1>5, <1>6 DEF HandlerSide, HandlerTypes

LEMMA NoHandlerStep ==
  ASSUME HandlerSide, Grow, UNCHANGED app, NEW h \in Handlers, Leave(h)
  PROVE  HandlerSide'
<1>1. NoHandler \in Handled /\ NoHandler.pc = "idle"
  BY DEF NoHandler, Handled, Ids
<1>2. QED
  BY <1>1, HandlerStep DEF Leave

LEMMA GotoStep ==
  ASSUME HandlerSide, Grow, UNCHANGED app, NEW h \in Handlers, NEW pc \in {"store", "dispatch"}, Goto(h, pc),
         handler[h].id \in Requests, requests'[handler[h].id] # NoRequest
  PROVE  HandlerSide'
<1> DEFINE k == [handler[h] EXCEPT !.pc = pc]
<1>1. k \in Handled /\ k.pc = pc /\ k.id = handler[h].id
  BY DEF HandlerSide, HandlerTypes, Handled
<1>2. handler' = [handler EXCEPT ![h] = k]
  BY DEF Goto, HandlerSide, HandlerTypes
<1> HIDE DEF k
<1>3. QED
  BY <1>1, <1>2, HandlerStep

\* The job, its stores and what waits stay.
LEMMA JobsStay ==
  ASSUME JobSide, Grow, UNCHANGED <<job, waiting, transcript, draft>>, JobTypes,
         recording'.text = recording.text, recording' \in [stage : Stages, text : Texts]
  PROVE  JobSide'
<1>1. JobOK'
  BY DEF JobSide, JobTypes, Grow, JobOK, Stores
<1>2. Shown'
  BY DEF JobSide, Grow, Shown, Stores, SomeText, CompletedIsDrafted
<1>3. QED
  BY <1>1, <1>2 DEF JobSide, PublishedTypes, JobTypes

\* Nobody appends a version of a request but its job.
LEMMA RequestsStay ==
  ASSUME RequestSide, UNCHANGED requests, versions \subseteq versions',
         \A v \in versions' : v \in versions \/ v.id \notin Requests,
         artifacts' \subseteq Requests, prepared' \in [Requests -> Texts \cup {"none"}]
  PROVE  RequestSide' /\ Grow
BY DEF RequestSide, RequestTypes, RequestsKept, Has, Grow

-----------------------------------------------------------------------------
(* The steps of producers and of the handlers.                             *)

LEMMA ProducersKeep ==
  ASSUME IInv, EditorialNext, UNCHANGED <<app, stores, published, handler, waiting, job, faults>>
  PROVE  IInv'
<1>1. EditorialInv' /\ versions \subseteq versions' /\ \A v \in versions' : v \in versions \/ v.id \in Keys
  BY EditorialKeeps DEF IInv
<1>2. HandlerSide /\ JobSide /\ RequestSide /\ faults \in 0 .. MaxFaults
  BY Sides DEF IInv
<1>3. RequestSide' /\ Grow
  BY <1>1, <1>2, RequestsStay, RevisionsOK DEF stores, RequestSide, RequestTypes
<1>4. HandlerSide'
  BY <1>2, <1>3, HandlersStay
<1>5. JobSide'
  BY <1>2, <1>3, JobsStay DEF published, JobSide, PublishedTypes
<1>6. RevisionInv'
  BY <1>2, <1>3, <1>4, <1>5, Sides DEF RevisionInv, RevisionTypes, HandlerSide, JobSide, RequestSide
<1>7. QED
  BY <1>1, <1>6 DEF IInv

\* A handler's step: the versions stay, and so do the job's stores but for the
\* stage of the recording.
LEMMA HandlerKeeps ==
  ASSUME IInv, UNCHANGED <<versions, stage, moves, records, producer>>, calls' \in 0 .. MaxCalls,
         HandlerSide', JobSide', RequestSide', faults' \in 0 .. MaxFaults
  PROVE  IInv'
<1>1. EditorialInv'
  BY EditorialStays DEF IInv
<1>2. RevisionInv'
  BY DEF RevisionInv, RevisionTypes, HandlerSide, JobSide, RequestSide
<1>3. QED
  BY <1>1, <1>2 DEF IInv

\* A handler's step that leaves the requests and everything of the job alone.
LEMMA HandlerAlone ==
  ASSUME IInv, UNCHANGED <<versions, stage, moves, records, producer>>, calls' \in 0 .. MaxCalls,
         Grow => HandlerSide', UNCHANGED <<published, waiting, job, requests, prepared>>,
         artifacts' \subseteq Requests, faults' \in 0 .. MaxFaults
  PROVE  IInv'
<1>1. JobSide /\ RequestSide
  BY Sides DEF IInv
<1>2. RequestSide' /\ Grow
  BY <1>1, RequestsStay DEF RequestSide, RequestTypes
<1>3. JobSide'
  BY <1>1, <1>2, JobsStay DEF published, JobSide, PublishedTypes
<1>4. QED
  BY <1>2, <1>3, HandlerKeeps

LEMMA SubmitKeeps ==
  ASSUME IInv, NEW h \in Handlers, Submit(h)
  PROVE  IInv'
<1>1. HandlerSide /\ RequestSide /\ calls \in 0 .. MaxCalls /\ faults \in 0 .. MaxFaults
  BY Sides DEF IInv, EditorialInv, EditorialTypes, EditorialTypeOK
<1>2. UNCHANGED <<versions, stage, moves, records, producer, published, waiting, job, app, stores, faults>>
  BY DEF Submit, Arrived
<1>3. calls' \in 0 .. MaxCalls
  BY <1>1, EditorialOK DEF Submit, Arrives
<1>4. PICK r \in Requests, v \in versions :
        LET sent == [NoHandler EXCEPT !.on = v.id, !.id = r] IN
        \/ requests[r] # NoRequest /\ Becomes(h, [sent EXCEPT !.pc = "store", !.replay = TRUE])
        \/ Becomes(h, [sent EXCEPT !.pc = "insert"])
  BY DEF Submit
<1>5. v.id \in Ids /\ Has(v.id)
  BY DEF Has, IInv, EditorialInv, EditorialTypes, EditorialTypeOK
<1> DEFINE Sent(pc, replay) == [pc |-> pc, on |-> v.id, id |-> r, choice |-> "none", replay |-> replay]
<1>6. \A pc \in {"store", "insert"}, replay \in BOOLEAN : Sent(pc, replay) \in Handled
  BY <1>5 DEF Handled
<1>7. \/ requests[r] # NoRequest /\ handler' = [handler EXCEPT ![h] = Sent("store", TRUE)]
      \/ handler' = [handler EXCEPT ![h] = Sent("insert", FALSE)]
  BY <1>4 DEF Becomes, NoHandler
<1>8. \A pc, replay : Sent(pc, replay).pc = pc /\ Sent(pc, replay).id = r /\ Sent(pc, replay).on = v.id
  OBVIOUS
<1> HIDE DEF Sent
<1>9. ASSUME Grow PROVE HandlerSide'
  <2>1. UNCHANGED <<app, requests>>
    BY <1>2 DEF stores
  <2>2. CASE requests[r] # NoRequest /\ handler' = [handler EXCEPT ![h] = Sent("store", TRUE)]
    <3> DEFINE k == Sent("store", TRUE)
    <3>1. k \in Handled /\ k.pc = "store" /\ k.id = r /\ handler' = [handler EXCEPT ![h] = k]
      BY <1>6, <1>8, <2>2
    <3>2. k.id \in Requests /\ requests'[k.id] # NoRequest /\ app' = app
      BY <2>1, <2>2, <3>1
    <3> HIDE DEF k
    <3>3. QED
      BY <1>1, <1>9, <3>1, <3>2, HandlerStep
  <2>3. CASE handler' = [handler EXCEPT ![h] = Sent("insert", FALSE)]
    <3> DEFINE k == Sent("insert", FALSE)
    <3>1. k \in Handled /\ k.pc = "insert" /\ k.id = r /\ k.on = v.id /\ handler' = [handler EXCEPT ![h] = k]
      BY <1>6, <1>8, <2>3
    <3>2. k.id \in Requests /\ Has(k.on) /\ app' = app
      BY <1>5, <2>1, <3>1
    <3> HIDE DEF k
    <3>3. QED
      BY <1>1, <1>9, <3>1, <3>2, HandlerStep
  <2>4. QED
    BY <1>7, <2>2, <2>3
<1>10. QED
  BY <1>1, <1>2, <1>3, <1>9, HandlerAlone DEF stores, RequestSide, RequestTypes

\* What a handler that serves a request finds.
LEMMA Serving ==
  ASSUME IInv, NEW h \in Handlers
  PROVE  /\ HandlerSide /\ JobSide /\ RequestSide /\ handler[h] \in Handled /\ HandlerOK(h)
         /\ calls \in 0 .. MaxCalls /\ faults \in 0 .. MaxFaults
BY Sides DEF IInv, EditorialInv, EditorialTypes, EditorialTypeOK, HandlerSide, HandlerTypes

LEMMA InsertRequestKeeps ==
  ASSUME IInv, NEW h \in Handlers, InsertRequest(h)
  PROVE  IInv'
<1> DEFINE r == handler[h].id
           parent == handler[h].on
<1>1. UNCHANGED <<editorial, app, artifacts, prepared, published, waiting, job, faults>>
  BY DEF InsertRequest, ServerKeeps
<1>2. HandlerSide /\ JobSide /\ RequestSide /\ r \in Requests /\ parent \in Ids /\ Has(parent)
  BY Serving DEF InsertRequest, At, HandlerOK, Handled
<1>3. CASE Leave(h) /\ UNCHANGED requests
  BY <1>1, <1>2, <1>3, NoHandlerStep, HandlerAlone, Serving DEF editorial, RequestSide, RequestTypes
<1>4. CASE /\ RequestInsertable(r, parent)
           /\ requests' = [requests EXCEPT ![r] = [NoRequest EXCEPT !.status = "queued", !.parent = parent]]
           /\ Goto(h, "store")
  <2> DEFINE new == [NoRequest EXCEPT !.status = "queued", !.parent = parent]
  <2>1. requests[r] = NoRequest /\ (\A q \in Requests : requests[q].parent # parent) /\ \A v \in versions : v.parent # parent
    BY <1>4 DEF RequestInsertable, HasChild
  <2>2. new.status = "queued" /\ new.parent = parent /\ new.child = "none" /\ NoRequest.status = "none"
    BY DEF NoRequest
  <2>3. new \in [status : {"none", "queued", "wechat_pending", "completed", "wechat_failed"},
                  parent : Ids \cup {"none"}, child : Requests \cup {"none"}, failed : BOOLEAN]
    BY <1>2 DEF NoRequest
  <2>4. requests' = [requests EXCEPT ![r] = new] /\ new # NoRequest
    BY <1>4, <2>2
  <2> HIDE DEF new
  <2>5. requests'[r] = new /\ \A q \in Requests : q # r => requests'[q] = requests[q]
    BY <1>2, <2>2, <2>4 DEF RequestSide, RequestTypes
  <2>6. RequestTypes'
    BY <1>1, <1>2, <2>3, <2>4 DEF RequestSide, RequestTypes
  <2>7. Grow
    BY <1>1, <2>1, <2>2, <2>4, <2>5 DEF Grow, editorial
  <2>8. RequestsKept'
    <3>1. \A q \in Requests : requests'[q] = NoRequest \/ (Has(requests[q].parent)' /\ requests'[q].status # "none")
      BY <1>1, <1>2, <2>2, <2>5 DEF RequestSide, RequestsKept, Has, editorial
    <3>2. \A p \in Requests, q \in Requests :
            requests'[p] # NoRequest /\ requests'[p].parent = requests'[q].parent => p = q
      BY <1>2, <2>1, <2>2, <2>5 DEF RequestSide, RequestsKept
    <3>3. ~ Has(r)
      <4>1. requests[r].child = "none" /\ r # "none"
        BY <1>2, <2>1, EditorialOK, RevisionsOK DEF NoRequest
      <4>2. QED
        BY <1>2, <4>1 DEF RequestSide, RequestsKept
    <3>4. \A q \in Requests : Has(q)' <=> requests'[q].child = q
      BY <1>1, <1>2, <2>2, <2>5, <3>3, EditorialOK, RevisionsOK DEF RequestSide, RequestsKept, Has, editorial
    <3>5. \A q \in Requests, v \in versions' :
            v.id = q => v.parent = requests'[q].parent /\ requests'[q].status # "queued"
      BY <1>1, <1>2, <2>2, <2>5, <3>3 DEF RequestSide, RequestsKept, Has, editorial
    <3>6. QED
      BY <3>1, <3>2, <3>4, <3>5 DEF RequestsKept
  <2>9. HandlerSide'
    BY <1>1, <1>2, <1>4, <2>2, <2>4, <2>5, <2>7, GotoStep
  <2>10. JobSide'
    BY <1>1, <1>2, <2>7, JobsStay DEF published, JobSide, PublishedTypes
  <2>11. QED
    BY <1>1, <2>6, <2>8, <2>9, <2>10, HandlerKeeps, Serving DEF editorial, RequestSide
<1>5. QED
  BY <1>3, <1>4 DEF InsertRequest

LEMMA StoreArtifactsKeeps ==
  ASSUME IInv, NEW h \in Handlers, StoreArtifacts(h)
  PROVE  IInv'
<1>1. UNCHANGED <<editorial, app, requests, prepared, published, waiting, job>>
  BY DEF StoreArtifacts, ServerKeeps
<1>2. HandlerSide /\ RequestSide /\ handler[h].id \in Requests /\ requests'[handler[h].id] # NoRequest
  BY <1>1, Serving DEF StoreArtifacts, At, HandlerOK
<1>3. faults' \in 0 .. MaxFaults /\ artifacts' \subseteq Requests
  BY <1>2, Serving, CostsBounded DEF StoreArtifacts, RequestSide, RequestTypes
<1>4. ASSUME Grow PROVE HandlerSide'
  BY <1>1, <1>2, <1>4, GotoStep, NoHandlerStep DEF StoreArtifacts
<1>5. QED
  BY <1>1, <1>3, <1>4, HandlerAlone, Serving DEF editorial

LEMMA DispatchKeeps ==
  ASSUME IInv, NEW h \in Handlers, Dispatch(h)
  PROVE  IInv'
<1>1. UNCHANGED <<editorial, app, stores, transcript, draft, job>> /\ Leave(h)
  BY DEF Dispatch
<1>2. HandlerSide /\ JobSide /\ RequestSide /\ handler[h].id \in Requests /\ requests[handler[h].id] # NoRequest
  BY Serving DEF Dispatch, At, HandlerOK
<1>3. RequestSide' /\ Grow
  BY <1>1, <1>2, RequestsStay DEF stores, editorial, RequestSide, RequestTypes
<1>4. HandlerSide'
  BY <1>1, <1>2, <1>3, NoHandlerStep
<1>5. recording'.text = recording.text /\ recording' \in [stage : Stages, text : Texts]
  BY <1>2 DEF Dispatch, JobSide, PublishedTypes, Stages
<1>6. waiting' \in {waiting, handler[h].id}
  BY DEF Dispatch
<1>7. JobTypes' /\ JobOK'
  BY <1>1, <1>2, <1>3, <1>6 DEF JobSide, JobTypes, JobOK, Grow, Stores
<1>8. Shown'
  BY <1>1, <1>2, <1>3, <1>5 DEF JobSide, Shown, Stores, SomeText, Grow, CompletedIsDrafted
<1>9. faults' \in 0 .. MaxFaults
  BY Serving, CostsBounded DEF Dispatch
<1>10. JobSide'
  BY <1>1, <1>2, <1>5, <1>7, <1>8 DEF JobSide, PublishedTypes
<1>11. QED
  BY <1>1, <1>3, <1>4, <1>9, <1>10, HandlerKeeps, Serving DEF editorial

LEMMA DropKeeps ==
  ASSUME IInv, NEW h \in Handlers, Drop(h)
  PROVE  IInv'
<1>1. UNCHANGED <<editorial, app, stores, published, waiting, job>> /\ Leave(h)
  BY DEF Drop, ServerKeeps
<1>2. faults' \in 0 .. MaxFaults
  BY Serving, CostsBounded DEF Drop
<1>3. ASSUME Grow PROVE HandlerSide'
  BY <1>1, <1>3, NoHandlerStep, Serving
<1>4. QED
  BY <1>1, <1>2, <1>3, HandlerAlone, Serving DEF editorial, stores, RequestSide, RequestTypes

-----------------------------------------------------------------------------
(* Choices.                                                                *)

\* No choice recorded is no choice.
LEMMA NothingIsNoChoice == \A v, c : <<>> # <<v, c>>
<1> SUFFICES ASSUME NEW v, NEW c, <<>> = <<v, c>>
             PROVE  FALSE
  OBVIOUS
<1>1. Len(<<>>) = 0 /\ Len(<<v, c>>) = 2
  OBVIOUS
<1>2. QED
  BY <1>1

LEMMA ChooseKeeps ==
  ASSUME IInv, NEW h \in Handlers, Choose(h)
  PROVE  IInv'
<1>1. PICK e \in Events, v \in versions, c \in Choices :
        /\ EventFor(e, v.id, c)
        /\ \A g \in Handlers : handler[g].id # e
        /\ pending' = [pending EXCEPT ![v.id][c] = e]
        /\ LET sent == [NoHandler EXCEPT !.on = v.id, !.id = e, !.choice = c] IN
           \/ Becomes(h, [sent EXCEPT !.pc = "chosen"])
           \/ Becomes(h, [sent EXCEPT !.pc = "insertChoice"])
           \/ UNCHANGED handler
  BY DEF Choose
<1>2. UNCHANGED <<versions, stage, moves, records, producer, published, waiting, job, feedback, confirmed, stores, faults>>
      /\ At(h, "idle")
  BY DEF Choose, Arrived
<1>3. calls' \in 0 .. MaxCalls
  BY EditorialOK, Serving DEF Choose, Arrives
<1>4. HandlerSide /\ RequestSide /\ v.id \in Ids
  BY Serving DEF IInv, EditorialInv, EditorialTypes, EditorialTypeOK
<1>5. /\ \A x \in Ids, d \in Choices :
            pending'[x][d] = IF x = v.id /\ d = c THEN e ELSE pending[x][d]
      /\ pending' \in [Ids -> [Choices -> Events \cup {"none"}]]
  BY <1>1, <1>4 DEF HandlerSide, ChoiceTypes
<1>6. pending[v.id][c] \in {"none", e}
  BY <1>1 DEF EventFor
<1>7. \A g \in Handlers : g # h => HandlerOK(g)' /\ handler'[g] = handler[g]
  <2>1. ASSUME NEW g \in Handlers, g # h PROVE handler'[g] = handler[g]
    BY <1>1, <1>4, <2>1 DEF Becomes, HandlerSide, HandlerTypes
  <2>2. ASSUME NEW g \in Handlers, Choosing(g)
        PROVE  pending'[handler[g].on][handler[g].choice] = pending[handler[g].on][handler[g].choice]
    <3>1. handler[g].on \in Ids /\ handler[g].choice \in Choices /\ handler[g].id \in Events
          /\ pending[handler[g].on][handler[g].choice] = handler[g].id
      BY <1>4, <2>2 DEF HandlerSide, HandlerTypes, Handled, HandlerOK
    <3>2. CASE handler[g].on = v.id /\ handler[g].choice = c
      BY <1>1, <1>6, <3>1, <3>2, RevisionsOK
    <3>3. CASE ~ (handler[g].on = v.id /\ handler[g].choice = c)
      BY <1>5, <3>1, <3>3
    <3>4. QED
      BY <3>2, <3>3
  <2>3. Grow
    BY <1>2 DEF Grow, stores
  <2>4. QED
    BY <1>4, <2>1, <2>2, <2>3, HandlerKept DEF HandlerSide
<1>8. handler' \in [Handlers -> Handled] /\ HandlerOK(h)' /\ (Choosing(h)' => handler'[h].id = e)
  <2> DEFINE Sent(pc) == [pc |-> pc, on |-> v.id, id |-> e, choice |-> c, replay |-> FALSE]
  <2>1. \/ \E pc \in {"chosen", "insertChoice"} : handler' = [handler EXCEPT ![h] = Sent(pc)]
        \/ handler' = handler
    BY <1>1 DEF Becomes, NoHandler
  <2>2. \A pc \in {"chosen", "insertChoice"} : Sent(pc) \in Handled
    BY <1>4 DEF Handled
  <2>3. \A pc : Sent(pc).pc = pc /\ Sent(pc).id = e /\ Sent(pc).on = v.id /\ Sent(pc).choice = c
    OBVIOUS
  <2> HIDE DEF Sent
  <2>4. ASSUME NEW pc \in {"chosen", "insertChoice"}, handler' = [handler EXCEPT ![h] = Sent(pc)]
        PROVE  handler' \in [Handlers -> Handled] /\ HandlerOK(h)' /\ (Choosing(h)' => handler'[h].id = e)
    <3>1. handler' \in [Handlers -> Handled] /\ handler'[h] = Sent(pc)
      BY <1>4, <2>2, <2>4 DEF HandlerSide, HandlerTypes
    <3>2. QED
      BY <1>4, <1>5, <2>3, <2>4, <3>1 DEF HandlerOK, Choosing
  <2>5. CASE handler' = handler
    BY <1>2, <1>4, <2>5 DEF HandlerSide, HandlerTypes, HandlerOK, Choosing, At
  <2>6. QED
    BY <2>1, <2>4, <2>5
<1>9. ChoosersDiffer'
  BY <1>1, <1>4, <1>7, <1>8 DEF HandlerSide, ChoosersDiffer, Choosing
<1>10. ChoicesCounted'
  <2> SUFFICES ASSUME NEW x \in Ids, NEW d \in Choices
               PROVE  /\ IsFiniteSet(Recorded(x, d)')
                      /\ Cardinality(Recorded(x, d)' \ {pending'[x][d]}) <= confirmed'[x][d]
    BY DEF ChoicesCounted
  <2>1. Recorded(x, d)' = Recorded(x, d) /\ confirmed' = confirmed
    BY <1>2 DEF Recorded
  <2>2. Recorded(x, d) \ {pending'[x][d]} = Recorded(x, d) \ {pending[x][d]}
    <3>1. CASE ~ (x = v.id /\ d = c) \/ pending[v.id][c] = e
      BY <1>5, <3>1
    <3>2. CASE x = v.id /\ d = c /\ pending[v.id][c] # e
      <4>1. feedback[e] = <<>> /\ pending[x][d] = "none" /\ pending'[x][d] = e
        BY <1>1, <1>5, <1>6, <3>2 DEF EventFor
      <4>2. e \notin Recorded(x, d) /\ "none" \notin Recorded(x, d)
        BY <4>1, RevisionsOK, NothingIsNoChoice DEF Recorded
      <4>3. QED
        BY <4>1, <4>2
    <3>3. QED
      BY <3>1, <3>2
  <2>3. QED
    BY <1>4, <2>1, <2>2 DEF HandlerSide, ChoicesCounted
<1>11. HandlerSide'
  BY <1>2, <1>4, <1>5, <1>7, <1>8, <1>9, <1>10 DEF HandlerSide, HandlerTypes, ChoiceTypes
<1>12. QED
  BY <1>2, <1>3, <1>4, <1>11, HandlerAlone, Serving DEF stores, RequestSide, RequestTypes

\* A choice at a handler is of the id the phone keeps for it.
LEMMA ChoosingKnows ==
  ASSUME IInv, NEW h \in Handlers, Choosing(h)
  PROVE  /\ handler[h].id \in Events /\ handler[h].on \in Ids /\ handler[h].choice \in Choices
         /\ pending[handler[h].on][handler[h].choice] = handler[h].id
BY Serving DEF HandlerOK, Handled

LEMMA InsertChoiceKeeps ==
  ASSUME IInv, NEW h \in Handlers, InsertChoice(h)
  PROVE  IInv'
<1> DEFINE e == handler[h].id
           v == handler[h].on
           c == handler[h].choice
<1>1. UNCHANGED <<editorial, published, waiting, job, pending, confirmed, stores, faults>>
  BY DEF InsertChoice, ServerKeeps
<1>2. HandlerSide /\ RequestSide /\ handler[h] \in Handled
  BY Serving
<1>3. Choosing(h) /\ e \in Events /\ v \in Ids /\ c \in Choices /\ pending[v][c] = e
  BY ChoosingKnows DEF InsertChoice, At, Choosing
<1>4. CASE Leave(h) /\ UNCHANGED feedback
  BY <1>1, <1>2, <1>4, NoHandlerStep, HandlerAlone, Serving DEF editorial, app, stores, RequestSide, RequestTypes
<1>5. CASE feedback' = [feedback EXCEPT ![e] = <<v, c>>] /\ Goto(h, "chosen")
  <2> DEFINE k == [handler[h] EXCEPT !.pc = "chosen"]
  <2>1. k \in Handled /\ k.pc = "chosen" /\ k.id = e /\ k.on = v /\ k.choice = c
    BY <1>2 DEF Handled
  <2>2. handler' = [handler EXCEPT ![h] = k]
    BY <1>2, <1>5 DEF Goto, HandlerSide, HandlerTypes
  <2> HIDE DEF k
  <2>3. handler' \in [Handlers -> Handled] /\ handler'[h] = k /\ \A g \in Handlers : g # h => handler'[g] = handler[g]
    BY <1>2, <2>1, <2>2 DEF HandlerSide, HandlerTypes
  <2>4. HandlerOK(h)'
    BY <1>1, <1>3, <2>1, <2>3 DEF HandlerOK, Choosing
  <2>5. \A g \in Handlers : HandlerOK(g)'
    BY <1>1, <1>2, <2>3, <2>4, HandlerKept DEF HandlerSide, Grow, editorial, stores
  <2>6. ChoosersDiffer'
    BY <1>2, <1>3, <2>1, <2>3 DEF HandlerSide, ChoosersDiffer, Choosing
  <2>7. feedback' \in [Events -> {<<>>} \cup Ids \X Choices]
    BY <1>2, <1>3, <1>5 DEF HandlerSide, ChoiceTypes
  <2>8. \A x \in Events : feedback'[x] = IF x = e THEN <<v, c>> ELSE feedback[x]
    BY <1>2, <1>5 DEF HandlerSide, ChoiceTypes
  <2>9. ASSUME NEW x \in Ids, NEW d \in Choices
        PROVE  /\ IsFiniteSet(Recorded(x, d)')
               /\ Cardinality(Recorded(x, d)' \ {pending'[x][d]}) <= confirmed'[x][d]
    <3> DEFINE S == Recorded(x, d)
               T == Recorded(x, d)'
    <3>1. IsFiniteSet(S) /\ Cardinality(S \ {pending[x][d]}) <= confirmed[x][d] /\ confirmed[x][d] \in Nat
      BY <1>2 DEF HandlerSide, ChoicesCounted, ChoiceTypes
    <3>2. T \subseteq S \cup {e} /\ (e \in T => x = v /\ d = c)
      BY <2>8 DEF Recorded
    <3>3. T \ {pending[x][d]} \subseteq S \ {pending[x][d]}
      BY <1>3, <3>2
    <3> HIDE DEF S, T
    <3>4. IsFiniteSet(S \cup {e}) /\ IsFiniteSet(S \ {pending[x][d]})
      BY <3>1, FS_AddElement, FS_RemoveElement
    <3>5. IsFiniteSet(T)
      BY <3>2, <3>4, FS_Subset
    <3>6. Cardinality(T \ {pending[x][d]}) <= Cardinality(S \ {pending[x][d]})
      BY <3>3, <3>4, FS_Subset
    <3>7. Cardinality(T \ {pending[x][d]}) \in Nat /\ Cardinality(S \ {pending[x][d]}) \in Nat
      BY <3>3, <3>4, FS_Subset, FS_CardinalityType
    <3>8. pending' = pending /\ confirmed' = confirmed
      BY <1>1
    <3>9. QED
      BY <3>1, <3>5, <3>6, <3>7, <3>8 DEF T
  <2>10. ChoicesCounted'
    BY <2>9 DEF ChoicesCounted
  <2>11. HandlerSide'
    BY <1>1, <1>2, <2>3, <2>5, <2>6, <2>7, <2>10 DEF HandlerSide, HandlerTypes, ChoiceTypes
  <2>12. QED
    BY <1>1, <2>11, HandlerAlone, Serving DEF editorial, stores, RequestSide, RequestTypes
<1>6. QED
  BY <1>4, <1>5 DEF InsertChoice

LEMMA ConfirmChoiceKeeps ==
  ASSUME IInv, NEW h \in Handlers, ConfirmChoice(h)
  PROVE  IInv'
<1> DEFINE e == handler[h].id
           v == handler[h].on
           c == handler[h].choice
<1>1. /\ UNCHANGED <<editorial, published, waiting, job, feedback, stores, faults>>
      /\ handler' = [handler EXCEPT ![h] = NoHandler]
  BY DEF ConfirmChoice, ServerKeeps, Leave
<1>2. HandlerSide /\ RequestSide
  BY Serving
<1>3. Choosing(h) /\ e \in Events /\ v \in Ids /\ c \in Choices /\ pending[v][c] = e
  BY ChoosingKnows DEF ConfirmChoice, At, Choosing
<1>4. /\ pending' = [pending EXCEPT ![v][c] = IF @ = e THEN "none" ELSE @]
      /\ confirmed' = [confirmed EXCEPT ![v][c] = @ + 1]
  BY DEF ConfirmChoice
<1>5. /\ pending' \in [Ids -> [Choices -> Events \cup {"none"}]]
      /\ \A x \in Ids, d \in Choices : pending'[x][d] = IF x = v /\ d = c THEN "none" ELSE pending[x][d]
  BY <1>2, <1>3, <1>4 DEF HandlerSide, ChoiceTypes
<1>6. /\ confirmed' \in [Ids -> [Choices -> Nat]]
      /\ \A x \in Ids, d \in Choices :
           confirmed'[x][d] = IF x = v /\ d = c THEN confirmed[x][d] + 1 ELSE confirmed[x][d]
  BY <1>2, <1>3, <1>4 DEF HandlerSide, ChoiceTypes
<1>7. NoHandler \in Handled /\ NoHandler.pc = "idle"
  BY DEF NoHandler, Handled, Ids
<1>8. handler' \in [Handlers -> Handled] /\ handler'[h] = NoHandler /\ \A g \in Handlers : g # h => handler'[g] = handler[g]
  BY <1>1, <1>2, <1>7 DEF HandlerSide, HandlerTypes
<1>9. \A g \in Handlers : HandlerOK(g)'
  <2>1. HandlerOK(h)'
    BY <1>7, <1>8 DEF HandlerOK, Choosing
  <2>2. ASSUME NEW g \in Handlers, g # h PROVE HandlerOK(g)'
    <3>1. ASSUME Choosing(g)
          PROVE  pending'[handler[g].on][handler[g].choice] = pending[handler[g].on][handler[g].choice]
      <4>1. handler[g].id # e
        BY <1>2, <1>3, <2>2, <3>1 DEF HandlerSide, ChoosersDiffer
      <4>2. QED
        BY <1>3, <1>5, <3>1, <4>1, ChoosingKnows
    <3>2. Grow
      BY <1>1 DEF Grow, editorial, stores
    <3>3. QED
      BY <1>2, <1>8, <2>2, <3>1, <3>2, HandlerKept DEF HandlerSide
  <2>3. QED
    BY <2>1, <2>2
<1>10. ChoosersDiffer'
  BY <1>2, <1>7, <1>8 DEF HandlerSide, ChoosersDiffer, Choosing
<1>11. ASSUME NEW x \in Ids, NEW d \in Choices
       PROVE  /\ IsFiniteSet(Recorded(x, d)')
              /\ Cardinality(Recorded(x, d)' \ {pending'[x][d]}) <= confirmed'[x][d]
  <2> DEFINE S == Recorded(x, d)
             P == pending[x][d]
             Q == pending'[x][d]
  <2>1. IsFiniteSet(S) /\ Cardinality(S \ {P}) <= confirmed[x][d] /\ confirmed[x][d] \in Nat
    BY <1>2 DEF HandlerSide, ChoicesCounted, ChoiceTypes
  <2>2. Recorded(x, d)' = S
    BY <1>1 DEF Recorded
  <2>3. CASE ~ (x = v /\ d = c)
    BY <1>5, <1>6, <2>1, <2>2, <2>3
  <2>4. CASE x = v /\ d = c
    <3>1. Q = "none" /\ confirmed'[x][d] = confirmed[x][d] + 1
      BY <1>5, <1>6, <2>4
    <3>2. S \ {Q} = S
      BY <3>1, RevisionsOK DEF Recorded
    <3> HIDE DEF S, P, Q
    <3>3. Cardinality(S) \in Nat /\ Cardinality(S \ {P}) \in Nat /\ Cardinality(S) <= Cardinality(S \ {P}) + 1
      <4>1. IsFiniteSet(S \ {P}) /\ Cardinality(S \ {P}) = IF P \in S THEN Cardinality(S) - 1 ELSE Cardinality(S)
        BY <2>1, FS_RemoveElement
      <4>2. Cardinality(S) \in Nat /\ Cardinality(S \ {P}) \in Nat
        BY <2>1, <4>1, FS_CardinalityType
      <4>3. QED
        BY <4>1, <4>2
    <3>4. Cardinality(S) <= confirmed[x][d] + 1
      BY <2>1, <3>3
    <3>5. QED
      BY <2>1, <2>2, <3>1, <3>2, <3>4 DEF Q
  <2>5. QED
    BY <2>3, <2>4
<1>12. ChoicesCounted'
  BY <1>11 DEF ChoicesCounted
<1>13. HandlerSide'
  BY <1>1, <1>2, <1>5, <1>6, <1>8, <1>9, <1>10, <1>12 DEF HandlerSide, HandlerTypes, ChoiceTypes
<1>14. QED
  BY <1>1, <1>2, <1>13, HandlerAlone, Serving DEF editorial, stores, RequestSide, RequestTypes

LEMMA HandlerNextKeeps ==
  ASSUME IInv, NEW h \in Handlers, HandlerNext(h)
  PROVE  IInv'
BY ChooseKeeps, InsertChoiceKeeps, ConfirmChoiceKeeps, SubmitKeeps, InsertRequestKeeps, StoreArtifactsKeeps,
   DispatchKeeps, DropKeeps DEF HandlerNext

-----------------------------------------------------------------------------
(* The steps of the jobs.                                                  *)

LEMMA JobKnows ==
  ASSUME IInv
  PROVE  /\ HandlerSide /\ JobSide /\ RequestSide /\ faults \in 0 .. MaxFaults /\ EditorialInv
         /\ job \in Job /\ waiting \in Requests \cup {"none", "other"}
BY Sides DEF IInv, JobSide, JobTypes

LEMMA JobStep ==
  ASSUME IInv, UNCHANGED <<editorial, app, handler>>, RequestSide', Grow, JobSide', faults' \in 0 .. MaxFaults
  PROVE  IInv'
<1>1. EditorialInv'
  BY JobKnows, EditorialStays DEF editorial, EditorialInv, EditorialTypes, EditorialTypeOK
<1>2. HandlerSide'
  BY JobKnows, HandlersStay
<1>3. RevisionInv'
  BY <1>2 DEF RevisionInv, RevisionTypes, HandlerSide, JobSide, RequestSide
<1>4. QED
  BY <1>1, <1>3 DEF IInv

\* A job's step that leaves the requests alone.
LEMMA JobAlone ==
  ASSUME IInv, UNCHANGED <<editorial, app, handler, requests, artifacts>>,
         prepared' \in [Requests -> Texts \cup {"none"}], Grow => JobSide', faults' \in 0 .. MaxFaults
  PROVE  IInv'
<1>1. RequestSide' /\ Grow
  BY JobKnows, RequestsStay DEF editorial, RequestSide, RequestTypes
<1>2. QED
  BY <1>1, JobStep

Points == {"idle", "other", "load", "prepare", "version", "fail"} \cup Versioned

\* The job under way goes on to pc.
LEMMA JobGoes ==
  ASSUME JobSide, Grow, UNCHANGED waiting, NEW pc \in Points, JobTo(pc), job.pc \notin {"idle", "other"},
         pc = "version" => job.text \in Texts,
         pc \in Versioned => Stores(job.id, job.text)',
         pc \in {"pending", "draft"} => transcript'.stage = "ARTICLE_READY",
         pc = "complete" => draft' \in {"none", job.text}
  PROVE  JobTypes' /\ JobOK'
<1>1. job \in Job /\ waiting \in Requests \cup {"none", "other"}
  BY DEF JobSide, JobTypes
<1>2. job' \in Job /\ job'.pc = pc /\ job'.id = job.id /\ job'.text = job.text
  BY <1>1 DEF JobTo, Job, Points
<1>3. job.id \in Requests /\ requests'[job.id] # NoRequest
        /\ (waiting \notin {"none", "other"} => requests'[waiting] # NoRequest)
  BY <1>1 DEF JobSide, JobOK, Grow
<1>4. QED
  BY <1>1, <1>2, <1>3 DEF JobTypes, JobOK, Stores

LEMMA JobEnds ==
  ASSUME JobSide, Grow, UNCHANGED waiting, End
  PROVE  JobTypes' /\ JobOK'
<1>1. NoJob \in Job /\ NoJob.pc = "idle"
  BY DEF NoJob, Job
<1>2. waiting \notin {"none", "other"} => requests'[waiting] # NoRequest
  BY DEF JobSide, JobTypes, JobOK, Grow
<1>3. QED
  BY <1>1, <1>2 DEF End, JobTypes, JobOK, JobSide, Versioned

\* What is shown stays; the recording may get a text that is stored.
LEMMA ShownStays ==
  ASSUME JobSide, Grow, UNCHANGED <<transcript, draft>>,
         recording' \in [stage : Stages, text : Texts], SomeText(recording.text)'
  PROVE  PublishedTypes' /\ Shown'
<1>1. PublishedTypes'
  BY DEF JobSide, PublishedTypes
<1>2. Shown'
  BY DEF JobSide, Shown, Grow, Stores, SomeText, CompletedIsDrafted
<1>3. QED
  BY <1>1, <1>2

LEMMA ReportKeeps ==
  ASSUME JobSide, Grow, NEW o, NEW s \in Stages, NEW t \in Texts, SomeText(t), Report(o, s, t)
  PROVE  recording' \in [stage : Stages, text : Texts] /\ SomeText(recording.text)'
BY DEF JobSide, PublishedTypes, Shown, Report, SomeText, Grow

LEMMA OtherDispatchKeeps ==
  ASSUME IInv, OtherDispatch
  PROVE  IInv'
<1>1. UNCHANGED <<editorial, app, stores, published, handler, job>> /\ waiting' = "other" /\ faults' \in 0 .. MaxFaults
  BY JobKnows, CostsBounded DEF OtherDispatch
<1>2. ASSUME Grow PROVE JobSide'
  <2>1. JobTypes' /\ JobOK'
    BY <1>1, <1>2, JobKnows DEF JobSide, JobTypes, JobOK, Stores, Grow, published
  <2>2. PublishedTypes' /\ Shown'
    BY <1>1, <1>2, JobKnows, ShownStays DEF published, JobSide, PublishedTypes, Shown, SomeText, Grow
  <2>3. QED
    BY <2>1, <2>2 DEF JobSide
<1>3. QED
  BY <1>1, <1>2, JobKnows, JobAlone DEF stores, RequestSide, RequestTypes

LEMMA StartJobKeeps ==
  ASSUME IInv, StartJob
  PROVE  IInv'
<1> DEFINE pc == IF waiting = "other" THEN "other" ELSE "load"
           k == [NoJob EXCEPT !.pc = pc, !.id = waiting]
<1>1. UNCHANGED <<editorial, app, stores, published, handler, faults>> /\ waiting' = "none" /\ waiting # "none" /\ job' = k
  BY DEF StartJob
<1>2. k \in Job /\ k.pc = pc /\ k.id = waiting
  BY JobKnows DEF NoJob, Job
<1> HIDE DEF k
<1>3. ASSUME Grow PROVE JobSide'
  <2>1. pc = "load" => waiting \in Requests /\ requests'[waiting] # NoRequest
    BY <1>1, <1>3, JobKnows DEF JobSide, JobOK, Grow
  <2>2. JobTypes' /\ JobOK'
    BY <1>1, <1>2, <2>1 DEF JobTypes, JobOK, Versioned
  <2>3. PublishedTypes' /\ Shown'
    BY <1>1, <1>3, JobKnows, ShownStays DEF published, JobSide, PublishedTypes, Shown, SomeText, Grow
  <2>4. QED
    BY <2>2, <2>3 DEF JobSide
<1>4. QED
  BY <1>1, <1>3, JobKnows, JobAlone DEF stores, RequestSide, RequestTypes

\* The job ends, or fails before its version, and nothing else moves.
LEMMA QuietKeeps ==
  ASSUME IInv, JobKeeps, faults' \in 0 .. MaxFaults, End \/ (JobAt("prepare") /\ JobTo("fail"))
  PROVE  IInv'
<1>1. UNCHANGED <<editorial, app, stores, published, handler, waiting>>
  BY DEF JobKeeps
<1>2. ASSUME Grow PROVE JobSide'
  <2>1. JobTypes' /\ JobOK'
    BY <1>1, <1>2, JobKnows, JobEnds, JobGoes DEF JobAt, Points, Versioned
  <2>2. PublishedTypes' /\ Shown'
    BY <1>1, <1>2, JobKnows, ShownStays DEF published, JobSide, PublishedTypes, Shown, SomeText, Grow
  <2>3. QED
    BY <2>1, <2>2 DEF JobSide
<1>3. QED
  BY <1>1, <1>2, JobKnows, JobAlone DEF stores, RequestSide, RequestTypes

LEMMA DieKeeps ==
  ASSUME IInv, Die \/ RewriteFails \/ EndOther
  PROVE  IInv'
BY JobKnows, CostsBounded, QuietKeeps DEF Die, RewriteFails, EndOther

LEMMA LoadKeeps ==
  ASSUME IInv, Load
  PROVE  IInv'
<1>1. UNCHANGED <<editorial, app, artifacts, handler, requests, prepared, transcript, draft, waiting, faults>> /\ job.pc = "load"
  BY DEF Load, HandlersKeep, editorial, JobAt
<1>2. JobSide /\ RequestSide /\ job \in Job /\ job.id \in Requests /\ requests[job.id] # NoRequest
  BY <1>1, JobKnows DEF JobSide, JobOK
<1>3. ASSUME Grow PROVE JobSide'
  <2>1. CASE /\ Restored(job.id)
             /\ job' = [job EXCEPT !.pc = "version", !.text = prepared[job.id], !.restored = TRUE,
                                    !.failed = transcript.stage = "DRAFT_FAILED"]
             /\ UNCHANGED recording
    <3>1. prepared[job.id] \in Texts
      BY <1>2, <2>1 DEF Restored, RequestSide, RequestTypes
    <3>2. job' \in Job /\ job'.pc = "version" /\ job'.id = job.id /\ job'.text = prepared[job.id]
      BY <1>2, <2>1, <3>1 DEF Job
    <3>3. JobTypes' /\ JobOK'
      BY <1>1, <1>2, <1>3, <3>1, <3>2 DEF JobTypes, JobOK, Versioned, JobSide, Grow
    <3>4. PublishedTypes' /\ Shown'
      BY <1>1, <1>2, <1>3, <2>1, ShownStays DEF JobSide, PublishedTypes, Shown, SomeText, Grow
    <3>5. QED
      BY <3>3, <3>4 DEF JobSide
  <2>2. CASE JobTo("prepare") /\ Report("done", "REWRITING", recording.text)
    <3>1. JobTypes' /\ JobOK'
      BY <1>1, <1>2, <1>3, <2>2, JobGoes DEF Points, Versioned
    <3>2. recording.text \in Texts /\ SomeText(recording.text)
      BY <1>2 DEF JobSide, PublishedTypes, Shown
    <3>3. PublishedTypes' /\ Shown'
      BY <1>1, <1>2, <1>3, <2>2, <3>2, ReportKeeps, ShownStays DEF Stages
    <3>4. QED
      BY <3>1, <3>3 DEF JobSide
  <2>3. QED
    BY <2>1, <2>2 DEF Load
<1>4. QED
  BY <1>1, <1>2, <1>3, JobKnows, JobAlone DEF RequestSide, RequestTypes

LEMMA PrepareKeeps ==
  ASSUME IInv, Prepare
  PROVE  IInv'
<1>1. UNCHANGED <<editorial, app, artifacts, handler, requests, transcript, draft, recording, waiting>> /\ job.pc = "prepare"
  BY DEF Prepare, HandlersKeep, editorial, JobAt, published
<1>2. JobSide /\ RequestSide /\ job \in Job /\ job.id \in Requests /\ requests[job.id] # NoRequest
  BY <1>1, JobKnows DEF JobSide, JobOK
<1>3. PICK t \in Texts, o \in Outcomes :
        /\ Costs(o)
        /\ prepared' = IF o = "failed" THEN prepared ELSE [prepared EXCEPT ![job.id] = t]
        /\ job' = [job EXCEPT !.pc = IF o = "done" THEN "version" ELSE "fail", !.text = IF o = "done" THEN t ELSE @]
  BY DEF Prepare
<1>4. prepared' \in [Requests -> Texts \cup {"none"}] /\ faults' \in 0 .. MaxFaults
  BY <1>2, <1>3, JobKnows, CostsBounded DEF RequestSide, RequestTypes
<1>5. job' \in Job /\ job'.pc \in {"version", "fail"} /\ job'.id = job.id /\ (job'.pc = "version" => job'.text \in Texts)
  BY <1>2, <1>3 DEF Job
<1>6. ASSUME Grow PROVE JobSide'
  <2>1. JobTypes' /\ JobOK'
    BY <1>1, <1>2, <1>5, <1>6 DEF JobTypes, JobOK, Versioned, JobSide, Grow
  <2>2. PublishedTypes' /\ Shown'
    BY <1>1, <1>2, <1>6, ShownStays DEF JobSide, PublishedTypes, Shown, SomeText, Grow
  <2>3. QED
    BY <2>1, <2>2 DEF JobSide
<1>7. QED
  BY <1>1, <1>4, <1>6, JobAlone

\* The transcript is saved from the job's version, as completed only when the
\* draft shows the job's text.
LEMMA SaveTranscriptKeeps ==
  ASSUME IInv, NEW from \in Versioned, NEW s \in Stages, NEW next \in Versioned \ {"draft", "complete"},
         SaveTranscript(from, s, next), next = "pending" => s = "ARTICLE_READY", s = "COMPLETED" => from = "complete"
  PROVE  IInv'
<1>1. UNCHANGED <<editorial, app, artifacts, handler, requests, prepared, draft, waiting>> /\ job.pc = from
  BY DEF SaveTranscript, HandlersKeep, editorial, JobAt
<1>2. JobSide /\ job \in Job /\ Stores(job.id, job.text) /\ job.id \in Ids /\ job.text \in Texts
  <2>1. JobSide /\ job \in Job /\ Stores(job.id, job.text)
    BY <1>1, JobKnows DEF JobSide, JobOK
  <2>2. QED
    BY <2>1, JobKnows DEF Stores, EditorialInv, EditorialTypes, EditorialTypeOK
<1>3. PICK o \in Outcomes, reported \in {"done", "failed"} :
        /\ Costs(reported)
        /\ transcript' = IF o = "failed" THEN transcript ELSE [id |-> job.id, text |-> job.text, stage |-> s]
        /\ JobTo(IF o = "done" THEN next ELSE "fail")
        /\ Report(reported, s, job.text)
  BY DEF SaveTranscript
<1>4. faults' \in 0 .. MaxFaults
  BY <1>3, JobKnows, CostsBounded
<1>5. \/ transcript' = transcript
      \/ transcript'.id = job.id /\ transcript'.text = job.text /\ transcript'.stage = s /\ transcript' \in [id : Ids, text : Texts, stage : Stages]
  BY <1>2, <1>3
<1>6. SomeText(job.text)
  BY <1>2 DEF Stores, SomeText
<1>7. ASSUME Grow PROVE JobSide'
  <2>1. JobTypes' /\ JobOK'
    <3>1. CASE JobTo("fail")
      BY <1>1, <1>2, <1>7, <3>1, JobGoes DEF Points, Versioned
    <3>2. CASE JobTo(next) /\ o = "done"
      <4>1. Stores(job.id, job.text)'
        BY <1>1, <1>2, <3>2 DEF Stores, editorial, JobTo, Job
      <4>2. next = "pending" => transcript'.stage = "ARTICLE_READY"
        BY <1>3, <3>2
      <4>3. QED
        BY <1>1, <1>2, <1>7, <3>2, <4>1, <4>2, JobGoes DEF Points, Versioned
    <3>3. QED
      BY <1>3, <3>1, <3>2
  <2>2. recording' \in [stage : Stages, text : Texts] /\ SomeText(recording.text)'
    BY <1>2, <1>3, <1>6, <1>7, ReportKeeps
  <2>3. PublishedTypes'
    BY <1>1, <1>2, <1>5, <2>2 DEF JobSide, PublishedTypes
  <2>4. Stores(transcript.id, transcript.text)' /\ (draft' # "none" => SomeText(draft)')
    BY <1>1, <1>2, <1>5 DEF JobSide, Shown, Stores, SomeText, editorial
  <2>5. CompletedIsDrafted'
    BY <1>1, <1>2, <1>5 DEF JobSide, Shown, JobOK, CompletedIsDrafted
  <2>6. QED
    BY <2>1, <2>2, <2>3, <2>4, <2>5 DEF JobSide, Shown
<1>8. QED
  BY <1>1, <1>4, <1>7, JobKnows, JobAlone DEF RequestSide, RequestTypes

LEMMA UpdateDraftKeeps ==
  ASSUME IInv, UpdateDraft
  PROVE  IInv'
<1>1. UNCHANGED <<editorial, app, artifacts, handler, requests, prepared, transcript, recording, waiting>> /\ job.pc = "draft"
  BY DEF UpdateDraft, HandlersKeep, editorial, JobAt
<1>2. JobSide /\ job \in Job /\ Stores(job.id, job.text) /\ job.text \in Texts /\ transcript.stage = "ARTICLE_READY"
  <2>1. JobSide /\ job \in Job /\ Stores(job.id, job.text) /\ transcript.stage = "ARTICLE_READY"
    BY <1>1, JobKnows DEF JobSide, JobOK, Versioned
  <2>2. QED
    BY <2>1, JobKnows DEF Stores, EditorialInv, EditorialTypes, EditorialTypeOK
<1>3. /\ faults' \in 0 .. MaxFaults /\ draft' \in {draft, job.text}
      /\ \/ JobTo("complete") /\ draft' \in {"none", job.text}
         \/ JobTo("notDrafted")
  BY JobKnows, CostsBounded DEF UpdateDraft, AfterDraft
<1>4. ASSUME Grow PROVE JobSide'
  <2>1. Stores(job.id, job.text)'
    BY <1>1, <1>2, <1>3 DEF Stores, editorial, JobTo, Job
  <2>2. JobTypes' /\ JobOK'
    BY <1>1, <1>2, <1>3, <1>4, <2>1, JobGoes DEF Points, Versioned
  <2>3. PublishedTypes' /\ Stores(transcript.id, transcript.text)' /\ SomeText(recording.text)'
    BY <1>1, <1>2, <1>3 DEF JobSide, PublishedTypes, Shown, Stores, SomeText, editorial
  <2>4. draft' # "none" => SomeText(draft)'
    BY <1>1, <1>2, <1>3 DEF JobSide, Shown, Stores, SomeText, editorial
  <2>5. CompletedIsDrafted'
    BY <1>1, <1>2 DEF CompletedIsDrafted
  <2>6. QED
    BY <2>2, <2>3, <2>4, <2>5 DEF JobSide, Shown
<1>5. QED
  BY <1>1, <1>3, <1>4, JobKnows, JobAlone DEF RequestSide, RequestTypes

LEMMA FailRevisionKeeps ==
  ASSUME IInv, FailRevision
  PROVE  IInv'
<1>1. UNCHANGED <<editorial, app, artifacts, handler, requests, prepared, transcript, draft, waiting>> /\ End
  BY DEF FailRevision, HandlersKeep, editorial
<1>2. JobSide /\ recording.text \in Texts /\ SomeText(recording.text)
  BY JobKnows DEF JobSide, PublishedTypes, Shown
<1>3. PICK o \in {"done", "failed"} : Costs(o) /\ Report(o, "REVISION_FAILED", recording.text)
  BY DEF FailRevision
<1>4. faults' \in 0 .. MaxFaults
  BY <1>3, JobKnows, CostsBounded
<1>5. ASSUME Grow PROVE JobSide'
  <2>1. JobTypes' /\ JobOK'
    BY <1>1, <1>2, <1>5, JobEnds
  <2>2. recording' \in [stage : Stages, text : Texts] /\ SomeText(recording.text)'
    BY <1>2, <1>3, <1>5, ReportKeeps DEF Stages
  <2>3. PublishedTypes' /\ Shown'
    BY <1>1, <1>2, <1>5, <2>2, ShownStays
  <2>4. QED
    BY <2>1, <2>3 DEF JobSide
<1>6. QED
  BY <1>1, <1>4, <1>5, JobKnows, JobAlone DEF RequestSide, RequestTypes

\* The job's request takes a status that is neither none nor queued.
LEMMA StatusKeeps ==
  ASSUME RequestSide, UNCHANGED <<versions, artifacts, prepared>>, NEW r \in Requests, requests[r] # NoRequest,
         NEW status \in {"wechat_pending", "wechat_failed", "completed"}, NEW failed \in BOOLEAN,
         requests' = [requests EXCEPT ![r].status = status, ![r].failed = failed]
  PROVE  RequestSide' /\ Grow
<1> DEFINE row == [requests[r] EXCEPT !.status = status, !.failed = failed]
           Rows == [status : {"none", "queued", "wechat_pending", "completed", "wechat_failed"},
                    parent : Ids \cup {"none"}, child : Requests \cup {"none"}, failed : BOOLEAN]
<1>1. requests[r] \in Rows /\ requests \in [Requests -> Rows]
  BY DEF RequestSide, RequestTypes
<1>2. row \in Rows /\ row.status = status /\ row.parent = requests[r].parent /\ row.child = requests[r].child
  BY <1>1
<1>3. requests' = [requests EXCEPT ![r] = row]
  BY <1>1
<1> HIDE DEF row, Rows
<1>4. requests'[r] = row /\ (\A q \in Requests : q # r => requests'[q] = requests[q]) /\ requests' \in [Requests -> Rows]
  BY <1>1, <1>2, <1>3
<1>5. row # NoRequest
  BY <1>2 DEF NoRequest
<1>6. RequestTypes'
  BY <1>4 DEF Rows, RequestTypes, RequestSide
<1>7. RequestsKept'
  <2>1. \A q \in Requests : requests'[q] = NoRequest \/ (Has(requests[q].parent)' /\ requests'[q].status # "none")
    BY <1>2, <1>4 DEF RequestSide, RequestsKept, Has
  <2>2. \A p \in Requests, q \in Requests :
          requests'[p] # NoRequest /\ requests'[p].parent = requests'[q].parent => p = q
    BY <1>2, <1>4 DEF RequestSide, RequestsKept
  <2>3. \A q \in Requests : Has(q)' <=> requests'[q].child = q
    BY <1>2, <1>4 DEF RequestSide, RequestsKept, Has
  <2>4. \A q \in Requests, v \in versions' :
          v.id = q => v.parent = requests'[q].parent /\ requests'[q].status # "queued"
    BY <1>2, <1>4 DEF RequestSide, RequestsKept
  <2>5. QED
    BY <2>1, <2>2, <2>3, <2>4 DEF RequestsKept
<1>8. QED
  BY <1>4, <1>5, <1>6, <1>7 DEF RequestSide, Grow

LEMMA PostStatusKeeps ==
  ASSUME IInv, NEW from \in Versioned, NEW status \in {"wechat_pending", "wechat_failed", "completed"},
         NEW reported \in Stages \cup {"none"}, NEW next \in {"ready", "draft", "end"}, NEW failure \in {"end", "fail"},
         PostStatus(from, status, reported, next, failure), next = "draft" => from = "pending"
  PROVE  IInv'
<1>1. UNCHANGED <<editorial, app, artifacts, handler, prepared, transcript, draft, waiting>> /\ job.pc = from
  BY DEF PostStatus, HandlersKeep, editorial, JobAt
<1>2. /\ JobSide /\ RequestSide /\ job \in Job /\ Stores(job.id, job.text)
      /\ job.id \in Requests /\ requests[job.id] # NoRequest
  BY <1>1, JobKnows DEF JobSide, JobOK, Versioned
<1>3. job.text \in Texts /\ SomeText(job.text)
  BY <1>2, JobKnows DEF Stores, SomeText, EditorialInv, EditorialTypes, EditorialTypeOK
<1>4. PICK o \in Outcomes :
        /\ Costs(o)
        /\ requests' = IF o = "failed" THEN requests
                       ELSE [requests EXCEPT ![job.id].status = StatusAfter(job.id, status),
                                             ![job.id].failed = StatusAfter(job.id, status) = "wechat_failed"]
        /\ IF next = "end" \/ (o # "done" /\ failure = "end") THEN End
           ELSE JobTo(IF o = "done" THEN next ELSE failure)
        /\ IF reported = "none" THEN UNCHANGED recording ELSE Report(o, reported, job.text)
  BY DEF PostStatus
<1>5. faults' \in 0 .. MaxFaults
  BY <1>4, JobKnows, CostsBounded
<1>6. RequestSide' /\ Grow
  <2>1. CASE requests' = requests
    BY <1>1, <1>2, <2>1, RequestsStay DEF editorial, RequestSide, RequestTypes
  <2>2. CASE requests' = [requests EXCEPT ![job.id].status = StatusAfter(job.id, status),
                                          ![job.id].failed = StatusAfter(job.id, status) = "wechat_failed"]
    <3>1. StatusAfter(job.id, status) \in {"wechat_pending", "wechat_failed", "completed"}
      BY DEF StatusAfter
    <3>2. UNCHANGED <<versions, artifacts, prepared>>
      BY <1>1 DEF editorial
    <3>3. QED
      BY <1>2, <2>2, <3>1, <3>2, StatusKeeps
  <2>3. QED
    BY <1>4, <2>1, <2>2
<1>7. JobTypes' /\ JobOK'
  <2>1. CASE End
    BY <1>1, <1>2, <1>6, <2>1, JobEnds
  <2>2. CASE JobTo("fail")
    BY <1>1, <1>2, <1>6, <2>2, JobGoes DEF Points, Versioned
  <2>3. CASE JobTo(next) /\ next # "end"
    <3>1. Stores(job.id, job.text)'
      BY <1>1, <1>2, <2>3 DEF Stores, editorial, JobTo, Job
    <3>2. next = "draft" => transcript'.stage = "ARTICLE_READY"
      BY <1>1, <1>2 DEF JobSide, JobOK
    <3>3. QED
      BY <1>1, <1>2, <1>6, <2>3, <3>1, <3>2, JobGoes DEF Points, Versioned
  <2>4. QED
    BY <1>4, <2>1, <2>2, <2>3
<1>8. recording' \in [stage : Stages, text : Texts] /\ SomeText(recording.text)'
  BY <1>2, <1>3, <1>4, <1>6, ReportKeeps DEF JobSide, PublishedTypes, Shown, SomeText, Grow
<1>9. JobSide'
  BY <1>1, <1>2, <1>6, <1>7, <1>8, ShownStays DEF JobSide
<1>10. QED
  BY <1>1, <1>5, <1>6, <1>9, JobStep

-----------------------------------------------------------------------------
(* The version of a revision.                                              *)

\* A version created for a request continues the line.
LEMMA CreatedKeeps ==
  ASSUME IInv, NEW r \in Requests, requests[r] # NoRequest, NEW text \in Texts, VersionCreated(r, text),
         UNCHANGED <<moves, records, producer, calls>>
  PROVE  EditorialInv' /\ ~ Has(r) /\ versions \subseteq versions' /\ (\E v \in versions' : v.id = r /\ v.text = text)
         /\ \A v \in versions' : v \in versions \/ (v.id = r /\ v.parent = requests[r].parent)
<1> DEFINE parent == requests[r].parent
           v == [id |-> r, no |-> Latest.no + 1, parent |-> parent, text |-> text]
<1>1. /\ ~ HasChild(parent) /\ Latest.id = parent
      /\ versions' = versions \cup {v} /\ stage' = [stage EXCEPT ![r] = NewStage("content_frozen")]
  BY DEF VersionCreated, Version
<1>2. EditorialInv /\ EditorialTypes /\ Line /\ Staged /\ RequestSide
  BY JobKnows DEF EditorialInv
<1>3. r \in Ids /\ r # "initial" /\ Has(parent) /\ parent \in Ids
  <2>1. r \in Ids /\ r # "initial" /\ Has(parent)
    BY <1>2, EditorialOK, RevisionsOK DEF Ids, RequestSide, RequestsKept
  <2>2. QED
    BY <1>2, <2>1 DEF Has, EditorialTypes, EditorialTypeOK
<1>4. Latest \in versions /\ Latest.no \in Nat /\ \A w \in versions : w.no \in Nat /\ w.no <= Latest.no
  BY <1>2, LatestFound DEF EditorialTypes, EditorialTypeOK
<1>5. ~ Has(r)
  BY <1>1, <1>2 DEF RequestSide, RequestsKept, Has, HasChild
<1>6. v \in [id : Ids, no : Nat \ {0}, parent : Ids \cup {"none"}, text : Texts]
      /\ v.id = r /\ v.no = Latest.no + 1 /\ v.parent = parent /\ v.text = text
  BY <1>3, <1>4
<1> HIDE DEF v
<1>7. Insertable(v) /\ Follows(v.no, v.parent)
  BY <1>1, <1>4, <1>5, <1>6 DEF Insertable, Has, HasChild, Follows
<1>8. Line'
  BY <1>1, <1>2, <1>3, <1>6, <1>7, LineGrows
<1>9. Staged'
  BY <1>1, <1>2, <1>3, <1>5, <1>6, StagedGrows DEF Storable, Advances
<1>10. EditorialTypeOK'
  <2>1. stage' \in [Ids -> [state : Storable \cup {"none"}, revision : Nat]]
    <3>1. NewStage("content_frozen") \in [state : Storable \cup {"none"}, revision : Nat]
      BY DEF NewStage, Storable, Advances
    <3>2. QED
      BY <1>1, <1>2, <3>1 DEF EditorialTypes, EditorialTypeOK
  <2>2. QED
    BY <1>1, <1>2, <1>6, <2>1 DEF EditorialTypes, EditorialTypeOK
<1>11. \A p \in Producers : CallOK(producer[p])'
  BY <1>1, <1>2, CallKept DEF EditorialInv
<1>12. EditorialInv'
  BY <1>2, <1>8, <1>9, <1>10, <1>11 DEF EditorialInv, EditorialTypes
<1>13. QED
  BY <1>1, <1>5, <1>6, <1>12

\* The child of its request is linked to it.
LEMMA LinkedKeeps ==
  ASSUME RequestSide, NEW r \in Requests, requests[r] # NoRequest, Linked(r), UNCHANGED <<artifacts, prepared>>,
         versions \subseteq versions', \E v \in versions' : v.id = r, Has(r) \/ requests[r].child # r,
         \A v \in versions' : v \in versions \/ (v.id = r /\ v.parent = requests[r].parent)
  PROVE  RequestSide' /\ Grow
<1> DEFINE st == IF requests[r].status = "queued" THEN "wechat_pending" ELSE requests[r].status
           row == [requests[r] EXCEPT !.child = r, !.status = st]
           Rows == [status : {"none", "queued", "wechat_pending", "completed", "wechat_failed"},
                    parent : Ids \cup {"none"}, child : Requests \cup {"none"}, failed : BOOLEAN]
<1>1. requests[r] \in Rows /\ requests \in [Requests -> Rows]
  BY DEF RequestSide, RequestTypes
<1>2. /\ row \in Rows /\ row.status = st /\ row.parent = requests[r].parent /\ row.child = r
      /\ st \notin {"none", "queued"}
  BY <1>1 DEF RequestSide, RequestsKept
<1>3. requests' = [requests EXCEPT ![r] = row]
  BY <1>1 DEF Linked
<1> HIDE DEF row, Rows, st
<1>4. requests'[r] = row /\ (\A q \in Requests : q # r => requests'[q] = requests[q]) /\ requests' \in [Requests -> Rows]
  BY <1>1, <1>2, <1>3
<1>5. row # NoRequest
  BY <1>2 DEF NoRequest
<1>6. RequestTypes'
  BY <1>4 DEF Rows, RequestTypes, RequestSide
<1>7. RequestsKept'
  <2>1. \A q \in Requests : requests'[q] = NoRequest \/ (Has(requests[q].parent)' /\ requests'[q].status # "none")
    BY <1>2, <1>4 DEF RequestSide, RequestsKept, Has
  <2>2. \A p \in Requests, q \in Requests :
          requests'[p] # NoRequest /\ requests'[p].parent = requests'[q].parent => p = q
    BY <1>2, <1>4 DEF RequestSide, RequestsKept
  <2>3. \A q \in Requests : Has(q)' <=> requests'[q].child = q
    BY <1>2, <1>4 DEF RequestSide, RequestsKept, Has
  <2>4. \A q \in Requests, v \in versions' :
          v.id = q => v.parent = requests'[q].parent /\ requests'[q].status # "queued"
    BY <1>2, <1>4 DEF RequestSide, RequestsKept
  <2>5. QED
    BY <2>1, <2>2, <2>3, <2>4 DEF RequestsKept
<1>8. QED
  BY <1>4, <1>5, <1>6, <1>7 DEF RequestSide, Grow

LEMMA PostVersionKeeps ==
  ASSUME IInv, PostVersion
  PROVE  IInv'
<1> DEFINE r == job.id
<1>1. UNCHANGED <<app, artifacts, handler, prepared, transcript, draft, waiting, moves, records, producer, calls>> /\ job.pc = "version"
  BY DEF PostVersion, HandlersKeep, JobAt
<1>2. /\ JobSide /\ RequestSide /\ HandlerSide /\ job \in Job /\ job.text \in Texts
      /\ r \in Requests /\ requests[r] # NoRequest
  BY <1>1, JobKnows DEF JobSide, JobOK
<1>3. faults' \in 0 .. MaxFaults
  BY JobKnows, CostsBounded DEF PostVersion
<1>4. CASE VersionCreated(r, job.text) \/ VersionReplayed(r, job.text)
  <2>1. EditorialInv' /\ RequestSide' /\ Grow /\ \E v \in versions' : v.id = r /\ v.text = job.text
    <3>1. CASE VersionCreated(r, job.text)
      <4>1. EditorialInv' /\ ~ Has(r) /\ versions \subseteq versions' /\ (\E v \in versions' : v.id = r /\ v.text = job.text)
            /\ \A v \in versions' : v \in versions \/ (v.id = r /\ v.parent = requests[r].parent)
        BY <1>1, <1>2, <3>1, CreatedKeeps
      <4>2. (\E v \in versions' : v.id = r) /\ Linked(r) /\ requests[r].child # r
        BY <1>2, <3>1, <4>1 DEF VersionCreated, Stores, Has, RequestSide, RequestsKept
      <4>3. QED
        BY <1>1, <1>2, <4>1, <4>2, LinkedKeeps
    <3>2. CASE VersionReplayed(r, job.text)
      <4>1. UNCHANGED <<versions, stage>> /\ Linked(r) /\ Has(r) /\ VersionOf(r).text = job.text
        BY <3>2 DEF VersionReplayed, OwnChild
      <4>2. PICK w \in versions : w.id = r
        BY <4>1 DEF Has
      <4>3. w.text = job.text
        BY <4>1, <4>2, VersionFound, JobKnows DEF EditorialInv
      <4>4. EditorialInv'
        BY <1>1, <4>1, EditorialStays, JobKnows DEF EditorialInv, EditorialTypes, EditorialTypeOK
      <4>5. RequestSide' /\ Grow
        BY <1>1, <1>2, <4>1, LinkedKeeps DEF Has
      <4>6. \E v \in versions' : v.id = r /\ v.text = job.text
        BY <4>1, <4>2, <4>3
      <4>7. QED
        BY <4>4, <4>5, <4>6
    <3>3. QED
      BY <1>4, <3>1, <3>2
  <2>2. PICK pc \in {"prior", "ready", "fail"} : JobTo(pc)
    BY <1>4 DEF PostVersion, VersionRefused, VersionCreated, VersionReplayed
  <2>3. job'.id = job.id /\ job'.text = job.text
    BY <1>2, <2>2 DEF JobTo, Job
  <2>4. JobTypes' /\ JobOK'
    BY <1>1, <1>2, <2>1, <2>2, <2>3, JobGoes DEF Points, Versioned, Stores
  <2>5. SomeText(job.text)'
    BY <2>1, <2>3 DEF Stores, SomeText
  <2>6. recording' \in [stage : Stages, text : Texts] /\ recording'.text \in {recording.text, job.text}
    BY <1>2, <1>4 DEF VersionCreated, VersionReplayed, JobSide, PublishedTypes, Stages
  <2>7. SomeText(recording.text)'
    BY <1>2, <2>1, <2>3, <2>5, <2>6 DEF JobSide, Shown, SomeText, Grow
  <2>8. JobSide'
    BY <1>1, <1>2, <2>1, <2>4, <2>6, <2>7, ShownStays DEF JobSide
  <2>9. HandlerSide'
    BY <1>1, <1>2, <2>1, HandlersStay
  <2>10. RevisionInv'
    BY <1>3, <2>1, <2>8, <2>9 DEF RevisionInv, RevisionTypes, HandlerSide, JobSide, RequestSide
  <2>11. QED
    BY <2>1, <2>10 DEF IInv
<1>5. CASE VersionRefused(r, job.text) /\ JobTo("fail")
  <2>1. UNCHANGED <<editorial, requests, recording>>
    BY <1>1, <1>5 DEF VersionRefused, editorial
  <2>2. ASSUME Grow PROVE JobSide'
    <3>1. JobTypes' /\ JobOK'
      BY <1>1, <1>2, <1>5, <2>2, JobGoes DEF Points, Versioned
    <3>2. PublishedTypes' /\ Shown'
      BY <1>1, <1>2, <2>1, <2>2, ShownStays DEF JobSide, PublishedTypes, Shown, SomeText, Grow
    <3>3. QED
      BY <3>1, <3>2 DEF JobSide
  <2>3. QED
    BY <1>1, <1>2, <1>3, <2>1, <2>2, JobAlone DEF RequestSide, RequestTypes
<1>6. QED
  BY <1>4, <1>5 DEF PostVersion

LEMMA JobNextKeeps ==
  ASSUME IInv, JobNext
  PROVE  IInv'
<1>1. CASE PostPrior \/ PostPending \/ PostFailed \/ PostCompleted
  BY <1>1, PostStatusKeeps DEF PostPrior, PostPending, PostFailed, PostCompleted, Versioned, Stages
<1>2. CASE SaveReady \/ SaveDraftFailed \/ SaveCompleted
  BY <1>2, SaveTranscriptKeeps DEF SaveReady, SaveDraftFailed, SaveCompleted, Versioned, Stages
<1>3. QED
  BY <1>1, <1>2, OtherDispatchKeeps, StartJobKeeps, DieKeeps, LoadKeeps, PrepareKeeps, PostVersionKeeps,
     UpdateDraftKeeps, FailRevisionKeeps DEF JobNext, JobSteps

-----------------------------------------------------------------------------
(* The invariant.                                                          *)

LEMMA InitEditorial ==
  ASSUME Init
  PROVE  EditorialInv /\ \E t \in Texts : versions = {Version("initial", 1, "none", t)} /\ Latest.text = t /\ Stores("initial", t)
<1> DEFINE t == CHOOSE x \in Texts : TRUE
           v == [id |-> "initial", no |-> 1, parent |-> "none", text |-> t]
<1>1. EditorialInit
  BY DEF Init
<1>2. t \in Texts
  BY EditorialOK
<1>3. versions = {v}
  BY <1>1 DEF EditorialInit, Version
<1>4. v.id = "initial" /\ v.no = 1 /\ v.parent = "none" /\ v.text = t
      /\ v \in [id : Ids, no : Nat \ {0}, parent : Ids \cup {"none"}, text : Texts]
  BY <1>2 DEF Ids
<1> HIDE DEF v, t
<1>5. Line
  BY <1>3, <1>4 DEF Line, Has
<1>6. stage \in [Ids -> [state : Storable \cup {"none"}, revision : Nat]] /\ stage["initial"] = NewStage("content_frozen")
  BY <1>1 DEF EditorialInit, NewStage, Storable, Advances, Ids
<1>7. moves = {} /\ records = {} /\ calls = 0 /\ producer = [p \in Producers |-> Ready]
  BY <1>1 DEF EditorialInit
<1>8. History({}, NewStage("content_frozen"))
  BY DEF History, NewStage
<1>9. Staged
  <2>1. \A w \in versions : stage[w.id] = NewStage("content_frozen")
    BY <1>3, <1>4, <1>6
  <2>2. "content_frozen" \in Storable /\ NewStage("content_frozen").state = "content_frozen"
    BY DEF Storable, Advances, NewStage
  <2>3. \A w : {m \in moves : m.on = w} = {}
    BY <1>7
  <2>4. QED
    BY <1>7, <1>8, <2>1, <2>2, <2>3 DEF Staged
<1>10. producer \in [Producers -> Calls] /\ \A p \in Producers : CallOK(producer[p])
  <2>1. CallOK(Ready)
    BY <1>5 DEF CallOK, Ready, Line
  <2>2. QED
    BY <1>7, <2>1, ReadyIsCall
<1>11. EditorialTypeOK
  BY <1>3, <1>4, <1>6, <1>7, <1>10, EditorialOK DEF EditorialTypeOK, Calls
<1>12. EditorialInv
  BY <1>5, <1>9, <1>10, <1>11 DEF EditorialInv, EditorialTypes
<1>13. Latest = v
  BY <1>3, <1>5, LatestFound
<1>14. versions = {Version("initial", 1, "none", t)}
  BY <1>3 DEF v, Version
<1>15. QED
  BY <1>2, <1>3, <1>4, <1>12, <1>13, <1>14 DEF Stores

LEMMA InitInv ==
  ASSUME Init
  PROVE  IInv
<1>1. PICK t \in Texts : versions = {Version("initial", 1, "none", t)} /\ Latest.text = t /\ Stores("initial", t)
  BY InitEditorial
<1>2. \A v \in versions : v.id = "initial"
  BY <1>1 DEF Version
<1>3. \A r \in Requests : r # "none" /\ r # "initial"
  BY EditorialOK, RevisionsOK
<1>4. RequestTypes
  BY DEF Init, RequestTypes, NoRequest
<1>5. RequestsKept
  BY <1>2, <1>3 DEF Init, RequestsKept, NoRequest, Has
<1>6. PublishedTypes
  BY <1>1 DEF Init, PublishedTypes, Stages, Ids
<1>7. HandlerTypes /\ \A h \in Handlers : HandlerOK(h) /\ ~ Choosing(h)
  <2>1. NoHandler \in Handled /\ NoHandler.pc = "idle"
    BY DEF NoHandler, Handled, Ids
  <2>2. QED
    BY <2>1 DEF Init, HandlerTypes, HandlerOK, Choosing
<1>8. JobTypes /\ JobOK
  <2>1. NoJob \in Job /\ NoJob.pc = "idle"
    BY DEF NoJob, Job
  <2>2. QED
    BY <2>1 DEF Init, JobTypes, JobOK, Versioned
<1>9. ChoiceTypes
  BY DEF Init, ChoiceTypes
<1>10. Shown
  BY <1>1 DEF Init, Shown, Stores, SomeText, CompletedIsDrafted
<1>11. ChoicesCounted
  <2>1. \A v \in Ids, c \in Choices : Recorded(v, c) = {} /\ confirmed[v][c] = 0
    BY NothingIsNoChoice DEF Init, Recorded
  <2>2. IsFiniteSet({}) /\ Cardinality({}) = 0
    BY FS_EmptySet
  <2>3. \A v \in Ids, c \in Choices : Recorded(v, c) \ {pending[v][c]} = {}
    BY <2>1
  <2>4. ASSUME NEW v \in Ids, NEW c \in Choices
        PROVE  IsFiniteSet(Recorded(v, c)) /\ Cardinality(Recorded(v, c) \ {pending[v][c]}) <= confirmed[v][c]
    <3>1. Cardinality(Recorded(v, c) \ {pending[v][c]}) = 0
      BY <2>2, <2>3
    <3>2. QED
      BY <2>1, <2>2, <3>1
  <2>5. QED
    BY <2>4 DEF ChoicesCounted
<1>12. faults \in 0 .. MaxFaults
  BY RevisionsOK DEF Init
<1>13. QED
  BY <1>4, <1>5, <1>6, <1>7, <1>8, <1>9, <1>10, <1>11, <1>12, InitEditorial
     DEF IInv, RevisionInv, RevisionTypes, ChoosersDiffer

LEMMA StutterKeeps ==
  ASSUME IInv, UNCHANGED vars
  PROVE  IInv'
<1>1. UNCHANGED <<versions, stage, moves, records, producer, calls, feedback, pending, confirmed, requests, artifacts,
                  prepared, transcript, draft, recording, handler, waiting, job, faults>>
  BY DEF vars, editorial, app, stores, published
<1>2. calls' \in 0 .. MaxCalls
  BY <1>1, JobKnows DEF EditorialInv, EditorialTypes, EditorialTypeOK
<1>3. Grow => HandlerSide'
  BY <1>1, JobKnows, HandlersStay DEF app
<1>4. QED
  BY <1>1, <1>2, <1>3, JobKnows, HandlerAlone DEF published, RequestSide, RequestTypes

\* The inductive invariant holds of every behaviour.
THEOREM Invariance == Spec => []IInv
<1>1. IInv /\ [Next]_vars => IInv'
  <2> SUFFICES ASSUME IInv, [Next]_vars
               PROVE  IInv'
    OBVIOUS
  <2>1. CASE EditorialNext /\ UNCHANGED <<app, stores, published, handler, waiting, job, faults>>
    BY <2>1, ProducersKeep
  <2>2. CASE \E h \in Handlers : HandlerNext(h)
    BY <2>2, HandlerNextKeeps
  <2>3. CASE JobNext
    BY <2>3, JobNextKeeps
  <2>4. CASE UNCHANGED vars
    BY <2>4, StutterKeeps
  <2>5. QED
    BY <2>1, <2>2, <2>3, <2>4 DEF Next
<1>2. QED
  BY <1>1, InitInv, PTL DEF Spec

-----------------------------------------------------------------------------
(* The properties.                                                         *)

\* A version is revised by at most one request, and a request knows its child
\* exactly when the child exists (createArticleRevision, createArticleRevisionVersion).
LEMMA OwnersKnown == IInv => ChildHasOwner
<1> SUFFICES ASSUME IInv
             PROVE  ChildHasOwner
  OBVIOUS
<1>1. ASSUME NEW r \in Requests, Has(r)
      PROVE  VersionOf(r).parent = requests[r].parent /\ requests[r].status # "queued"
  <2>1. PICK v \in versions : v.id = r
    BY <1>1 DEF Has
  <2>2. VersionOf(r) = v
    BY <2>1, VersionFound, JobKnows DEF EditorialInv
  <2>3. QED
    BY <2>1, <2>2, JobKnows DEF RequestSide, RequestsKept
<1>2. QED
  BY <1>1, JobKnows DEF ChildHasOwner, RequestSide, RequestsKept

\* The versions of an article are one line, each stage explained by its moves,
\* every answer about a version is in the tables, no version is revised twice and
\* a request knows its child exactly when it exists, however agents, the App and
\* revisions race (editorialPipeline.ts, createArticleRevisionVersion).
THEOREM VersionsCorrect == Spec => []VersionsSound
<1>1. IInv => VersionsSound
  <2> SUFFICES ASSUME IInv
               PROVE  VersionsSound
    OBVIOUS
  <2>1. EditorialInv /\ RevisionTypes
    BY DEF IInv, RevisionInv
  <2>2. TypeOK
    BY <2>1 DEF EditorialInv, EditorialTypes, RevisionTypes, TypeOK, RequestTypes, PublishedTypes, JobTypes
  <2>3. StraightLine
    <3>1. ASSUME NEW v \in versions, v.id # "initial"
          PROVE  /\ Has(v.parent) /\ v.no = VersionOf(v.parent).no + 1
                 /\ \A w \in versions : w.parent = v.parent => w = v
      <4>1. PICK w \in versions : v.parent = w.id /\ v.no = w.no + 1
        BY <2>1, <3>1 DEF EditorialInv, Line, Follows
      <4>2. VersionOf(v.parent) = w
        BY <2>1, <4>1, VersionFound DEF EditorialInv
      <4>3. QED
        BY <2>1, <4>1, <4>2 DEF EditorialInv, Line, Has
    <3>2. QED
      BY <2>1, <3>1 DEF StraightLine, EditorialInv, Line
  <2>4. MovesExplainStage
    BY <2>1 DEF EditorialInv, Staged, History, MovesExplainStage
  <2>5. AnswersAreStored
    BY <2>1, FoundIsStored DEF EditorialInv, EditorialTypes, Calls, CallOK, AnswersAreStored
  <2>6. QED
    BY <2>2, <2>3, <2>4, <2>5, OwnersKnown DEF VersionsSound
<1>2. QED
  BY <1>1, Invariance, PTL

\* What the transcript, the recording and the WeChat draft show was a stored
\* version first, a completed transcript is in the draft, and a completed
\* request stays completed (processVersionedRevisionRequest, updateArticleRevisionStatus).
THEOREM PublishedCorrect == Spec => PublishedIsStored
<1>1. IInv => ShownIsVersioned /\ CompletedIsDrafted
  <2> SUFFICES ASSUME IInv
               PROVE  ShownIsVersioned /\ CompletedIsDrafted
    OBVIOUS
  <2>1. PICK v \in versions : v.id = transcript.id /\ v.text = transcript.text
    BY JobKnows DEF JobSide, Shown, Stores
  <2>2. VersionOf(transcript.id) = v
    BY <2>1, VersionFound, JobKnows DEF EditorialInv
  <2>3. QED
    BY <2>1, <2>2, JobKnows DEF JobSide, Shown, ShownIsVersioned, SomeText, Has
<1>2. IInv /\ [Next]_vars => \A r \in Requests : requests[r].status = "completed" => requests'[r].status = "completed"
  <2> SUFFICES ASSUME IInv, [Next]_vars, NEW r \in Requests, requests[r].status = "completed"
               PROVE  requests'[r].status = "completed"
    OBVIOUS
  <2>1. requests[r] # NoRequest /\ RequestTypes
    BY JobKnows DEF NoRequest, RequestSide
  <2>2. CASE EditorialNext /\ UNCHANGED <<app, stores, published, handler, waiting, job, faults>>
    BY <2>2 DEF stores
  <2>3. CASE \E h \in Handlers : HandlerNext(h)
    <3>1. PICK h \in Handlers : HandlerNext(h)
      BY <2>3
    <3>2. CASE InsertRequest(h)
      BY <2>1, <3>2 DEF InsertRequest, RequestInsertable, RequestTypes
    <3>3. CASE ~ InsertRequest(h)
      BY <3>1, <3>3 DEF HandlerNext, Choose, InsertChoice, ConfirmChoice, Submit, StoreArtifacts, Dispatch, Drop, stores
    <3>4. QED
      BY <3>2, <3>3
  <2>4. CASE JobNext
    <3>1. ASSUME NEW from, NEW status, NEW reported, NEW next, NEW failure, PostStatus(from, status, reported, next, failure)
          PROVE  requests'[r].status = "completed"
      BY <2>1, <3>1 DEF PostStatus, StatusAfter, RequestTypes
    <3>2. CASE PostVersion
      BY <2>1, <3>2 DEF PostVersion, VersionCreated, VersionReplayed, VersionRefused, Linked, RequestTypes
    <3>3. CASE OtherDispatch \/ Die \/ RewriteFails \/ StartJob \/ EndOther \/ Load \/ Prepare \/ UpdateDraft \/ FailRevision
      BY <3>3 DEF OtherDispatch, Die, RewriteFails, StartJob, EndOther, Load, Prepare, UpdateDraft, FailRevision, JobKeeps, stores
    <3>4. CASE SaveReady \/ SaveDraftFailed \/ SaveCompleted
      BY <3>4 DEF SaveReady, SaveDraftFailed, SaveCompleted, SaveTranscript
    <3>5. QED
      BY <2>4, <3>1, <3>2, <3>3, <3>4 DEF JobNext, JobSteps, PostPrior, PostPending, PostFailed, PostCompleted
  <2>5. CASE UNCHANGED vars
    BY <2>5 DEF vars, stores
  <2>6. QED
    BY <2>2, <2>3, <2>4, <2>5 DEF Next
<1>3. Spec => CompletedStays
  BY <1>2, Invariance, PTL DEF Spec, CompletedStays
<1>4. QED
  BY <1>1, <1>3, Invariance, PTL DEF PublishedIsStored

\* A choice the user repeats because its answer was lost is recorded once, and
\* only about the version that is then the latest (submitAndConfirmArticleFeedback,
\* createArticleFeedback).
THEOREM ChoicesCorrect == Spec => ChoicesAreSound
<1>1. IInv => ChoiceOnce
  <2> SUFFICES ASSUME IInv, NEW v \in Ids, NEW c \in Choices
               PROVE  Cardinality(Recorded(v, c)) <= confirmed[v][c] + 1
    BY DEF ChoiceOnce, Recorded
  <2> DEFINE S == Recorded(v, c)
             P == pending[v][c]
  <2>1. IsFiniteSet(S) /\ Cardinality(S \ {P}) <= confirmed[v][c] /\ confirmed[v][c] \in Nat
    BY JobKnows DEF HandlerSide, ChoicesCounted, ChoiceTypes
  <2> HIDE DEF S, P
  <2>2. IsFiniteSet(S \ {P}) /\ Cardinality(S \ {P}) = IF P \in S THEN Cardinality(S) - 1 ELSE Cardinality(S)
    BY <2>1, FS_RemoveElement
  <2>3. Cardinality(S) \in Nat /\ Cardinality(S \ {P}) \in Nat
    BY <2>1, <2>2, FS_CardinalityType
  <2>4. Cardinality(S) <= confirmed[v][c] + 1
    BY <2>1, <2>2, <2>3
  <2>5. QED
    BY <2>4 DEF S
<1>2. IInv /\ [Next]_vars => \A e \in Events : feedback[e] = <<>> /\ feedback'[e] # <<>> => feedback'[e][1] = Latest.id
  <2> SUFFICES ASSUME IInv, [Next]_vars, NEW e \in Events, feedback[e] = <<>>, feedback'[e] # <<>>
               PROVE  feedback'[e][1] = Latest.id
    OBVIOUS
  <2>1. CASE \E h \in Handlers : InsertChoice(h)
    <3>1. PICK h \in Handlers : InsertChoice(h)
      BY <2>1
    <3>2. StillLatest(handler[h].on) /\ feedback' = [feedback EXCEPT ![handler[h].id] = <<handler[h].on, handler[h].choice>>]
      BY <3>1 DEF InsertChoice
    <3>3. feedback'[e] = <<handler[h].on, handler[h].choice>>
      BY <3>2, JobKnows DEF HandlerSide, ChoiceTypes
    <3>4. QED
      BY <3>2, <3>3 DEF StillLatest
  <2>2. CASE ~ \E h \in Handlers : InsertChoice(h)
    <3>1. ASSUME NEW h \in Handlers, HandlerNext(h)
          PROVE  feedback' = feedback
      BY <2>2, <3>1 DEF HandlerNext, Choose, ConfirmChoice, Submit, InsertRequest, StoreArtifacts, Dispatch, Drop, app
    <3>2. ASSUME JobNext
          PROVE  feedback' = feedback
      <4>1. CASE PostPrior \/ PostPending \/ PostFailed \/ PostCompleted
        BY <4>1 DEF PostPrior, PostPending, PostFailed, PostCompleted, PostStatus, HandlersKeep, app
      <4>2. CASE SaveReady \/ SaveDraftFailed \/ SaveCompleted
        BY <4>2 DEF SaveReady, SaveDraftFailed, SaveCompleted, SaveTranscript, HandlersKeep, app
      <4>3. CASE OtherDispatch \/ Die \/ RewriteFails \/ StartJob \/ EndOther
        BY <4>3 DEF OtherDispatch, Die, RewriteFails, StartJob, EndOther, JobKeeps, app
      <4>4. CASE Load \/ Prepare \/ PostVersion \/ UpdateDraft \/ FailRevision
        BY <4>4 DEF Load, Prepare, PostVersion, UpdateDraft, FailRevision, HandlersKeep, app
      <4>5. QED
        BY <3>2, <4>1, <4>2, <4>3, <4>4 DEF JobNext, JobSteps
    <3>3. feedback' = feedback
      BY <3>1, <3>2 DEF Next, vars, app
    <3>4. QED
      BY <3>3
  <2>3. QED
    BY <2>1, <2>2
<1>3. Spec => ChoiceOnCurrent
  BY <1>2, Invariance, PTL DEF Spec, ChoiceOnCurrent
<1>4. QED
  BY <1>1, <1>3, Invariance, PTL DEF ChoicesAreSound

===============================================================================
