-------------------------- MODULE EditorialVersions --------------------------
(***************************************************************************)
(* The versions of one article as the editorial pipeline keeps them: an    *)
(* append-only line of snapshots, the reviews and visual plans that hang   *)
(* on them, and the stage of every version, which moves by compare-and-set *)
(* on its revision. Producers (the writing and review agents, the          *)
(* coordinator, the App for visual plans) call with idempotency keys, may  *)
(* repeat a call, and race; every handler reads several times before it    *)
(* writes. infra/worker/src/editorialPipeline.ts, migrations 0010 and 0013.*)
(***************************************************************************)
EXTENDS Integers, FiniteSets

CONSTANTS
  Producers,   \* calls of producers that may be under way at once
  Keys,        \* idempotency keys
  Sources,     \* what a version's id is derived from: a key, or a revision request
  Texts,       \* titles and bodies
  MaxCalls     \* bound: calls of producers, new requests and choices, together

ASSUME EditorialOK ==
  /\ MaxCalls \in Nat /\ Keys \subseteq Sources /\ {"initial", "none"} \cap Sources = {}
  /\ Keys # {} /\ Texts # {}

VARIABLES
  versions,  \* article_versions: records of the versions
  stage,     \* editorial_version_states: stage and revision of every version
  moves,     \* editorial_state_transition_requests
  records,   \* editorial_reviews and visual_plans
  producer,  \* producer[p]: the handler of a call
  calls

editorial == <<versions, stage, moves, records, producer, calls>>

Ids == Sources \cup {"initial"}

\* canAdvancePipelineStage.
Advances == [
  queued             |-> {"asr", "draft_generated", "failed"},
  asr                |-> {"draft_generated", "failed"},
  draft_generated    |-> {"review_pending", "failed"},
  review_pending     |-> {"reviewed", "revision_pending", "failed"},
  reviewed           |-> {"content_frozen", "revision_pending", "failed"},
  revision_pending   |-> {"draft_generated", "failed"},
  content_frozen     |-> {"visuals_generating", "rendering", "failed"},
  visuals_generating |-> {"rendering", "failed"},
  rendering          |-> {"visual_qa", "failed"},
  visual_qa          |-> {"draft_sync", "failed"},
  draft_sync         |-> {"completed", "failed"},
  completed          |-> {},
  failed             |-> {"queued"}]

\* The CHECK of editorial_version_states knows neither queued nor asr.
Storable == DOMAIN Advances \ {"queued", "asr"}

Version(id, no, parent, text) == [id |-> id, no |-> no, parent |-> parent, text |-> text]
Has(id) == \E v \in versions : v.id = id
VersionOf(id) == CHOOSE v \in versions : v.id = id
Latest == CHOOSE v \in versions : \A w \in versions : w.no <= v.no
HasChild(parent) == \E v \in versions : v.parent = parent

\* Seeded fault: the index of migration 0013 on parent_version_id and the number are missing.
KeyOnly(v) == ~ Has(v.id)

\* The UNIQUE constraints of article_versions: id, number, and one child per parent.
Insertable(v) == \A w \in versions : w.id # v.id /\ w.no # v.no /\ w.parent # v.parent

NewStage(s) == [state |-> s, revision |-> 0]

Answers == {"none", "created", "replayed", "refused"}
Kinds == {"version", "review", "plan", "move"}
Ready == [pc |-> "idle", kind |-> "version", key |-> CHOOSE k \in Keys : TRUE, on |-> "initial",
          value |-> "none", expected |-> 0, no |-> 0, seen |-> "none", answer |-> "none"]

EditorialInit ==
  /\ versions = {Version("initial", 1, "none", CHOOSE t \in Texts : TRUE)}
  /\ stage = [i \in Ids |-> NewStage(IF i = "initial" THEN "content_frozen" ELSE "none")]
  /\ moves = {} /\ records = {}
  /\ producer = [p \in Producers |-> Ready]
  /\ calls = 0

Is(p, pc) == producer[p].pc = pc
Answer(p, a) == producer' = [producer EXCEPT ![p].pc = "done", ![p].answer = a]
Tables == <<versions, stage, moves, records>>

Reviewed(c) == [kind |-> c.kind, key |-> c.key, on |-> c.on]
SameKey(c) == {r \in records : r.kind = c.kind /\ r.key = c.key}
MoveOf(c) == {m \in moves : m.on = c.on /\ m.key = c.key}

\* What the row stored under a call's key says about the call.
Found(c) ==
  CASE c.kind = "version" -> IF ~ Has(c.key) THEN "absent"
                             ELSE IF VersionOf(c.key).parent = c.on /\ VersionOf(c.key).text = c.value
                                  THEN "same" ELSE "other"
    [] c.kind = "move" -> IF MoveOf(c) = {} THEN "absent"
                          ELSE IF \E m \in MoveOf(c) : m.to = c.value /\ m.revision = c.expected + 1
                               THEN "same" ELSE "other"
    [] OTHER -> IF SameKey(c) = {} THEN "absent"
                ELSE IF Reviewed(c) \in SameKey(c) THEN "same" ELSE "other"

\* idempotentVersionResponse and its siblings.
Replay(p, c) ==
  /\ Found(c) # "absent"
  /\ producer' = [producer EXCEPT ![p] =
       [c EXCEPT !.pc = "done", !.answer = IF Found(c) = "same" THEN "replayed" ELSE "refused"]]

\* A producer calls, with a key it may have used before; a stored row answers.
Call(p) ==
  /\ Is(p, "idle") /\ calls < MaxCalls
  /\ calls' = calls + 1
  /\ \E kind \in Kinds, key \in Keys, v \in versions :
       \E value \in CASE kind = "version" -> Texts
                      [] kind = "move" -> Advances[stage[v.id].state]
                      [] OTHER -> {"none"} :
         LET c == [Ready EXCEPT !.kind = kind, !.key = key, !.on = v.id, !.value = value,
                                !.expected = stage[v.id].revision]
         IN
         \/ Found(c) = "absent" /\ producer' = [producer EXCEPT ![p] = [c EXCEPT !.pc = "read"]]
         \/ Replay(p, c)
  /\ UNCHANGED Tables

\* The write failed: the row under the key, if there is one, answers.
Raced(p) ==
  \/ Found(producer[p]) = "absent" /\ Answer(p, "refused")
  \/ Replay(p, producer[p])

\* createVersion: the parent must be the version before the next number.
Allocate(p) ==
  /\ Is(p, "read") /\ producer[p].kind = "version"
  /\ \/ VersionOf(producer[p].on).no # Latest.no /\ Answer(p, "refused")
     \/ /\ VersionOf(producer[p].on).no = Latest.no
        /\ producer' = [producer EXCEPT ![p].pc = "write", ![p].no = Latest.no + 1]
  /\ UNCHANGED <<Tables, calls>>

InsertVersion(p) ==
  LET c == producer[p]
      v == Version(c.key, c.no, c.on, c.value)
  IN
  /\ Is(p, "write") /\ c.kind = "version"
  /\ \/ /\ Insertable(v)
        /\ versions' = versions \cup {v}
        /\ stage' = [stage EXCEPT ![v.id] = NewStage("draft_generated")]
        /\ Answer(p, "created")
     \/ ~ Insertable(v) /\ Raced(p) /\ UNCHANGED <<versions, stage>>
  /\ UNCHANGED <<moves, records, calls>>

\* createReview, createVisualPlan: one INSERT; a version has at most one plan.
InsertRecord(p) ==
  LET c == producer[p]
      taken == SameKey(c) # {} \/ (c.kind = "plan" /\ \E r \in records : r.kind = "plan" /\ r.on = c.on)
  IN
  /\ Is(p, "read") /\ c.kind \in {"review", "plan"}
  /\ \/ taken /\ Raced(p) /\ UNCHANGED records
     \/ ~ taken /\ Answer(p, "created") /\ records' = records \cup {Reviewed(c)}
  /\ UNCHANGED <<versions, stage, moves, calls>>

\* transitionVersionState up to its batch.
ReadStage(p) ==
  LET c == producer[p] IN
  /\ Is(p, "read") /\ c.kind = "move"
  /\ \/ /\ c.value \in Advances[stage[c.on].state] /\ stage[c.on].revision = c.expected
        /\ producer' = [producer EXCEPT ![p].pc = "write", ![p].seen = stage[c.on].state]
     \/ /\ c.value \notin Advances[stage[c.on].state] \/ stage[c.on].revision # c.expected
        /\ Answer(p, "refused")
  /\ UNCHANGED <<Tables, calls>>

\* The comparison of the batch's first statement.
StageHolds(c) == stage[c.on].state = c.seen /\ stage[c.on].revision = c.expected

CommitMove(p) ==
  LET c == producer[p] IN
  /\ Is(p, "write") /\ c.kind = "move"
  /\ \/ /\ c.value \in Storable /\ StageHolds(c) /\ MoveOf(c) = {}
        /\ stage' = [stage EXCEPT ![c.on] = [state |-> c.value, revision |-> @.revision + 1]]
        /\ moves' = moves \cup {[on |-> c.on, key |-> c.key, from |-> c.seen, to |-> c.value, revision |-> c.expected + 1]}
        /\ Answer(p, "created")
     \/ c.value \in Storable /\ ~ StageHolds(c) /\ Answer(p, "refused") /\ UNCHANGED <<stage, moves>>
     \/ /\ c.value \notin Storable \/ (StageHolds(c) /\ MoveOf(c) # {})
        /\ Raced(p) /\ UNCHANGED <<stage, moves>>
  /\ UNCHANGED <<versions, records, calls>>

\* The producer takes the answer; or it or the Worker dies and no answer comes.
Leaves(p) ==
  /\ ~ Is(p, "idle")
  /\ producer' = [producer EXCEPT ![p] = Ready]
  /\ UNCHANGED <<Tables, calls>>

EditorialNext ==
  \E p \in Producers :
    \/ Call(p) \/ Allocate(p) \/ InsertVersion(p) \/ InsertRecord(p)
    \/ ReadStage(p) \/ CommitMove(p) \/ Leaves(p)

-----------------------------------------------------------------------------
EditorialTypeOK ==
  /\ versions \subseteq [id : Ids, no : Nat \ {0}, parent : Ids \cup {"none"}, text : Texts]
  /\ stage \in [Ids -> [state : Storable \cup {"none"}, revision : Nat]]
  /\ moves \subseteq [on : Ids, key : Keys, from : Storable, to : Storable, revision : Nat]
  /\ records \subseteq [kind : {"review", "plan"}, key : Keys, on : Ids]
  /\ \A p \in Producers : producer[p].answer \in Answers /\ producer[p].kind \in Kinds /\ producer[p].key \in Keys
  /\ calls \in 0 .. MaxCalls

\* The versions are a straight line whoever appends to it, an agent or a
\* revision: "article history remains a straight line under concurrent calls"
\* (infra/worker/README.md:58).
StraightLine ==
  \A v \in versions :
    \/ v.id = "initial" /\ v.no = 1
    \/ /\ Has(v.parent) /\ v.no = VersionOf(v.parent).no + 1
       /\ \A w \in versions : w.parent = v.parent => w = v

\* A version's moves are a gapless history that ends in its stage, and each
\* move is one the stages allow (transitionVersionState and its batch).
MovesExplainStage ==
  \A v \in versions :
    LET mine == {m \in moves : m.on = v.id} IN
    /\ {m.revision : m \in mine} = 1 .. stage[v.id].revision
    /\ \A m \in mine, n \in mine : m.revision = n.revision => m = n
    /\ \A m \in mine : m.to \in Advances[m.from] /\ \A n \in mine : n.revision = m.revision + 1 => n.from = m.to
    /\ \A m \in mine : m.revision = stage[v.id].revision => m.to = stage[v.id].state

\* A producer that was told its call is stored finds exactly its call stored,
\* also when another call took the key first (idempotentVersionResponse).
AnswersAreStored ==
  \A p \in Producers : producer[p].answer \in {"created", "replayed"} => Found(producer[p]) = "same"
==============================================================================
