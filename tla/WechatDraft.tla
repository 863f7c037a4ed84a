------------------------------ MODULE WechatDraft ------------------------------
(***************************************************************************)
(* The WeChat phase of a run: from the finished images to the verified     *)
(* draft. The Workflow renders, uploads, writes the draft and reads it     *)
(* back; every artifact is kept in the Coordinator's outbox, projected in  *)
(* D1 and receipted in the Coordinator in turn, and every operation at the *)
(* publishing adapter has an intent in the Coordinator and a claim in the  *)
(* adapter. A lost answer holds the run; an operator restarts the Workflow,*)
(* which resumes from the hold in the first execution epoch, or in a fresh *)
(* one after a failed readback or a repaired account. The account, when it *)
(* works, keeps its configuration; the article has one image and, before   *)
(* this run, no draft. fiveAgentPublishing.ts, editorialAgents.ts,         *)
(* wechat-publishing-adapter/src/index.ts.                                 *)
(***************************************************************************)
EXTENDS Integers, Sequences, FiniteSets, PublicationStates

CONSTANTS
  MaxFaults,  \* bound: lost or failed writes and calls, restarts and edits, together
  MaxHolds,   \* bound: holds after which the operator gives up
  Places      \* where faults may happen

ASSUME WechatDraftOK ==
  /\ MaxFaults \in Nat /\ MaxHolds \in Nat
  /\ Places \subseteq {"store", "d1", "main", "call", "settle", "service", "account", "engine", "edit", "app"}

VARIABLES
  d1,      \* publication_runs and its events: state, code, last successful state, keys
  main,    \* the Coordinator's run and its events, receipts included
  kept,    \* the Coordinator's outbox: what each artifact <<kind, scope>> says
  ops,     \* operations: per attempt the Coordinator's result, the adapter's claim, what was read
  wechat,  \* drafts of the article at WeChat, the content of the last one, the adapter's draft map
  recording, \* recordings.wechat_draft_id is set
  w,       \* the Workflow's instance
  late,    \* mutations sent to the adapter since the run was cancelled
  faults

draftVars == <<d1, main, kept, ops, wechat, recording, w, late, faults>>

-----------------------------------------------------------------------------
Checkpoints == <<"visual_ready", "formatting", "visual_qa", "draft_syncing", "draft_verifying">>
WECHAT_RESUMABLE_STATES == {Checkpoints[n] : n \in DOMAIN Checkpoints}
Rank(s) == CHOOSE n \in DOMAIN Checkpoints : Checkpoints[n] = s

Kinds == {"template", "renderqa", "image", "package", "preqa", "receipt", "readback"}
StateOf(kind) == CASE kind = "template" -> "formatting"
                   [] kind = "renderqa" -> "visual_qa"
                   [] kind \in {"receipt", "readback"} -> "draft_verifying"
                   [] OTHER -> "draft_syncing"

Unknown == "external_side_effect_unknown"
Unreconciled == "wechat_artifact_reconciliation_required"
Unresolved == "draft_identity_unresolved"
Mismatch == "draft_readback_mismatch"
Unread == "draft_readback_unavailable"
NoAccount == "wechat_publishing_account_unavailable"
\* A failed readback or a repaired account starts a scope of its own.
RequiresFreshEpoch(code) == code \in {Mismatch, Unread, NoAccount}

\* Events are keyed <<tag, what, scope or cycle>>; a key's place is its revision.
Has(row, key) == \E n \in DOMAIN row.log : row.log[n] = key
TheOne(S) == CHOOSE x \in S : TRUE
Place(row, key) == TheOne({n \in DOMAIN row.log : row.log[n] = key})
Tagged(row, tag) == {row.log[n] : n \in {m \in DOMAIN row.log : row.log[m][1] = tag}}
Holds == Cardinality(Tagged(d1, "hold"))
Artifact(kind, scope) == <<"artifact", kind, scope>>
Receipted(kind, scope) == Has(main, Artifact(kind, scope))
Projected(kind, scope) == Has(d1, Artifact(kind, scope))

\* The checkpoint a recovery resumed at; its artifacts are never recorded at
\* an earlier one.
Target(cycle) == LET resumed == {key \in Tagged(d1, "resumed") : key[3] = cycle}
                 IN IF resumed = {} THEN "visual_ready" ELSE TheOne(resumed)[2]
artifactState(kind, scope) ==
  IF scope # 0 /\ Rank(Target(scope)) > Rank(StateOf(kind)) THEN Target(scope) ELSE StateOf(kind)

Kept == DOMAIN kept
Passing == {scope \in 0..MaxHolds : <<"readback", scope>> \in Kept /\ kept[<<"readback", scope>>] = "pass"}
uniquePassingWechatReadback == {scope \in Passing : Receipted("readback", scope)}

NoOp == [tries |-> <<>>, there |-> <<>>, value |-> "none"]
Op(k) == IF k \in DOMAIN ops THEN ops[k] ELSE NoOp
SetOp(k, op) == ops' = [key \in DOMAIN ops \cup {k} |-> IF key = k THEN op ELSE ops[key]]
LastOf(seq) == IF seq = <<>> THEN "none" ELSE seq[Len(seq)]
Writes(k) == k[1] \in {"upload", "add", "update"}
Open == {k \in DOMAIN ops : LastOf(ops[k].tries) = "open"}
OpenWrites == {k \in Open : k[1] \in {"add", "update"}}

\* The operation a step asks for: its identity has the scope, the recovery's
\* cycle, or the Coordinator's revision.
OpOf(pc) == CASE pc \in {"map", "find"} -> <<pc, w.cycle>>
              [] pc = "findNow" -> <<pc, Len(main.log)>>
              [] pc = "write" -> <<w.mutation, w.scope>>
              [] OTHER -> <<pc, w.scope>>

Outcomes == {"done", "lost", "failed"}
Fault(place) == place \in Places /\ faults < MaxFaults /\ faults' = faults + 1
Costs(place, o) == IF o = "done" THEN UNCHANGED faults ELSE Fault(place)

At(pc, sub) == w.run = "live" /\ w.pc = pc /\ w.sub = sub
Goto(pc, sub) == w' = [w EXCEPT !.pc = pc, !.sub = sub]
Then(sub) == Goto(w.pc, sub)
Stop(run) == w' = [w EXCEPT !.run = run]
Hold(code) == w' = [w EXCEPT !.pc = "hold", !.sub = "d1", !.code = code]
Fail == Goto("fail", "d1")
Calls == {"upload", "map", "find", "write", "findNow", "read"}
FirstSub(pc) == IF pc \in Calls THEN "ask" ELSE IF pc \in Kinds THEN "keep" ELSE "d1"
Begin(pc) == Goto(pc, FirstSub(pc))

WithEvent(row, target, key, code) ==
  [state |-> target, code |-> code, log |-> Append(row.log, key),
   last |-> IF target \in ExceptionalStates \cup {"retrying"} THEN row.last ELSE target]
Fresh == [state |-> "visual_ready", code |-> "none", last |-> "visual_ready", log |-> <<>>]

Instance == [run |-> "live", pc |-> "enter", sub |-> "look", scope |-> 0, cycle |-> 0, code |-> "none",
             try |-> 0, draft |-> "none", mutation |-> "add", settle |-> <<>>]

DraftInit ==
  /\ d1 = Fresh /\ main = Fresh
  /\ kept = [a \in {} |-> "made"] /\ ops = [k \in {} |-> NoOp]
  /\ wechat = [drafts |-> 0, content |-> "none", mapped |-> FALSE] /\ recording = FALSE
  /\ w = Instance
  /\ late = 0 /\ faults = 0

-----------------------------------------------------------------------------
(* The two ledgers. *)

\* projectPublicationTransition and applySystemPublicationTransition.
D1Allows(target, same) ==
  \/ same /\ target = d1.state
  \/ d1.state = "retrying" /\ target \in {d1.last, "cancelled"}
  \/ d1.state # "retrying" /\ target \in ALLOWED_PROJECTION_TRANSITIONS(d1.state)
WriteD1(target, key, code, same, o) ==
  /\ D1Allows(target, same) /\ Costs("d1", o)
  /\ d1' = IF o = "failed" THEN d1 ELSE WithEvent(d1, target, key, code)

\* recordFiveAgentState and completeFiveAgentWechatArtifact.
MainAllows(target) ==
  \/ target = main.state
  \/ main.state = "needs_action" /\ target \in WECHAT_RESUMABLE_STATES \cup {"failed"}
  \/ main.state \in WECHAT_RESUMABLE_STATES /\ target \in PipelineSuccessors(main.state) \cup {"needs_action", "failed"}
WriteMain(target, key, code, o) ==
  /\ MainAllows(target) /\ Costs("main", o)
  /\ main' = IF o = "failed" THEN main ELSE WithEvent(main, target, key, code)

\* Seeded fault: the result of a D1 write is not looked at.
TryD1Unseen(target, key, code, same, After, OnError) ==
  \/ \E o \in Outcomes : WriteD1(target, key, code, same, o) /\ After
  \/ ~ D1Allows(target, same) /\ UNCHANGED <<d1, faults>> /\ After

\* A D1 write of step "pc": After on success, OnError otherwise.
TryD1(target, key, code, same, After, OnError) ==
  \/ \E o \in Outcomes : WriteD1(target, key, code, same, o) /\ IF o = "done" THEN After ELSE OnError
  \/ ~ D1Allows(target, same) /\ UNCHANGED <<d1, faults>> /\ OnError

\* Seeded fault: a failed Coordinator write is left for later.
TryMainLater(target, key, code, After, OnError) ==
  \/ \E o \in Outcomes : WriteMain(target, key, code, o) /\ After
  \/ ~ MainAllows(target) /\ UNCHANGED <<main, faults>> /\ OnError

\* A Coordinator write whose lost answer is read back.
TryMain(target, key, code, After, OnError) ==
  \/ \E o \in Outcomes : WriteMain(target, key, code, o) /\ IF o = "failed" THEN OnError ELSE After
  \/ ~ MainAllows(target) /\ UNCHANGED <<main, faults>> /\ OnError

external == <<ops, wechat, late>>

-----------------------------------------------------------------------------
(* runWechatDraftPhase and the head of runWechatDraftPhaseInner. *)

\* verifyExactWechatArtifactSet, in the parts that can differ: everything
\* kept is receipted and projected, one passing readback heads a complete
\* scope, uploads follow a checkpoint, every recovery is complete and follows
\* its hold at once, and a scope that was given up precedes a recovery.
Cycles == {key[3] : key \in Tagged(d1, "reconciled") \cup Tagged(d1, "retrying") \cup Tagged(d1, "resumed")}
HoldPlace(cycle) == TheOne({n \in DOMAIN d1.log : d1.log[n][1] = "hold" /\ d1.log[n][3] = cycle})
WholeCycle(cycle) ==
  LET h == HoldPlace(cycle) IN
  /\ Len(d1.log) >= h + 3
  /\ \A n \in 1..3 : d1.log[h + n][1] = <<"reconciled", "retrying", "resumed">>[n] /\ d1.log[h + n][3] = cycle
Places0(scope) == {Place(d1, Artifact(a[1], a[2])) : a \in {b \in Kept : b[2] = scope}}
Scopes == {a[2] : a \in Kept}
Exact ==
  /\ \A a \in Kept : Receipted(a[1], a[2]) /\ Projected(a[1], a[2])
  /\ Cardinality(Passing) = 1
  /\ \A kind \in Kinds, scope \in Passing : <<kind, scope>> \in Kept
  /\ \A cycle \in Cycles : WholeCycle(cycle)
  /\ \A scope \in Scopes :
       /\ \/ <<"image", scope>> \notin Kept \/ Has(d1, <<"sync", "none", scope>>)
          \/ scope \in Passing /\ Target(scope) = "draft_verifying"
       /\ scope # 0 => scope \in Cycles /\ \A n \in Places0(scope) : n > HoldPlace(scope) + 3
       /\ scope \in Passing \/ \E cycle \in Cycles : \A n \in Places0(scope) : n < HoldPlace(cycle)

StartInner(state, scope, cycle) ==
  IF state = "draft_verifying" /\ Cardinality(uniquePassingWechatReadback) = 1
  THEN w' = [w EXCEPT !.pc = "verify", !.sub = "d1", !.scope = TheOne(uniquePassingWechatReadback)]
  ELSE w' = [w EXCEPT !.pc = "template", !.sub = "keep", !.scope = scope, !.cycle = cycle,
                      !.draft = "none", !.mutation = "add", !.settle = <<>>]

Enter ==
  /\ At("enter", "look")
  /\ \/ /\ main.state = "draft_ready" /\ UNCHANGED faults
        /\ Stop(IF Exact /\ d1.state = "draft_ready" /\ recording THEN "done" ELSE "errored")
     \/ /\ main.state # "draft_ready" /\ d1.state = "draft_ready" /\ UNCHANGED faults
        /\ IF uniquePassingWechatReadback # {} /\ recording /\ Exact THEN w' = [w EXCEPT !.pc = "ready", !.sub = "main", !.scope = TheOne(Passing)]
           ELSE Stop("errored")
     \/ main.state = "failed" /\ Stop("done") /\ UNCHANGED faults
     \/ /\ main.state = "needs_action" /\ d1.state # "draft_ready"
        /\ (Fault("account") /\ Stop("done")) \/ (UNCHANGED faults /\ w' = [w EXCEPT !.pc = "resume", !.sub = "receipts", !.code = main.code])
     \/ /\ main.state \in WECHAT_RESUMABLE_STATES /\ d1.state # "draft_ready"
        /\ (Fault("account") /\ Hold(NoAccount)) \/ (StartInner(main.state, 0, 0) /\ UNCHANGED faults)
  /\ UNCHANGED <<d1, main, kept, recording, external>>

-----------------------------------------------------------------------------
(* persistWechatArtifact. *)

\* What the artifact says: the replayed one must say the same.
Says(kind) == CASE kind = "receipt" -> IF w.mutation = "found" THEN "add" ELSE w.mutation
                [] kind = "readback" -> IF w.draft = "package" THEN "pass" ELSE "failed"
                [] OTHER -> "made"

Keep ==
  /\ w.pc \in Kinds /\ At(w.pc, "keep")
  /\ LET a == <<w.pc, w.scope>>
         put == [b \in Kept \cup {a} |-> IF b = a THEN Says(w.pc) ELSE kept[b]]
     IN \/ a \in Kept /\ kept[a] # Says(w.pc) /\ Hold(Unknown) /\ UNCHANGED <<kept, faults>>
        \/ /\ a \in Kept => kept[a] = Says(w.pc)
           /\ \/ kept' = put /\ Then("event") /\ UNCHANGED faults
              \/ Fault("store") /\ kept' \in {kept, put} /\ Hold(Unknown)
  /\ UNCHANGED <<d1, main, recording, external>>

Following(pc) ==
  CASE pc = "template" -> "renderqa"
    [] pc = "renderqa" -> IF artifactState("package", w.scope) = "draft_syncing" THEN "sync" ELSE "upload"
    [] pc = "sync" -> "upload"
    [] pc = "upload" -> "image"
    [] pc = "image" -> "package"
    [] pc = "package" -> "preqa"
    [] pc = "preqa" -> "map"
    [] pc \in {"find", "write", "findNow"} -> "receipt"
    [] pc = "receipt" -> IF w.mutation \in {"noop", "found"} THEN "readback" ELSE "read"
    [] pc = "read" -> "readback"
    [] pc = "readback" -> "verify"
    [] pc = "verify" -> "ready"
Continue == IF w.pc = "readback" /\ w.draft # "package" THEN Hold(Mismatch) ELSE Begin(Following(w.pc))
Committed == IF w.pc \in {"image", "receipt", "readback"} /\ w.settle # <<>> THEN Then("settle") ELSE Continue

\* The event in D1, unless the receipt or the event is already there.
Commit ==
  /\ w.pc \in Kinds /\ At(w.pc, "event")
  /\ LET key == Artifact(w.pc, w.scope)
         state == artifactState(w.pc, w.scope)
     IN IF Has(main, key)
        THEN /\ IF Has(d1, key) THEN Committed ELSE Hold(Unreconciled)
             /\ UNCHANGED <<d1, main, faults>>
        ELSE IF Has(d1, key)
        THEN TryMain(state, key, "none", Committed, Then("co")) /\ UNCHANGED d1
        ELSE TryD1(state, key, "none", TRUE, Then("co"), Hold(Unknown)) /\ UNCHANGED main
  /\ UNCHANGED <<kept, recording, external>>

\* The receipt in the Coordinator; it is a replay when the answer was lost.
Receipt ==
  /\ w.pc \in Kinds /\ At(w.pc, "co")
  /\ TryMain(artifactState(w.pc, w.scope), Artifact(w.pc, w.scope), "none", Committed, Hold(Unreconciled))
  /\ UNCHANGED <<d1, kept, recording, external>>

\* The call that the artifact settles.
Settle ==
  /\ w.pc \in Kinds /\ At(w.pc, "settle")
  /\ \E o \in Outcomes :
       /\ Costs("settle", o)
       /\ SetOp(w.settle, [Op(w.settle) EXCEPT !.tries = IF o = "failed" THEN @ ELSE [@ EXCEPT ![Len(@)] = "ok"]])
       /\ IF o # "done" THEN Hold(Unknown)
          ELSE IF w.pc = "readback" /\ w.draft # "package" THEN Hold(Mismatch)
          ELSE w' = [w EXCEPT !.pc = Following(w.pc), !.sub = FirstSub(Following(w.pc)), !.settle = <<>>]
  /\ UNCHANGED <<d1, main, kept, wechat, recording, late>>

\* ensureWechatDraftSyncingCheckpoint, D1 first.
MaySync(key) == d1.state = "draft_syncing" \/ (d1.state = "visual_qa" /\ ~ Has(d1, key))
SyncD1 ==
  /\ At("sync", "d1")
  /\ LET key == <<"sync", "none", w.scope>> IN
       IF ~ MaySync(key) THEN Hold(Unreconciled) /\ UNCHANGED <<d1, faults>>
       ELSE IF Has(d1, key) THEN Then("main") /\ UNCHANGED <<d1, faults>>
       ELSE TryD1("draft_syncing", key, "none", TRUE, Then("main"), Hold(Unknown))
  /\ UNCHANGED <<main, kept, recording, external>>

SyncMain ==
  /\ w.pc = "sync" /\ At("sync", w.sub) /\ w.sub \in {"main", "again"}
  /\ LET key == <<"sync", "none", w.scope>> IN
       IF Has(main, key) /\ main.state = "draft_syncing" THEN Begin("upload") /\ UNCHANGED <<main, faults>>
       ELSE IF main.state \notin {"visual_qa", "draft_syncing"} THEN Hold(Unreconciled) /\ UNCHANGED <<main, faults>>
       ELSE TryMain("draft_syncing", key, "none", Begin("upload"),
                    IF main.state = "visual_qa" /\ w.sub = "main" THEN Then("again") ELSE Hold(Unreconciled))
  /\ UNCHANGED <<d1, kept, recording, external>>

-----------------------------------------------------------------------------
(* callWechatOperation and the publishing adapter. *)

\* prepareFiveAgentCall: an open attempt is only queried; a finished one is
\* queried as the first.
Ask ==
  /\ w.pc \in Calls /\ At(w.pc, "ask")
  /\ LET k == OpOf(w.pc)
         op == Op(k)
         last == LastOf(op.tries)
         try(sub, n) == w' = [w EXCEPT !.sub = sub, !.try = n]
     IN \/ /\ last \in {"open", "ok"} /\ UNCHANGED <<ops, faults>>
           /\ try("query", IF last = "ok" THEN 1 ELSE Len(op.tries))
        \/ /\ last = "failed" \/ (last = "retryable" /\ Len(op.tries) = 3)
           /\ Fail /\ UNCHANGED <<ops, faults>>
        \/ /\ last = "none" \/ (last = "retryable" /\ Len(op.tries) < 3)
           /\ \E o \in Outcomes :
                /\ Costs("call", o)
                /\ IF o = "failed" THEN UNCHANGED ops
                   ELSE SetOp(k, [op EXCEPT !.tries = Append(@, "open"), !.there = Append(@, "none")])
                /\ IF o = "done" THEN try("send", Len(op.tries) + 1) ELSE Hold(Unknown)
  /\ UNCHANGED <<d1, main, kept, wechat, recording, late>>

\* Seeded fault: a draft whose fate is unknown is written again.
WriteAgain(k) == IF k[1] = "add" THEN Then("send") ELSE Hold(Unknown)

\* An answer that never came: an added draft is looked for, the rest is held.
NotKnown(k) ==
  IF k[1] = "add" THEN w' = [w EXCEPT !.pc = "findNow", !.sub = "ask", !.settle = k] ELSE Hold(Unknown)

Claim(k, n, claim) == SetOp(k, [Op(k) EXCEPT !.there[n] = claim])

\* The request reaches the adapter, or does not. A query starts a read again
\* that has no result, and never a write.
Send ==
  LET k == OpOf(w.pc)
      there == Op(k).there[w.try]
  IN
  /\ w.pc \in Calls /\ At(w.pc, w.sub) /\ w.sub \in {"send", "query"}
  /\ \/ Fault("call") /\ NotKnown(k) /\ UNCHANGED <<ops, late>>
     \/ /\ there \in {"ok", "again", "rejected", "denied"} /\ Then("wait") /\ UNCHANGED <<ops, late, faults>>
     \/ /\ there \in {"none", "running", "stuck"} /\ UNCHANGED faults
        /\ IF w.sub = "query" /\ Writes(k) THEN NotKnown(k) /\ UNCHANGED <<ops, late>>
           ELSE /\ Claim(k, w.try, "running") /\ Then("wait")
                /\ late' = IF Writes(k) /\ w.try = 1 /\ d1.state = "cancelled" THEN late + 1 ELSE late
  /\ UNCHANGED <<d1, main, kept, wechat, recording>>

Wrote(k) == CASE k[1] = "add" -> [drafts |-> wechat.drafts + 1, content |-> "package", mapped |-> TRUE]
              [] k[1] = "update" -> [wechat EXCEPT !.content = "package"]
              [] k[1] \in {"find", "findNow"} -> [wechat EXCEPT !.mapped = TRUE]
              [] OTHER -> wechat
Found(k) == IF k[1] = "map" /\ ~ wechat.mapped THEN "none" ELSE wechat.content

\* executeProvider: the adapter finishes, whether anyone still waits or not.
\* A draft is found when exactly one has the package's fingerprint.
Provider ==
  /\ \E k \in DOMAIN ops : \E n \in DOMAIN ops[k].there :
       /\ ops[k].there[n] = "running"
       /\ \/ /\ UNCHANGED faults
             /\ IF k[1] \in {"find", "findNow"} /\ ~ (wechat.drafts = 1 /\ wechat.content = "package")
                THEN Claim(k, n, "rejected") /\ UNCHANGED wechat
                ELSE SetOp(k, [ops[k] EXCEPT !.there[n] = "ok", !.value = Found(k)]) /\ wechat' = Wrote(k)
          \/ Fault("service") /\ UNCHANGED wechat /\ \E r \in {"again", "rejected"} : Claim(k, n, r)
          \/ Fault("service") /\ Claim(k, n, "stuck")
             /\ wechat' \in {wechat, IF Writes(k) THEN [Wrote(k) EXCEPT !.mapped = wechat.mapped] ELSE wechat}
          \/ Fault("account") /\ UNCHANGED wechat /\ Claim(k, n, "denied")
  /\ UNCHANGED <<d1, main, kept, recording, w, late>>

\* A failed attempt is recorded before the error is raised; an attempt that
\* has another result is a conflict.
Record(k, result, After) ==
  LET last == LastOf(Op(k).tries) IN
  IF last \notin {"open", result} THEN Hold(Unknown) /\ UNCHANGED <<ops, faults>>
  ELSE \E o \in Outcomes :
         /\ Costs("settle", o)
         /\ IF o = "failed" THEN UNCHANGED ops ELSE SetOp(k, [Op(k) EXCEPT !.tries[Len(Op(k).tries)] = result])
         /\ IF o = "done" THEN After ELSE Hold(Unknown)

Answered(k) ==
  LET value == Op(k).value IN
  CASE w.pc \in {"upload", "write"} -> w' = [w EXCEPT !.pc = Following(w.pc), !.sub = "keep", !.settle = k]
    [] w.pc = "read" -> w' = [w EXCEPT !.pc = "readback", !.sub = "keep", !.settle = k, !.draft = value]
    [] w.pc = "findNow" -> w' = [w EXCEPT !.pc = "receipt", !.sub = "keep"]
    [] w.pc = "find" -> w' = [w EXCEPT !.pc = "receipt", !.sub = "keep", !.mutation = "found", !.draft = value,
                                       !.settle = TheOne(OpenWrites)]
    [] w.pc = "map" /\ value = "package" ->
         w' = [w EXCEPT !.pc = "receipt", !.sub = "keep", !.mutation = "noop", !.draft = value]
    [] w.pc = "map" /\ value = "none" /\ OpenWrites # {} -> Begin("find")
    [] OTHER -> w' = [w EXCEPT !.pc = "write", !.sub = "ask", !.mutation = IF value = "none" THEN "add" ELSE "update"]

Rejected == CASE w.pc \in {"map", "read"} -> Hold(Unread)
              [] w.pc \in {"find", "findNow"} -> Hold(Unresolved)
              [] OTHER -> Fail

AnswerCall ==
  LET k == OpOf(w.pc)
      there == Op(k).there[w.try]
  IN
  /\ w.pc \in Calls /\ At(w.pc, "wait")
  /\ \/ Fault("call") /\ NotKnown(k) /\ UNCHANGED ops
     \/ there = "stuck" /\ NotKnown(k) /\ UNCHANGED <<ops, faults>>
     \/ there = "ok" /\ (IF w.pc \in {"map", "find", "findNow"} THEN Record(k, "ok", Answered(k))
                                                                ELSE Answered(k) /\ UNCHANGED <<ops, faults>>)
     \/ there = "again" /\ Record(k, "retryable", IF Len(Op(k).tries) < 3 THEN Then("ask") ELSE Fail)
     \/ there = "rejected" /\ Record(k, "failed", Rejected)
     \/ there = "denied" /\ Record(k, "failed", Hold(NoAccount))
  /\ UNCHANGED <<d1, main, kept, wechat, recording, late>>

-----------------------------------------------------------------------------
(* finalizeWechatDraft, visualHoldWithCode, visualFailure. *)

Verify ==
  /\ At("verify", "d1")
  /\ \/ (IF Exact THEN Begin("ready") ELSE Hold(Unreconciled)) /\ UNCHANGED faults
     \/ Fault("store") /\ Hold(Unknown)
  /\ UNCHANGED <<d1, main, kept, recording, external>>

ReadyD1 ==
  /\ At("ready", "d1")
  /\ TryD1("draft_ready", <<"ready", "none", w.scope>>, "none", FALSE, Then("main"), Hold(Unknown))
  /\ recording' = (d1'.state = "draft_ready")
  /\ UNCHANGED <<main, kept, external>>

\* A hold of a run that is ready in D1 is refused, so every error ends here.
ReadyMain ==
  /\ At("ready", "main")
  /\ \E o \in Outcomes :
       WriteMain("draft_ready", <<"ready", "none", w.scope>>, "none", o) /\ Stop(IF o = "done" THEN "done" ELSE "errored")
  /\ UNCHANGED <<d1, kept, recording, external>>

StopD1(pc, target, key) ==
  /\ At(pc, "d1")
  /\ TryD1(target, key, w.code, FALSE, Then("main"), Stop("errored"))
  /\ UNCHANGED <<main, kept, recording, external>>
StopMain(pc, target) ==
  /\ At(pc, "main")
  /\ \/ \E o \in Outcomes : WriteMain(target, <<pc, w.code, Holds>>, w.code, o) /\ Stop(IF o = "done" THEN "done" ELSE "errored")
     \/ ~ MainAllows(target) /\ Stop("errored") /\ UNCHANGED <<main, faults>>
  /\ UNCHANGED <<d1, kept, recording, external>>
HoldD1 == StopD1("hold", "needs_action", <<"hold", w.code, Holds + 1>>)
HoldMain == StopMain("hold", "needs_action")
FailD1 == StopD1("fail", "failed", <<"failed", "none", 0>>)
FailMain == StopMain("fail", "failed")

-----------------------------------------------------------------------------
(* resumeWechatNeedsAction: w.code is the code of the Coordinator's hold.  *)

\* reconcileProjectedWechatArtifactReceipts, in D1's order.
\* Seeded fault: no receipt is replayed.
NothingPending == {}

Pending == {a \in Kept : ~ Receipted(a[1], a[2])}
ResumeReceipts ==
  /\ At("resume", "receipts")
  /\ IF Pending = {} THEN Then("reconciled") /\ UNCHANGED <<main, faults>>
     ELSE IF \E a \in Pending : ~ Projected(a[1], a[2]) THEN Hold(Unreconciled) /\ UNCHANGED <<main, faults>>
     ELSE \E a \in Pending :
            /\ \A b \in Pending : Place(d1, Artifact(a[1], a[2])) <= Place(d1, Artifact(b[1], b[2]))
            /\ TryMain(artifactState(a[1], a[2]), Artifact(a[1], a[2]), "none", Then("receipts"), Hold(Unreconciled))
  /\ UNCHANGED <<d1, kept, recording, external>>

HoldsWith(code) == {key \in Tagged(d1, "hold") : key[2] = code}
cycleOf(code) == (CHOOSE key \in HoldsWith(code) : \A other \in HoldsWith(code) : other[3] <= key[3])[3]

\* applyOrReconcileWechatRecoveryTransition; what is not due must be proven.
ResumeStep(sub, due, target, code, next) ==
  /\ At("resume", sub)
  /\ LET proven(cycle) == Has(d1, <<sub, d1.last, cycle>>) IN
       IF HoldsWith(w.code) = {} THEN Hold(Unreconciled) /\ UNCHANGED <<d1, faults>>
       ELSE IF due
       THEN \E o \in Outcomes :
              /\ WriteD1(target, <<sub, d1.last, cycleOf(w.code)>>, code, target = d1.state, o)
              /\ IF o = "failed" THEN Hold(Unknown) ELSE Then(next)
       ELSE (IF proven(cycleOf(w.code)) THEN Then(next) ELSE Hold(Unreconciled)) /\ UNCHANGED <<d1, faults>>
  /\ UNCHANGED <<main, kept, recording, external>>

Resumable == d1.last \in WECHAT_RESUMABLE_STATES
Reconciled == "wechat_side_effect_reconciled"
ResumeReconciled == ResumeStep("reconciled", d1.state = "needs_action" /\ d1.code = w.code, "needs_action", Reconciled, "retrying")
ResumeRetrying == ResumeStep("retrying", d1.state = "needs_action" /\ d1.code = Reconciled, "retrying", "none", "resumed")
ResumeResumed == ResumeStep("resumed", d1.state = "retrying", d1.last, "none", "main")

ResumeMain ==
  /\ At("resume", "main")
  /\ LET cycle == cycleOf(w.code)
         inner == StartInner(d1.last, IF RequiresFreshEpoch(w.code) THEN cycle ELSE 0, cycle)
     IN IF d1.state # d1.last \/ main.state \notin {"needs_action", d1.last}
        THEN Hold(Unreconciled) /\ UNCHANGED <<main, faults>>
        ELSE IF main.state = d1.last THEN inner /\ UNCHANGED <<main, faults>>
        ELSE TryMain(d1.last, <<"resumed", d1.last, cycle>>, "none", inner, Hold(Unknown))
  /\ UNCHANGED <<d1, kept, recording, external>>

-----------------------------------------------------------------------------
(* The engine, the operator, the App and the author. *)

Step ==
  \/ Enter \/ Keep \/ Commit \/ Receipt \/ Settle \/ SyncD1 \/ SyncMain
  \/ Ask \/ Send \/ AnswerCall \/ Verify \/ ReadyD1 \/ ReadyMain
  \/ HoldD1 \/ HoldMain \/ FailD1 \/ FailMain
  \/ ResumeReceipts \/ ResumeReconciled \/ ResumeRetrying \/ ResumeResumed \/ ResumeMain

EngineRestart ==
  /\ w.run = "live" /\ Fault("engine") /\ w' = Instance
  /\ UNCHANGED <<d1, main, kept, recording, external>>

\* The operator starts a stopped Workflow again, later than the adapter's
\* requests take; the engine's restarts do not wait for them.
Settled == d1.state \in {"failed", "cancelled"} \/ (d1.state = "draft_ready" /\ main.state = "draft_ready")
Restart ==
  /\ w.run \in {"done", "errored"} /\ ~ Settled /\ Holds < MaxHolds /\ w' = Instance
  /\ \A k \in DOMAIN ops : \A n \in DOMAIN ops[k].there : ops[k].there[n] # "running"
  /\ UNCHANGED <<d1, main, kept, recording, external, faults>>

\* applyPublicationAction; the App cannot act on a hold for reconciliation.
App ==
  /\ ~ (d1.state = "needs_action" /\ d1.code \in {Unknown, Unreconciled})
  /\ \/ d1.state \notin TERMINAL_STATES /\ UNCHANGED faults
        /\ d1' = WithEvent(d1, "cancelled", <<"app", "cancel", Len(d1.log)>>, "none")
     \/ d1.state \in {"needs_action", "failed"} /\ Fault("app")
        /\ d1' = WithEvent(d1, "retrying", <<"app", "retry", Len(d1.log)>>, "none")
     \/ d1.state = "retrying" /\ Fault("app")
        /\ d1' = WithEvent(d1, d1.last, <<"app", "resume", Len(d1.log)>>, "none")
  /\ UNCHANGED <<main, kept, recording, external, w>>

EditDraft ==
  /\ wechat.content = "package" /\ Fault("edit")
  /\ wechat' = [wechat EXCEPT !.content = "other"]
  /\ UNCHANGED <<d1, main, kept, ops, recording, w, late>>

DraftNext == Step \/ Provider \/ EngineRestart \/ Restart \/ App \/ EditDraft
DraftSpec == DraftInit /\ [][DraftNext]_draftVars
FairSpec == DraftSpec /\ WF_draftVars(Step) /\ WF_draftVars(Provider) /\ WF_draftVars(Restart)

-----------------------------------------------------------------------------
DraftTypeOK ==
  /\ d1.state \in PUBLICATION_STATES /\ main.state \in PUBLICATION_STATES \ {"retrying", "cancelled"}
  /\ d1.last \in WECHAT_RESUMABLE_STATES \cup {"draft_ready"}
  /\ Kept \subseteq Kinds \X (0..MaxHolds)
  /\ wechat.drafts \in Nat /\ recording \in BOOLEAN /\ late \in Nat /\ faults \in 0..MaxFaults
  /\ w.run \in {"live", "done", "errored"}
  /\ \A k \in DOMAIN ops : Len(ops[k].tries) = Len(ops[k].there) /\ Len(ops[k].tries) \in 1..3

\* runWechatDraftPhaseInner: an article never gets a second draft, whatever
\* answers were lost and however often the phase was run again.
OneDraft == wechat.drafts <= 1

\* A run ready in D1 has one passing readback, and everything it kept is in
\* both ledgers; the recording names the draft; the Coordinator is never
\* ready before D1.
ReadyIsProven ==
  /\ d1.state = "draft_ready" => recording /\ Exact
  /\ main.state = "draft_ready" => d1.state = "draft_ready"

\* ensureWechatDraftSyncingCheckpoint: nothing is asked of WeChat that changes
\* it before both ledgers have the scope's checkpoint, or had passed it when
\* the scope began.
CheckpointFirst ==
  \A k \in DOMAIN ops : Writes(k) =>
    LET key == <<"sync", "none", k[2]>> IN (Has(d1, key) /\ Has(main, key)) \/ Target(k[2]) = "draft_verifying"

\* A cancelled run asks WeChat for at most one more change.
LateByOne == late <= 1

\* Changes in the author's account are made once, announced before, and no
\* longer after a cancellation than the one that was under way.
DraftWritesSafe == OneDraft /\ CheckpointFirst /\ LateByOne

\* persistWechatArtifact: the Coordinator has no receipt D1 has no event for,
\* and in every scope it is at most one receipt behind D1.
OneReceiptBehind ==
  LET projected == {a \in Kept : Projected(a[1], a[2])}
      receipted == {a \in Kept : Receipted(a[1], a[2])}
  IN receipted \subseteq projected /\ \A a, b \in projected \ receipted : a[2] = b[2] => a = b

\* D1 and the Coordinator keep the same artifacts, the receipt being written last.
LedgersInStep == DraftTypeOK /\ OneReceiptBehind

\* What keeps a run from its end for good.
LastHold == CHOOSE key \in Tagged(d1, "hold") : key[3] = Holds
Unreadable == Holds > 0 /\ ~ RequiresFreshEpoch(LastHold[2]) /\ \E scope \in Scopes \ Passing : Projected("receipt", scope)
Unprojected == \E a \in Kept : ~ Projected(a[1], a[2])
UnknownWrite == \E k \in Open : Writes(k) /\ LastOf(ops[k].there) # "ok"
Split == \/ (d1.state = "needs_action") # (main.state = "needs_action")
         \/ d1.state = "needs_action" /\ d1.code # main.code
Abandoned == \E scope \in Scopes : scope # 0 /\ scope \notin Passing
Interrupted == \E cycle \in Cycles : ~ WholeCycle(cycle)
LeftByApp == d1.state = "retrying" \/ (main.state = "failed" /\ d1.state # "failed")
AskedAsFirst == \E k \in DOMAIN ops : LastOf(ops[k].tries) = "ok" /\ Len(ops[k].tries) > 1
Stranded == Unreadable \/ Unprojected \/ UnknownWrite \/ Split \/ Abandoned \/ Interrupted \/ LeftByApp \/ AskedAsFirst

\* With an operator who restarts what stops, every run is settled in the end,
\* unless it is in one of the states no restart leads out of.
EventuallySettled == <>[](Settled \/ Stranded)

\* "A local receipt/projection response loss must replay the original scope":
\* a lost answer of D1 or the Coordinator holds the run at most once.
HeldOncePerLoss == Holds <= faults

==============================================================================
