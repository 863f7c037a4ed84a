------------------------ MODULE WechatDraftInvariants ------------------------
(***************************************************************************)
(* What holds in every state of WechatDraft, and from step to step: the    *)
(* strengthenings of its safety properties that are inductive. LedgersInv  *)
(* is that of LedgersInStep, with ReadyInv that of ReadyIsProven, and with *)
(* CallsMade and WritesInv that of DraftWritesSafe. PublicationProofs      *)
(* proves them.                                                            *)
(***************************************************************************)
EXTENDS WechatDraft

-----------------------------------------------------------------------------
(* What has a type, and what the two ledgers hold.                         *)

\* The values of the variables.
Moving == WECHAT_RESUMABLE_STATES \cup {"draft_ready"}
Targets == Moving \cup ExceptionalStates \cup {"retrying"}
HoldCodes == {Unknown, Unreconciled, Unresolved, Mismatch, Unread, NoAccount, Reconciled, "none"}
Tags == {"artifact", "sync", "ready", "hold", "fail", "failed", "reconciled", "retrying", "resumed", "app"}
Subjects == Kinds \cup Targets \cup HoldCodes \cup {"cancel", "retry", "resume"}
LogKeys == Tags \X Subjects \X Nat
Rows == [state : Targets, code : HoldCodes, last : Targets, log : Seq(LogKeys)]
OpNames == {"upload", "map", "find", "findNow", "add", "update", "read"}
OpKeys == OpNames \X Nat
Contents == {"none", "package", "other"}
TryStates == {"open", "ok", "retryable", "failed"}
Claims == {"none", "running", "stuck", "ok", "again", "rejected", "denied"}
OpRecords == [tries : Seq(TryStates), there : Seq(Claims), value : Contents]
Subs == {"look", "keep", "event", "co", "settle", "d1", "main", "again", "ask", "send", "query", "wait",
         "receipts", "reconciled", "retrying", "resumed"}
Stages == Kinds \cup Calls \cup {"enter", "sync", "verify", "ready", "hold", "fail", "resume"}
Instances ==
  [run : {"live", "done", "errored"}, pc : Stages, sub : Subs, scope : Nat, cycle : Nat, code : HoldCodes,
   try : Nat, draft : Contents, mutation : {"add", "update", "noop", "found"}, settle : OpKeys \cup {<<>>}]
OpsTyped ==
  \A k \in DOMAIN ops :
    /\ k \in OpKeys /\ ops[k] \in OpRecords
    /\ Len(ops[k].tries) = Len(ops[k].there) /\ Len(ops[k].tries) \in 1..3
Typed ==
  /\ d1 \in Rows /\ main \in Rows /\ w \in Instances
  /\ Kept \subseteq Kinds \X (0..MaxHolds) /\ OpsTyped
  /\ wechat \in [drafts : Nat, content : Contents, mapped : BOOLEAN]
  /\ recording \in BOOLEAN /\ late \in Nat /\ faults \in 0..MaxFaults

\* The states of the two rows.
D1Row(row) ==
  /\ row.last \in Moving
  /\ row.state \in Moving => row.last = row.state
  /\ row.last = "draft_ready" => row.state = "draft_ready"
RowsOK ==
  /\ D1Row(d1)
  /\ main.state \in Moving \cup {"needs_action", "failed"}

\* The holds are numbered, and a recovery is of one of them.
HoldKeys == Tagged(d1, "hold")
ResumedKeys == Tagged(d1, "resumed")
Latest(code, c) == (\E key \in HoldsWith(code) : key[3] = c) /\ \A key \in HoldsWith(code) : key[3] <= c
HoldsOK ==
  /\ IsFiniteSet(HoldKeys) /\ \A key \in HoldKeys : key[3] \in 1..Holds
  /\ \A code \in HoldCodes : HoldsWith(code) # {} => \E c \in 1..Holds : Latest(code, c)
  /\ \A key \in ResumedKeys : key[2] \in WECHAT_RESUMABLE_STATES /\ key[3] \in 1..Holds

\* Where the Workflow walks through the phase: the Coordinator's run is at a
\* checkpoint, and D1's is not over.
Walking == w.run = "live" /\ (w.pc \in Kinds \cup Calls \cup {"sync", "verify"} \/ (w.pc = "ready" /\ w.sub = "d1"))
Resuming == w.run = "live" /\ w.pc = "resume"
FreshHold(code) == RequiresFreshEpoch(code) /\ HoldsWith(code) # {}
ScopesOK ==
  /\ Walking => main.state \in WECHAT_RESUMABLE_STATES /\ w.scope <= MaxHolds
  /\ Resuming /\ w.sub # "receipts" /\ w.sub # "reconciled" => HoldsWith(w.code) # {}
  /\ Resuming => w.sub \in {"receipts", "reconciled", "retrying", "resumed", "main"}
  /\ Resuming => main.state \in WECHAT_RESUMABLE_STATES \cup {"needs_action"}
  /\ Resuming /\ FreshHold(w.code) => \E c \in 0..MaxHolds : Latest(w.code, c)
  /\ w.run = "live" /\ main.state = "needs_action" /\ FreshHold(main.code) => \E c \in 0..MaxHolds : Latest(main.code, c)
  /\ w.run = "live" /\ w.pc = "hold" /\ w.sub = "d1" /\ RequiresFreshEpoch(w.code) => main.state # "needs_action"

\* The artifacts of a scope are receipted in this order, each in D1 first.
Turn(kind) == CASE kind = "template" -> 1 [] kind = "renderqa" -> 2 [] kind = "image" -> 3 [] kind = "package" -> 4
                [] kind = "preqa" -> 5 [] kind = "receipt" -> 6 [] kind = "readback" -> 7
\* The artifacts that are receipted when the Workflow is at "pc": those before this turn.
TurnAt(pc) == CASE pc \in Kinds -> Turn(pc) [] pc \in {"sync", "upload"} -> 3
                [] pc \in {"map", "find", "findNow", "write"} -> 6 [] pc = "read" -> 7 [] OTHER -> 1
ArtifactsInTurn ==
  /\ \A kind \in Kinds, s \in Nat : Receipted(kind, s) => Projected(kind, s)
  /\ \A kind, earlier \in Kinds, s \in Nat : Projected(kind, s) /\ Turn(earlier) < Turn(kind) => Receipted(earlier, s)
WalkOK ==
  Walking =>
    /\ \A kind \in Kinds : Turn(kind) < TurnAt(w.pc) => Receipted(kind, w.scope)
    /\ w.pc \in Kinds /\ w.sub = "co" => Projected(w.pc, w.scope)
    /\ w.pc \in Kinds /\ w.sub = "settle" => Receipted(w.pc, w.scope)
LedgersInv == Typed /\ RowsOK /\ HoldsOK /\ ScopesOK /\ ArtifactsInTurn /\ WalkOK

-----------------------------------------------------------------------------
(* Calls, and where an instance is that starts anew.                       *)

\* A call that was asked has its operation, and a call that an artifact settles was made.
CallsMade ==
  /\ w.settle = <<>> \/ w.settle \in DOMAIN ops
  /\ Walking /\ w.pc \in Kinds /\ w.sub = "settle" => w.settle # <<>>
  /\ Walking /\ w.pc \in Calls /\ w.sub \in {"send", "query", "wait"} => OpOf(w.pc) \in DOMAIN ops
  /\ Walking /\ w.pc = "find" => OpenWrites # {}
  /\ Walking /\ w.pc = "write" => w.mutation \in {"add", "update"}

\* The new instance is at no call that was asked, nor at an artifact's call.
Aside(v, settle) ==
  /\ v.settle \in {<<>>, settle}
  /\ v.run = "live" /\ v.pc \in Kinds => v.sub # "settle"
  /\ v.run = "live" /\ v.pc \in Calls => v.sub = "ask" /\ v.pc \notin {"find", "write"}

-----------------------------------------------------------------------------
(* Who writes what: the steps of the two ledgers.                          *)

\* The events of D1, by who writes them.
ArtifactEvent(target, key) ==
  /\ Walking /\ w.pc \in Kinds /\ w.sub = "event" /\ ~ Projected(w.pc, w.scope) /\ ~ Receipted(w.pc, w.scope)
  /\ key = Artifact(w.pc, w.scope) /\ target = artifactState(w.pc, w.scope)
SyncEvent(target, key) ==
  Walking /\ w.pc = "sync" /\ w.sub = "d1" /\ key = <<"sync", "none", w.scope>> /\ target = "draft_syncing"
ReadyEvent(target, key) ==
  /\ Walking /\ w.pc = "ready" /\ w.sub = "d1" /\ key = <<"ready", "none", w.scope>>
  /\ target = "draft_ready" /\ d1.state = "draft_verifying" /\ recording'
HoldEvent(target, key) ==
  w.run = "live" /\ w.pc = "hold" /\ w.sub = "d1" /\ key = <<"hold", w.code, Holds + 1>> /\ target = "needs_action"
FailEvent(target, key) ==
  w.run = "live" /\ w.pc = "fail" /\ w.sub = "d1" /\ key[1] = "failed" /\ target = "failed"
RecoveryEvent(target, key) ==
  /\ Resuming /\ w.sub = key[1] /\ HoldsWith(w.code) # {} /\ key = <<w.sub, d1.last, cycleOf(w.code)>>
  /\ \/ w.sub \in {"reconciled", "retrying"} /\ target \in {"needs_action", "retrying"}
     \/ w.sub = "resumed" /\ target = d1.last /\ d1.state = "retrying"
AppEvent(target, key) ==
  key[1] = "app" /\ target \in {"cancelled", "retrying", d1.last} /\ d1.state # "draft_ready" /\ UNCHANGED <<main, w>>
D1Event(target, key) ==
  \/ ArtifactEvent(target, key) \/ SyncEvent(target, key) \/ ReadyEvent(target, key) \/ HoldEvent(target, key)
  \/ FailEvent(target, key) \/ RecoveryEvent(target, key) \/ AppEvent(target, key)
D1Step ==
  \/ d1' = d1
  \/ \E target \in Targets, key \in LogKeys, code \in HoldCodes :
       /\ D1Allows(target, TRUE) /\ D1Event(target, key)
       /\ d1' = WithEvent(d1, target, key, code)

\* The events of the Coordinator.
MainEvent(target, key, code) ==
  \/ /\ target \in WECHAT_RESUMABLE_STATES
     /\ \/ Walking /\ w.pc \in Kinds /\ key = Artifact(w.pc, w.scope)
        \/ Walking /\ w.pc = "sync" /\ w.sub # "d1" /\ key = <<"sync", "none", w.scope>>
        \/ Resuming
  \/ w.run = "live" /\ w.pc = "ready" /\ w.sub = "main" /\ target = "draft_ready" /\ w'.run # "live"
  \/ w.run = "live" /\ w.pc = "hold" /\ w.sub = "main" /\ target = "needs_action" /\ code = w.code /\ w'.run # "live"
  \/ w.run = "live" /\ w.pc = "fail" /\ w.sub = "main" /\ target = "failed" /\ w'.run # "live"
MainStep ==
  \/ main' = main
  \/ \E target \in Targets, key \in LogKeys, code \in HoldCodes :
       /\ MainEvent(target, key, code) /\ UNCHANGED d1
       /\ main' = WithEvent(main, target, key, code)

-----------------------------------------------------------------------------
(* A run that is ready.                                                    *)

\* Every cycle is numbered by a hold; and who is at the end of the phase has proven it.
CyclesHeld == \A cycle \in Cycles : \E key \in HoldKeys : key[3] = cycle
ReadyInv ==
  /\ CyclesHeld
  /\ w.run = "live" /\ w.pc = "ready" /\ w.sub = "d1" => Exact
  /\ w.run = "live" /\ w.pc = "ready" /\ w.sub = "main" => d1.state = "draft_ready"
  /\ w.run = "live" /\ w.pc = "ready" => w.sub \in {"d1", "main"}
  /\ d1.state = "draft_ready" => recording /\ Exact /\ ~ Walking /\ ~ Resuming
  /\ main.state = "draft_ready" => d1.state = "draft_ready"

-----------------------------------------------------------------------------
(* What is asked of the author's account.                                  *)

\* D1 has the receipt of the draft.
Verified == d1.last \in {"draft_verifying", "draft_ready"}

\* All recoveries from a hold resume at one checkpoint, D1's last when the hold is left.
ResumesAt(code) == \A c \in Nat : Latest(code, c) => \A key \in ResumedKeys : key[3] = c => key[2] = d1.last
Known(c) == \E key \in ResumedKeys : key[3] = c
RecoveriesOK ==
  /\ \A x, y \in ResumedKeys : x[3] = y[3] => x[2] = y[2]
  /\ \A key \in ResumedKeys : key[2] = "draft_verifying" => Verified
ResumesOK ==
  /\ main.state = "needs_action" => ResumesAt(main.code)
  /\ Resuming => ResumesAt(w.code)
  /\ w.run = "live" /\ w.pc = "hold" /\ w.sub = "main" => ResumesAt(w.code)
  /\ Resuming /\ w.sub = "main" => \A c \in Nat : Latest(w.code, c) => Has(d1, <<"resumed", d1.last, c>>)

\* The checkpoint before the first change of the account.
Announced(s) == Has(d1, <<"sync", "none", s>>) /\ Has(main, <<"sync", "none", s>>)
MaySend(s) == Announced(s) \/ Target(s) = "draft_verifying"

\* What the operations say of the draft.
Sent(k) == k \in DOMAIN ops /\ ops[k].there[1] # "none"
OperationOK(k, op) ==
  /\ Writes(k) => MaySend(k[2])
  /\ k[1] \in {"add", "update"} /\ LastOf(op.tries) = "ok" => Verified
  /\ k[1] = "map" /\ k[2] # 0 => Known(k[2])
  /\ k[1] = "map" /\ op.value # "none" => wechat.mapped
  /\ k[1] = "map" /\ op.value = "none" /\ Target(k[2]) = "draft_verifying" => \A n \in DOMAIN op.there : op.there[n] # "ok"
  /\ k[1] \in {"add", "find", "findNow"} => \A n \in DOMAIN op.there : op.there[n] = "ok" => wechat.mapped
  /\ k[1] = "upload" /\ (Len(op.tries) > 1 \/ LastOf(op.tries) # "open") => op.there[1] # "none"
OperationsOK == \A k \in DOMAIN ops : OperationOK(k, ops[k])
DraftOK ==
  /\ wechat.mapped => wechat.content # "none"
  /\ Verified => wechat.mapped
  /\ \A s \in Nat : Projected("receipt", s) => Verified
  /\ \A s \in Nat : Projected("image", s) => Sent(<<"upload", s>>)

\* What a step keeps of this.
SentStay == \A k : Sent(k) => Sent(k)'
DraftStays == OperationsOK' /\ DraftOK' /\ SentStay

\* Only the last attempt of the one add that is not given up may have made the draft.
Refused == {"again", "rejected", "denied"}
Adds == {k \in DOMAIN ops : k[1] = "add"}
Alive(k) == LastOf(ops[k].tries) \in {"open", "ok"}
AddsOK ==
  /\ \A k \in Adds : \A n \in DOMAIN ops[k].there :
       /\ n < Len(ops[k].there) \/ ~ Alive(k) => ops[k].there[n] \in Refused
       /\ ops[k].there[n] = "running" => wechat.drafts = 0
  /\ \A j, k \in Adds : Alive(j) /\ Alive(k) => j = k
  /\ \/ wechat.drafts = 0
     \/ wechat.drafts = 1 /\ \E k \in Adds : Alive(k) /\ LastOf(ops[k].there) \in {"ok", "stuck"}

\* Where the Workflow stands: the call an artifact settles is the one that made it.
Settling(k) ==
  /\ k \in DOMAIN ops /\ Alive(k)
  /\ \/ w.pc = "image" /\ k = <<"upload", w.scope>>
     \/ w.pc \in {"receipt", "findNow"} /\ k[1] \in {"add", "update"}
     \/ w.pc = "readback" /\ k[1] = "read"
Past == w.pc \in (Calls \ {"read"}) \cup {"image", "package", "preqa"} \/ (w.pc = "receipt" /\ w.sub \in {"keep", "event"})
Asking ==
  /\ w.sub \in {"ask", "send", "query", "wait"}
  /\ w.sub # "ask" =>
       LET k == OpOf(w.pc) IN
       /\ k \in DOMAIN ops /\ Alive(k) /\ w.try \in DOMAIN ops[k].there
       /\ LastOf(ops[k].tries) = "open" => w.try = Len(ops[k].tries)
       /\ w.sub = "send" => ops[k].there[w.try] = "none" /\ LastOf(ops[k].tries) = "open"
  /\ w.pc = "write" /\ w.mutation = "update" => wechat.mapped
  /\ w.pc = "write" /\ w.mutation = "add" /\ w.sub = "ask" => \A k \in Adds : ~ Alive(k)
StandsOK ==
  w.run = "live" /\ w.pc \in Kinds \cup Calls \cup {"sync"} =>
    /\ w.scope \in {0, w.cycle} /\ (w.cycle # 0 => Known(w.cycle))
    /\ w.settle = <<>> \/ Settling(w.settle)
    /\ w.pc = "sync" => w.sub \in {"d1", "main", "again"} /\ (w.sub # "d1" => Has(d1, <<"sync", "none", w.scope>>) /\ ~ Verified)
    /\ Past => Target(w.scope) = "draft_verifying" \/ (Announced(w.scope) /\ ~ Verified)
    /\ w.pc \in {"receipt", "read", "readback"} => wechat.mapped
    /\ w.pc = "image" => Sent(<<"upload", w.scope>>)
    /\ w.pc \in Kinds => w.sub \in {"keep", "event", "co", "settle"}
    /\ w.pc \in Calls => Asking

\* What is left to do for a run that was cancelled before it asked WeChat for its last change.
Spent ==
  w.run = "live" =>
    \/ w.pc \in {"enter", "hold", "fail", "resume", "receipt", "findNow", "read", "readback", "verify", "ready"}
    \/ w.pc \in {"template", "renderqa"} /\ w.scope = 0
    \/ w.pc = "sync" /\ w.sub = "d1"
    \/ w.pc = "image" /\ ~ Projected("image", w.scope)
    \/ w.pc = "upload" /\ Sent(<<"upload", w.scope>>) /\ ~ Projected("image", w.scope)
    \/ w.pc = "write" /\ Sent(<<w.mutation, w.scope>>)
LateOK == late = 0 \/ (late = 1 /\ d1.state = "cancelled" /\ Spent)
WritesInv == RecoveriesOK /\ ResumesOK /\ OperationsOK /\ DraftOK /\ AddsOK /\ StandsOK /\ LateOK

\* What no step takes back.
Lasts ==
  /\ \A s : Target(s) = "draft_verifying" => Target(s)' = "draft_verifying"
  /\ \A s : (Known(s) => Known(s)') /\ (Announced(s) => Announced(s)')
  /\ \A key : Has(d1, key) => Has(d1, key)'
  /\ SentStay /\ (wechat.mapped => wechat'.mapped)
  /\ d1'.last = d1.last => (Verified' <=> Verified)

=============================================================================
