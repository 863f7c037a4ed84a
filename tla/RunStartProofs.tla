--------------------------- MODULE RunStartProofs ---------------------------
(***************************************************************************)
(* Proofs of the safety of a start, for every set of requests, whatever    *)
(* texts speech recognition may return and whatever number of faults: one  *)
(* transcript wins, a start is only called what the stores prove, and it   *)
(* is held for a doubt only. The stores alone do not carry the argument:   *)
(* what a request found out is remembered in its position, so the          *)
(* invariant says for each position what the stores hold by then, and      *)
(* every store keeps it because it only grows.                             *)
(***************************************************************************)
EXTENDS RunStart, FiniteSetTheorems, SequenceTheorems, TLAPS

-----------------------------------------------------------------------------
(* The inductive invariant. *)

D1States == {"absent", "queued", "needs_action", "retrying", "moved"}
Statuses == {"absent", "intent", "needs_action", "reconciled", "started"}
Logs == Seq(EventTypes \X Holds)
Ledgers == [status : Statuses, hold : Holds \cup {"none"}]
Events == (EventTypes \cup {"confirmed"}) \X (Holds \cup {"none"})

Handoff == {"idle", "find", "put", "reread"}
Route == {"register", "startRun", "plan", "checkBrief", "checkWorkflow", "storeBrief", "lookup", "decide", "create",
          "lookAgain", "mark", "readD1", "prove"}
\* Where a request has chosen the hold it takes or reconciles.
Holding == {"holdLedger", "holdRead", "holdWrite", "afterBriefHold", "reconcile", "receipt", "events", "finalize"}
Positions == Handoff \cup Route \cup Holding

Request ==
  [pc : Positions, text : Texts \cup {"none"}, hold : Holds \cup {"none"}, after : {"none", "lookup", "storeBrief"},
   seen : Logs, start : Ledgers \cup D1States \cup {"none"}]

\* Types: of the stores, and of the requests.
StoresTyped ==
  /\ transcripts \subseteq Texts /\ d1 \in [state : D1States, log : Logs]
  /\ ledger \in Ledgers /\ starts \in {"absent", "intent", "unknown", "reconciled", "started"}
  /\ evidence \in Seq(Events) /\ receipts \subseteq Holds /\ main \in {"absent", "queued", "moved"}
  /\ brief \in {"none", "prepared", "stored", "mirrored"}
  /\ wf \in {"none", "created", "confirmed", "transcribing", "running", "failed"}
  /\ accepted \in BOOLEAN /\ faults \in 0..MaxFaults

\* What a request relies on where it stands.
RequestOK(r) ==
  LET q == req[r] IN
  /\ q.pc = "idle" => q.text = "none"
  /\ q.pc \notin Handoff => transcripts # {}
  /\ q.pc \notin Handoff /\ q.text # "none" => q.text \in transcripts
  /\ q.pc \in {"find", "put", "reread"} => q.text \in Texts
  /\ q.pc \in Holding => q.hold \in Holds
  /\ q.pc \in {"reconcile", "receipt", "events", "finalize"} => q.after # "none"
  /\ q.pc = "events" => q.hold \in receipts
  /\ q.pc = "mark" => wf # "none"
  /\ q.pc = "prove" => brief = "mirrored" /\ d1.state # "absent"

\* An accepted start has left the first two statuses of the ledger for good.
AcceptedIsSettled == accepted => ledger.status \notin {"absent", "intent"}

StoresOK == ConfirmedExists /\ ReceiptFirst /\ AcceptedIsDurable /\ AcceptedIsSettled /\ NeverHeldOnceMoved

IInv ==
  /\ StoresTyped /\ req \in [Requests -> Request]
  /\ \A r \in Requests : RequestOK(r)
  /\ OneTranscript /\ StoresOK

-----------------------------------------------------------------------------
(* Sequences and steps. *)

LEMMA AddedKeeps ==
  ASSUME NEW S, NEW seq \in Seq(S), NEW e \in S
  PROVE  /\ Added(seq, e) \in Seq(S)
         /\ \A x : Has(Added(seq, e), x) <=> Has(seq, x) \/ x = e
<1>1. CASE Has(seq, e)
  BY <1>1 DEF Added, Has
<1>2. CASE ~ Has(seq, e)
  <2>1. Added(seq, e) = Append(seq, e)
    BY <1>2 DEF Added
  <2>2. /\ Len(Append(seq, e)) = Len(seq) + 1 /\ Append(seq, e)[Len(seq) + 1] = e
        /\ \A n \in 1..Len(seq) : Append(seq, e)[n] = seq[n]
        /\ DOMAIN seq = 1..Len(seq) /\ DOMAIN Append(seq, e) = 1..(Len(seq) + 1)
        /\ Append(seq, e) \in Seq(S)
    OBVIOUS
  <2>3. QED
    BY <2>1, <2>2 DEF Has
<1>3. QED
  BY <1>1, <1>2

LEMMA FaultsBounded ==
  ASSUME faults \in 0..MaxFaults, UNCHANGED faults \/ Fault
  PROVE  faults' \in 0..MaxFaults
BY RunStartOK DEF Fault

LEMMA CostsBounded ==
  ASSUME faults \in 0..MaxFaults, NEW o \in Outcomes, Costs(o)
  PROVE  faults' \in 0..MaxFaults
BY RunStartOK DEF Costs

\* What no step ever takes back.
Grows ==
  /\ transcripts \subseteq transcripts' /\ receipts \subseteq receipts'
  /\ wf # "none" => wf' # "none"
  /\ brief = "mirrored" => brief' = "mirrored"
  /\ d1.state # "absent" => d1'.state # "absent"

\* One request moves.
Only(r) == req' \in [Requests -> Request] /\ \A s \in Requests \ {r} : req'[s] = req[s]

\* It moves with its text, and into the route only when the text is the one stored.
Enters(r) ==
  \/ req'[r].pc \in Handoff \/ req'[r].text = "none"
  \/ /\ req'[r].text = req[r].text
     /\ req[r].pc \notin Handoff \/ transcripts = {req[r].text}

LEMMA GotoMoves ==
  ASSUME req \in [Requests -> Request], NEW r \in Requests, NEW p \in Positions, Goto(r, p)
  PROVE  /\ Only(r) /\ req'[r].pc = p
         /\ req'[r].text = req[r].text /\ req'[r].hold = req[r].hold /\ req'[r].after = req[r].after
<1>1. req[r] \in Request
  OBVIOUS
<1>2. req'[r] = [req[r] EXCEPT !.pc = p] /\ req'[r] \in Request
  BY <1>1 DEF Goto, Request
<1>3. QED
  BY <1>1, <1>2 DEF Goto, Only, Request

LEMMA EndMoves ==
  ASSUME req \in [Requests -> Request], NEW r \in Requests, End(r)
  PROVE  Only(r) /\ Enters(r) /\ req'[r] = Idle /\ RequestOK(r)'
<1>1. <<>> \in Logs
  BY DEF Logs
<1>2. Idle \in Request
  BY <1>1 DEF Idle, Request, Positions, Handoff
<1>3. req'[r] = Idle
  BY DEF End
<1>4. Only(r)
  BY <1>2 DEF End, Only
<1>5. QED
  BY <1>3, <1>4 DEF Enters, RequestOK, Idle, Handoff, Holding

LEMMA HoldMoves ==
  ASSUME req \in [Requests -> Request], NEW r \in Requests, NEW h \in Holds, Hold(r, h)
  PROVE  /\ Only(r) /\ req'[r].pc = "holdLedger" /\ req'[r].hold = h
         /\ req'[r].text = req[r].text /\ req'[r].after = req[r].after
<1>1. req[r] \in Request
  OBVIOUS
<1>2. req'[r] = [req[r] EXCEPT !.pc = "holdLedger", !.hold = h] /\ req'[r] \in Request
  BY <1>1 DEF Hold, Request, Positions, Holding
<1>3. QED
  BY <1>1, <1>2 DEF Hold, Only, Request

\* A request takes a log along.
LEMMA SeenMoves ==
  ASSUME req \in [Requests -> Request], NEW r \in Requests, NEW p \in Positions, NEW log \in Logs,
         req' = [req EXCEPT ![r].pc = p, ![r].seen = log]
  PROVE  /\ Only(r) /\ req'[r].pc = p
         /\ req'[r].text = req[r].text /\ req'[r].hold = req[r].hold /\ req'[r].after = req[r].after
<1>1. req[r] \in Request
  OBVIOUS
<1>2. req'[r] = [req[r] EXCEPT !.pc = p, !.seen = log] /\ req'[r] \in Request
  BY <1>1 DEF Request
<1>3. QED
  BY <1>1, <1>2 DEF Only, Request

\* A request at rest keeps what it relies on, since the stores only grow.
LEMMA RequestKept ==
  ASSUME Grows, NEW s \in Requests, req'[s] = req[s], RequestOK(s)
  PROVE  RequestOK(s)'
BY DEF Grows, RequestOK

LEMMA StepKeeps ==
  ASSUME IInv, Grows, NEW r \in Requests, Only(r), RequestOK(r)', Enters(r), StoresTyped', StoresOK'
  PROVE  IInv'
<1>1. \A s \in Requests : RequestOK(s)'
  <2> TAKE s \in Requests
  <2>1. CASE s = r
    BY <2>1
  <2>2. CASE s # r
    BY <2>2, RequestKept DEF IInv, Only
  <2>3. QED
    BY <2>1, <2>2
<1> DEFINE InRoute(q) == q.text # "none" /\ q.pc \notin {"find", "put", "reread"}
<1>2. ASSUME NEW s \in Requests \ {r}, InRoute(req'[r]), InRoute(req'[s])
      PROVE  req'[r].text = req'[s].text
  <2>1. req'[s] = req[s] /\ req[s].pc \notin Handoff /\ req[s].text \in transcripts
    BY <1>2 DEF Only, IInv, RequestOK, Handoff
  <2>2. req'[r].pc \notin Handoff
    BY <1>1, <1>2 DEF RequestOK, Handoff
  <2>3. req'[r].text = req[r].text /\ (req[r].pc \notin Handoff \/ transcripts = {req[r].text})
    BY <1>2, <2>2 DEF Enters
  <2>4. CASE req[r].pc \notin Handoff
    BY <1>2, <2>1, <2>3, <2>4 DEF IInv, OneTranscript, Handoff
  <2>5. CASE transcripts = {req[r].text}
    BY <2>1, <2>3, <2>5
  <2>6. QED
    BY <2>3, <2>4, <2>5
<1>3. OneTranscript'
  <2> SUFFICES ASSUME NEW a \in Requests, NEW b \in Requests, InRoute(req'[a]), InRoute(req'[b])
               PROVE  req'[a].text = req'[b].text
    BY DEF OneTranscript
  <2>1. CASE a = b
    BY <2>1
  <2>2. CASE a # b /\ (a = r \/ b = r)
    BY <1>2, <2>2
  <2>3. CASE a # r /\ b # r
    BY <2>3 DEF Only, IInv, OneTranscript
  <2>4. QED
    BY <2>1, <2>2, <2>3
<1>4. QED
  BY <1>1, <1>3 DEF IInv, Only

\* A step that only moves a request.
LEMMA LookKeeps ==
  ASSUME IInv, NEW r \in Requests, Only(r), RequestOK(r)', Enters(r),
         UNCHANGED <<transcripts, d1, coord, brief, wf, accepted>>, UNCHANGED faults \/ Fault
  PROVE  IInv'
<1>1. Grows
  BY DEF Grows, coord
<1>2. StoresTyped'
  BY FaultsBounded DEF IInv, StoresTyped, coord
<1>3. StoresOK'
  BY DEF IInv, coord, StoresOK, ConfirmedExists, ReceiptFirst, AcceptedIsDurable, AcceptedIsSettled, NeverHeldOnceMoved,
         Has
<1>4. QED
  BY <1>1, <1>2, <1>3, StepKeeps

LEMMA EndKeeps ==
  ASSUME IInv, NEW r \in Requests, End(r),
         UNCHANGED <<transcripts, d1, coord, brief, wf, accepted>>, UNCHANGED faults \/ Fault
  PROVE  IInv'
BY EndMoves, LookKeeps DEF IInv

-----------------------------------------------------------------------------
(* The handoff. *)

LEMMA BeginKeeps ==
  ASSUME IInv, NEW r \in Requests, Begin(r)
  PROVE  IInv'
<1>1. PICK t \in IF transcripts = {} THEN Texts ELSE transcripts :
        req' = [req EXCEPT ![r].pc = "find", ![r].text = t]
  BY DEF Begin
<1>2. t \in Texts /\ req[r] \in Request
  BY <1>1 DEF IInv, StoresTyped
<1>3. req'[r] = [req[r] EXCEPT !.pc = "find", !.text = t] /\ req'[r] \in Request
  BY <1>1, <1>2 DEF IInv, Request, Positions, Handoff
<1>4. Only(r) /\ req'[r].pc = "find" /\ req'[r].text = t
  BY <1>1, <1>2, <1>3 DEF IInv, Only, Request
<1>5. RequestOK(r)' /\ Enters(r)
  BY <1>2, <1>4 DEF RequestOK, Enters, Handoff, Holding
<1>6. QED
  BY <1>4, <1>5, LookKeeps DEF Begin

LEMMA AskStatusKeeps ==
  ASSUME IInv, NEW r \in Requests, AskStatus(r)
  PROVE  IInv'
<1>1. transcripts # {}
  BY FS_EmptySet DEF AskStatus
<1>2. Only(r) /\ req'[r].pc = "readD1" /\ req'[r].text = req[r].text
  BY GotoMoves DEF AskStatus, IInv, Positions, Route
<1>3. req'[r].text = "none"
  BY <1>2 DEF AskStatus, At, IInv, RequestOK
<1>4. RequestOK(r)' /\ Enters(r)
  BY <1>1, <1>2, <1>3 DEF AskStatus, RequestOK, Enters, Holding
<1>5. QED
  BY <1>2, <1>4, LookKeeps DEF AskStatus

LEMMA FindKeeps ==
  ASSUME IInv, NEW r \in Requests, FindTranscript(r)
  PROVE  IInv'
<1>1. req[r].pc = "find" /\ req[r].text \in Texts
  BY DEF FindTranscript, At, IInv, RequestOK
<1>2. CASE transcripts = {}
  <2>1. Only(r) /\ req'[r].pc = "put" /\ req'[r].text = req[r].text
    BY <1>2, GotoMoves DEF FindTranscript, IInv, Positions, Handoff
  <2>2. RequestOK(r)' /\ Enters(r)
    BY <1>1, <2>1 DEF RequestOK, Enters, Handoff, Holding
  <2>3. QED
    BY <2>1, <2>2, LookKeeps DEF FindTranscript
<1>3. CASE transcripts = {req[r].text}
  <2>1. Only(r) /\ req'[r].pc = "register" /\ req'[r].text = req[r].text
    BY <1>3, GotoMoves DEF FindTranscript, IInv, Positions, Route
  <2>2. RequestOK(r)' /\ Enters(r)
    BY <1>1, <1>3, <2>1 DEF FindTranscript, RequestOK, Enters, Handoff, Holding
  <2>3. QED
    BY <2>1, <2>2, LookKeeps DEF FindTranscript
<1>4. CASE transcripts # {} /\ transcripts # {req[r].text}
  BY <1>4, EndKeeps DEF FindTranscript
<1>5. QED
  BY <1>2, <1>3, <1>4

LEMMA PutKeeps ==
  ASSUME IInv, NEW r \in Requests, PutTranscript(r)
  PROVE  IInv'
<1>1. req[r].pc = "put" /\ req[r].text \in Texts
  BY DEF PutTranscript, At, IInv, RequestOK
<1>2. PICK o \in Outcomes :
        Costs(o) /\ transcripts' = IF o = "failed" THEN transcripts ELSE transcripts \cup {req[r].text}
  BY DEF PutTranscript
<1>3. faults' \in 0..MaxFaults
  BY <1>2, CostsBounded DEF IInv, StoresTyped
<1>4. Only(r) /\ req'[r].pc = "reread" /\ req'[r].text = req[r].text
  BY GotoMoves DEF PutTranscript, Reread, IInv, Positions, Handoff
<1>5. RequestOK(r)' /\ Enters(r)
  BY <1>1, <1>4 DEF RequestOK, Enters, Handoff, Holding
<1>6. Grows
  BY <1>2 DEF PutTranscript, Grows, coord
<1>7. StoresTyped'
  BY <1>1, <1>2, <1>3 DEF IInv, StoresTyped, PutTranscript, coord
<1>8. StoresOK'
  BY <1>2 DEF IInv, PutTranscript, coord, StoresOK, ConfirmedExists, ReceiptFirst, AcceptedIsDurable, AcceptedIsSettled,
              NeverHeldOnceMoved, Has
<1>9. QED
  BY <1>4, <1>5, <1>6, <1>7, <1>8, StepKeeps

LEMMA RereadKeeps ==
  ASSUME IInv, NEW r \in Requests, RereadTranscript(r)
  PROVE  IInv'
<1>1. CASE transcripts = {req[r].text}
  <2>1. Only(r) /\ req'[r].pc = "register" /\ req'[r].text = req[r].text
    BY <1>1, GotoMoves DEF RereadTranscript, IInv, Positions, Route
  <2>2. RequestOK(r)' /\ Enters(r)
    BY <1>1, <2>1 DEF RereadTranscript, RequestOK, Enters, Handoff, Holding
  <2>3. QED
    BY <2>1, <2>2, LookKeeps DEF RereadTranscript
<1>2. CASE transcripts # {req[r].text}
  BY <1>2, EndKeeps DEF RereadTranscript
<1>3. QED
  BY <1>1, <1>2

-----------------------------------------------------------------------------
(* The start route. *)

\* Within the route a request keeps its text.
LEMMA WithinRoute ==
  ASSUME IInv, NEW r \in Requests, req[r].pc \notin Handoff, req'[r].text = req[r].text, req'[r].pc \notin Handoff, Grows
  PROVE  /\ Enters(r) /\ transcripts' # {}
         /\ req'[r].text # "none" => req'[r].text \in transcripts'
BY DEF IInv, RequestOK, Enters, Grows

LEMMA RegisterKeeps ==
  ASSUME IInv, NEW r \in Requests, Register(r)
  PROVE  IInv'
<1>1. Only(r) /\ req'[r].pc = "startRun" /\ req'[r].text = req[r].text
  BY GotoMoves DEF Register, IInv, Positions, Route
<1>2. d1' \in [state : D1States, log : Logs] /\ d1'.log = d1.log /\ d1'.state # "absent"
      /\ (d1.state # "absent" => d1' = d1)
  BY DEF Register, IInv, StoresTyped, D1States
<1>3. Grows
  BY <1>2 DEF Register, Grows, coord
<1>4. RequestOK(r)' /\ Enters(r)
  BY <1>1, <1>3, WithinRoute DEF Register, At, RequestOK, Handoff, Holding
<1>5. StoresTyped'
  BY <1>2 DEF IInv, StoresTyped, Register, coord
<1>6. StoresOK'
  BY <1>2 DEF IInv, Register, coord, StoresOK, ConfirmedExists, ReceiptFirst, AcceptedIsDurable, AcceptedIsSettled,
              NeverHeldOnceMoved, Has
<1>7. QED
  BY <1>1, <1>3, <1>4, <1>5, <1>6, StepKeeps

LEMMA StartRunKeeps ==
  ASSUME IInv, NEW r \in Requests, StartRun(r)
  PROVE  IInv'
<1>1. Only(r) /\ req'[r].pc = "plan" /\ req'[r].text = req[r].text
  BY GotoMoves DEF StartRun, IInv, Positions, Route
<1>2. Grows
  BY DEF StartRun, Grows
<1>3. RequestOK(r)' /\ Enters(r)
  BY <1>1, <1>2, WithinRoute DEF StartRun, At, RequestOK, Handoff, Holding
<1>4. StoresTyped'
  BY DEF IInv, StoresTyped, StartRun, Ledgers, Statuses
<1>5. StoresOK'
  BY DEF IInv, StoresTyped, StartRun, StoresOK, ConfirmedExists, ReceiptFirst, AcceptedIsDurable, AcceptedIsSettled,
         NeverHeldOnceMoved, Has, Ledgers
<1>6. QED
  BY <1>1, <1>2, <1>3, <1>4, <1>5, StepKeeps

\* A step within the route that changes no store, to a position that needs no more.
LEMMA OnwardKeeps ==
  ASSUME IInv, NEW r \in Requests, req[r].pc \notin Handoff, NEW p \in Route \ {"mark", "prove"}, Goto(r, p),
         UNCHANGED <<transcripts, d1, coord, brief, wf, accepted>>, UNCHANGED faults \/ Fault
  PROVE  IInv'
<1>1. Only(r) /\ req'[r].pc = p /\ req'[r].text = req[r].text
  BY GotoMoves DEF IInv, Positions
<1>2. Grows
  BY DEF Grows, coord
<1>3. req'[r].pc \notin Handoff
  BY <1>1 DEF Route, Handoff
<1>4. RequestOK(r)' /\ Enters(r)
  BY <1>1, <1>2, <1>3, WithinRoute DEF RequestOK, Handoff, Holding, Route
<1>5. QED
  BY <1>1, <1>4, LookKeeps

LEMMA PlanKeeps ==
  ASSUME IInv, NEW r \in Requests, Plan(r)
  PROVE  IInv'
<1>1. \E p \in {"checkBrief", "checkWorkflow", "storeBrief"} : Goto(r, p)
  BY DEF Plan
<1>2. QED
  BY <1>1, OnwardKeeps DEF Plan, At, Handoff, Route

LEMMA ReconcileKeeps ==
  ASSUME IInv, NEW r \in Requests, req[r].pc \notin Handoff, NEW h \in Holds, NEW after \in {"lookup", "storeBrief"},
         Reconcile(r, h, after), UNCHANGED <<transcripts, d1, coord, brief, wf, accepted, faults>>
  PROVE  IInv'
<1>1. req[r] \in Request
  BY DEF IInv
<1>2. req'[r] = [req[r] EXCEPT !.pc = "reconcile", !.hold = h, !.after = after] /\ req'[r] \in Request
  BY <1>1 DEF Reconcile, IInv, Request, Positions, Holding
<1>3. Only(r) /\ req'[r].pc = "reconcile" /\ req'[r].hold = h /\ req'[r].after = after /\ req'[r].text = req[r].text
  BY <1>1, <1>2 DEF Reconcile, IInv, Only, Request
<1>4. Grows
  BY DEF Grows, coord
<1>5. RequestOK(r)' /\ Enters(r)
  BY <1>3, <1>4, WithinRoute DEF RequestOK, Handoff
<1>6. QED
  BY <1>3, <1>5, LookKeeps

LEMMA CheckBriefKeeps ==
  ASSUME IInv, NEW r \in Requests, CheckBrief(r)
  PROVE  IInv'
<1>1. CASE Reconcile(r, "brief", "lookup") /\ UNCHANGED faults
  BY <1>1, ReconcileKeeps DEF CheckBrief, At, Handoff, Holds
<1>2. CASE End(r) /\ (UNCHANGED faults \/ Fault)
  BY <1>2, EndKeeps DEF CheckBrief
<1>3. QED
  BY <1>1, <1>2 DEF CheckBrief

LEMMA CheckWorkflowKeeps ==
  ASSUME IInv, NEW r \in Requests, CheckWorkflow(r)
  PROVE  IInv'
<1>1. ASSUME NEW after \in {"lookup", "storeBrief"}, Reconcile(r, "create", after), UNCHANGED faults
      PROVE  IInv'
  BY <1>1, ReconcileKeeps DEF CheckWorkflow, At, Handoff, Holds
<1>2. CASE Fault /\ End(r)
  BY <1>2, EndKeeps DEF CheckWorkflow
<1>3. QED
  BY <1>1, <1>2 DEF CheckWorkflow

LEMMA StoreBriefKeeps ==
  ASSUME IInv, NEW r \in Requests, StoreBrief(r)
  PROVE  IInv'
<1>1. brief' \in {"none", "prepared", "stored", "mirrored"} /\ (brief = "mirrored" => brief' = "mirrored")
  BY DEF StoreBrief, IInv, StoresTyped
<1>2. Grows
  BY <1>1 DEF StoreBrief, Grows, coord
<1>3. /\ Only(r) /\ req'[r].text = req[r].text
      /\ req'[r].pc = "lookup" \/ (req'[r].pc = "holdLedger" /\ req'[r].hold \in Holds)
  BY GotoMoves, HoldMoves DEF StoreBrief, IInv, Positions, Route, Holds
<1>4. RequestOK(r)' /\ Enters(r)
  BY <1>2, <1>3, WithinRoute DEF StoreBrief, At, RequestOK, Handoff, Holding
<1>5. UNCHANGED faults \/ Fault
  BY DEF StoreBrief
<1>6. StoresTyped'
  BY <1>1, <1>5, FaultsBounded DEF IInv, StoresTyped, StoreBrief, coord
<1>7. StoresOK'
  BY <1>1 DEF IInv, StoreBrief, coord, StoresOK, ConfirmedExists, ReceiptFirst, AcceptedIsDurable, AcceptedIsSettled,
              NeverHeldOnceMoved, Has
<1>8. QED
  BY <1>2, <1>3, <1>4, <1>6, <1>7, StepKeeps

-----------------------------------------------------------------------------
(* startFiveAgentWorkflow. *)

LEMMA LookUpKeeps ==
  ASSUME IInv, NEW r \in Requests, LookUp(r)
  PROVE  IInv'
<1>1. req[r] \in Request /\ ledger \in Ledgers
  BY DEF IInv, StoresTyped
<1>2. req'[r] = [req[r] EXCEPT !.pc = "decide", !.start = ledger] /\ req'[r] \in Request
  BY <1>1 DEF LookUp, IInv, Request, Positions, Route
<1>3. Only(r) /\ req'[r].pc = "decide" /\ req'[r].text = req[r].text
  BY <1>1, <1>2 DEF LookUp, IInv, Only, Request
<1>4. Grows
  BY DEF LookUp, Grows, coord
<1>5. RequestOK(r)' /\ Enters(r)
  BY <1>3, <1>4, WithinRoute DEF LookUp, At, RequestOK, Handoff, Holding
<1>6. QED
  BY <1>3, <1>5, LookKeeps DEF LookUp

\* Recording a hold only adds evidence, and never puts the ledger back.
LEMMA RecordKeeps ==
  ASSUME IInv, NEW h \in Holds, RecordHold(h), UNCHANGED <<transcripts, d1, brief, wf, accepted>>,
         faults' \in 0..MaxFaults
  PROVE  Grows /\ StoresTyped' /\ StoresOK'
<1>1. CASE UNCHANGED coord
  <2>1. Grows /\ StoresTyped'
    BY <1>1 DEF IInv, coord, Grows, StoresTyped
  <2>2. StoresOK'
    BY <1>1 DEF IInv, coord, StoresOK, ConfirmedExists, ReceiptFirst, AcceptedIsDurable, AcceptedIsSettled,
                NeverHeldOnceMoved, Has
  <2>3. QED
    BY <2>1, <2>2
<1>2. CASE HeldLedger(h)
  <2>1. <<"required", h>> \in Events /\ Confirmed # <<"required", h>>
    BY DEF Events, EventTypes, Confirmed
  <2>2. evidence' \in Seq(Events) /\ \A e : Has(evidence', e) <=> Has(evidence, e) \/ e = <<"required", h>>
    <3>1. evidence \in Seq(Events) /\ evidence' = Added(evidence, <<"required", h>>)
      BY <1>2 DEF HeldLedger, IInv, StoresTyped
    <3>2. QED
      BY <2>1, <3>1, AddedKeeps
  <2>3. Grows
    BY <1>2 DEF HeldLedger, Grows
  <2>4. StoresTyped'
    BY <1>2, <2>2 DEF IInv, HeldLedger, StoresTyped, Ledgers, Statuses
  <2>5. ConfirmedExists'
    BY <2>1, <2>2 DEF IInv, StoresOK, ConfirmedExists
  <2>6. ReceiptFirst' /\ NeverHeldOnceMoved'
    BY <1>2 DEF IInv, HeldLedger, StoresOK, ReceiptFirst, NeverHeldOnceMoved
  <2>7. AcceptedIsDurable' /\ AcceptedIsSettled'
    BY <1>2, <2>2 DEF IInv, HeldLedger, StoresOK, AcceptedIsDurable, AcceptedIsSettled
  <2>8. QED
    BY <2>3, <2>4, <2>5, <2>6, <2>7 DEF StoresOK
<1>3. QED
  BY <1>1, <1>2 DEF RecordHold

LEMMA DecideKeeps ==
  ASSUME IInv, NEW r \in Requests, Decide(r)
  PROVE  IInv'
<1>1. CASE Fault /\ RecordHold("create") /\ Hold(r, "create")
  <2>1. faults' \in 0..MaxFaults
    BY <1>1, FaultsBounded DEF IInv, StoresTyped
  <2>2. Grows /\ StoresTyped' /\ StoresOK'
    BY <1>1, <2>1, RecordKeeps DEF Decide, Holds
  <2>3. Only(r) /\ req'[r].pc = "holdLedger" /\ req'[r].hold \in Holds /\ req'[r].text = req[r].text
    BY <1>1, HoldMoves DEF IInv, Holds
  <2>4. RequestOK(r)' /\ Enters(r)
    BY <2>2, <2>3, WithinRoute DEF Decide, At, RequestOK, Handoff
  <2>5. QED
    BY <2>2, <2>3, <2>4, StepKeeps
<1>2. CASE Fault /\ HoldConflicts("create") /\ End(r)
  BY <1>2, EndKeeps DEF Decide, HoldConflicts
<1>3. CASE UNCHANGED <<faults, coord>> /\ wf # "none" /\ Goto(r, "mark")
  <2>1. Only(r) /\ req'[r].pc = "mark" /\ req'[r].text = req[r].text
    BY <1>3, GotoMoves DEF IInv, Positions, Route
  <2>2. Grows
    BY <1>3 DEF Decide, Grows, coord
  <2>3. RequestOK(r)' /\ Enters(r)
    BY <1>3, <2>1, <2>2, WithinRoute DEF Decide, At, RequestOK, Handoff, Holding
  <2>4. QED
    BY <1>3, <2>1, <2>3, LookKeeps DEF Decide
<1>4. CASE UNCHANGED <<faults, coord>> /\ Goto(r, "create")
  BY <1>4, OnwardKeeps DEF Decide, At, Handoff, Route
<1>5. CASE UNCHANGED <<faults, coord>> /\ Hold(r, "create")
  <2>1. Only(r) /\ req'[r].pc = "holdLedger" /\ req'[r].hold \in Holds /\ req'[r].text = req[r].text
    BY <1>5, HoldMoves DEF IInv, Holds
  <2>2. Grows
    BY <1>5 DEF Decide, Grows, coord
  <2>3. RequestOK(r)' /\ Enters(r)
    BY <2>1, <2>2, WithinRoute DEF Decide, At, RequestOK, Handoff
  <2>4. QED
    BY <1>5, <2>1, <2>3, LookKeeps DEF Decide
<1>6. QED
  BY <1>1, <1>2, <1>3, <1>4, <1>5 DEF Decide, LookupUnknown

LEMMA CreateKeeps ==
  ASSUME IInv, NEW r \in Requests, Create(r)
  PROVE  IInv'
<1>1. PICK o \in Outcomes :
        /\ Costs(o)
        /\ wf' = IF o # "failed" /\ wf = "none" THEN "created" ELSE wf
        /\ Goto(r, IF o = "done" /\ wf = "none" THEN "mark" ELSE "lookAgain")
  BY DEF Create
<1>2. faults' \in 0..MaxFaults
  BY <1>1, CostsBounded DEF IInv, StoresTyped
<1>3. Only(r) /\ req'[r].text = req[r].text /\ ((req'[r].pc = "mark" /\ wf' # "none") \/ req'[r].pc = "lookAgain")
  <2>1. CASE o = "done" /\ wf = "none"
    BY <1>1, <2>1, GotoMoves DEF IInv, Positions, Route
  <2>2. CASE ~ (o = "done" /\ wf = "none")
    BY <1>1, <2>2, GotoMoves DEF IInv, Positions, Route
  <2>3. QED
    BY <2>1, <2>2
<1>4. Grows
  BY <1>1 DEF Create, Grows, coord
<1>5. RequestOK(r)' /\ Enters(r)
  BY <1>3, <1>4, WithinRoute DEF Create, At, RequestOK, Handoff, Holding
<1>6. StoresTyped'
  BY <1>1, <1>2 DEF IInv, StoresTyped, Create, coord
<1>7. StoresOK'
  BY <1>1 DEF IInv, Create, coord, StoresOK, ConfirmedExists, ReceiptFirst, AcceptedIsDurable, AcceptedIsSettled,
              NeverHeldOnceMoved, Has
<1>8. QED
  BY <1>3, <1>4, <1>5, <1>6, <1>7, StepKeeps

LEMMA LookAgainKeeps ==
  ASSUME IInv, NEW r \in Requests, LookAgain(r)
  PROVE  IInv'
<1>1. Grows
  BY DEF LookAgain, Grows
<1>2. CASE wf # "none" /\ Goto(r, "mark") /\ UNCHANGED <<starts, faults>>
  <2>1. Only(r) /\ req'[r].pc = "mark" /\ req'[r].text = req[r].text
    BY <1>2, GotoMoves DEF IInv, Positions, Route
  <2>2. RequestOK(r)' /\ Enters(r)
    BY <1>1, <1>2, <2>1, WithinRoute DEF LookAgain, At, RequestOK, Handoff, Holding
  <2>3. QED
    BY <1>2, <2>1, <2>2, LookKeeps DEF LookAgain, coord
<1>3. CASE End(r) /\ UNCHANGED <<starts, faults>>
  BY <1>3, EndKeeps DEF LookAgain, coord
<1>4. CASE Fault /\ starts' = "unknown" /\ Hold(r, "create")
  <2>1. Only(r) /\ req'[r].pc = "holdLedger" /\ req'[r].hold \in Holds /\ req'[r].text = req[r].text
    BY <1>4, HoldMoves DEF IInv, Holds
  <2>2. RequestOK(r)' /\ Enters(r)
    BY <1>1, <2>1, WithinRoute DEF LookAgain, At, RequestOK, Handoff
  <2>3. StoresTyped'
    BY <1>4, FaultsBounded DEF IInv, StoresTyped, LookAgain
  <2>4. StoresOK'
    BY DEF IInv, LookAgain, StoresOK, ConfirmedExists, ReceiptFirst, AcceptedIsDurable, AcceptedIsSettled,
           NeverHeldOnceMoved, Has
  <2>5. QED
    BY <1>1, <2>1, <2>2, <2>3, <2>4, StepKeeps
<1>5. QED
  BY <1>2, <1>3, <1>4 DEF LookAgain

LEMMA MarkKeeps ==
  ASSUME IInv, NEW r \in Requests, MarkStarted(r)
  PROVE  IInv'
<1>1. wf # "none"
  BY DEF MarkStarted, At, IInv, RequestOK
<1>2. Only(r) /\ req'[r].pc = "readD1" /\ req'[r].text = req[r].text
  BY GotoMoves DEF MarkStarted, IInv, Positions, Route
<1>3. Grows
  BY DEF MarkStarted, Grows
<1>4. RequestOK(r)' /\ Enters(r)
  BY <1>2, <1>3, WithinRoute DEF MarkStarted, At, RequestOK, Handoff, Holding
<1>5. evidence' \in Seq(Events) /\ \A e : Has(evidence, e) => Has(evidence', e)
  <2>1. Confirmed \in Events /\ evidence \in Seq(Events)
    BY DEF Confirmed, Events, IInv, StoresTyped
  <2>2. Added(evidence, Confirmed) \in Seq(Events) /\ \A e : Has(evidence, e) => Has(Added(evidence, Confirmed), e)
    BY <2>1, AddedKeeps
  <2>3. evidence' = evidence \/ evidence' = Added(evidence, Confirmed)
    BY DEF MarkStarted
  <2>4. QED
    BY <2>1, <2>2, <2>3
<1>6. StoresTyped'
  BY <1>5 DEF IInv, StoresTyped, MarkStarted, Ledgers, Statuses
<1>7. ConfirmedExists'
  BY <1>1 DEF MarkStarted, ConfirmedExists
<1>8. AcceptedIsDurable' /\ AcceptedIsSettled'
  BY <1>1, <1>5 DEF IInv, MarkStarted, StoresOK, AcceptedIsDurable, AcceptedIsSettled
<1>9. ReceiptFirst' /\ NeverHeldOnceMoved'
  BY DEF IInv, MarkStarted, StoresOK, ReceiptFirst, NeverHeldOnceMoved
<1>10. QED
  BY <1>2, <1>3, <1>4, <1>6, <1>7, <1>8, <1>9, StepKeeps DEF StoresOK

-----------------------------------------------------------------------------
(* Holding a start. *)

LEMMA HoldLedgerKeeps ==
  ASSUME IInv, NEW r \in Requests, HoldLedger(r)
  PROVE  IInv'
<1>1. req[r].hold \in Holds
  BY DEF HoldLedger, At, IInv, RequestOK, Holding
<1>2. CASE RecordHold(req[r].hold) /\ Goto(r, "holdRead")
  <2>1. Grows /\ StoresTyped' /\ StoresOK'
    BY <1>1, <1>2, RecordKeeps DEF HoldLedger, IInv, StoresTyped
  <2>2. Only(r) /\ req'[r].pc = "holdRead" /\ req'[r].hold = req[r].hold /\ req'[r].text = req[r].text
    BY <1>2, GotoMoves DEF IInv, Positions, Holding
  <2>3. RequestOK(r)' /\ Enters(r)
    BY <1>1, <2>1, <2>2, WithinRoute DEF HoldLedger, At, RequestOK, Handoff
  <2>4. QED
    BY <2>1, <2>2, <2>3, StepKeeps
<1>3. CASE HoldConflicts(req[r].hold) /\ End(r)
  BY <1>3, EndKeeps DEF HoldLedger, HoldConflicts
<1>4. QED
  BY <1>2, <1>3 DEF HoldLedger

LEMMA ReadForHoldKeeps ==
  ASSUME IInv, NEW r \in Requests, ReadForHold(r)
  PROVE  IInv'
<1>1. req[r].hold \in Holds /\ req[r] \in Request
  BY DEF ReadForHold, At, IInv, RequestOK, Holding
<1>2. Grows
  BY DEF ReadForHold, Grows, coord
<1>3. CASE d1.state = "needs_action"
  <2>1. AfterHold(req[r].hold) \in {"readD1", "afterBriefHold"}
    BY DEF AfterHold
  <2>2. Only(r) /\ req'[r].pc = AfterHold(req[r].hold) /\ req'[r].hold = req[r].hold /\ req'[r].text = req[r].text
    BY <1>3, <2>1, GotoMoves DEF ReadForHold, IInv, Positions, Holding, Route
  <2>3. RequestOK(r)' /\ Enters(r)
    BY <1>1, <1>2, <2>1, <2>2, WithinRoute DEF ReadForHold, At, RequestOK, Handoff
  <2>4. QED
    BY <2>2, <2>3, LookKeeps DEF ReadForHold
<1>4. CASE d1.state = "queued"
  <2>1. req' = [req EXCEPT ![r].pc = "holdWrite", ![r].seen = d1.log] /\ d1.log \in Logs
    BY <1>4 DEF ReadForHold, IInv, StoresTyped
  <2>2. Only(r) /\ req'[r].pc = "holdWrite" /\ req'[r].hold = req[r].hold /\ req'[r].text = req[r].text
    BY <2>1, SeenMoves DEF IInv, Positions, Holding
  <2>3. RequestOK(r)' /\ Enters(r)
    BY <1>1, <1>2, <2>2, WithinRoute DEF ReadForHold, At, RequestOK, Handoff
  <2>4. QED
    BY <2>2, <2>3, LookKeeps DEF ReadForHold
<1>5. CASE d1.state \notin {"needs_action", "queued"}
  BY <1>5, EndKeeps DEF ReadForHold
<1>6. QED
  BY <1>3, <1>4, <1>5

LEMMA AfterBriefHoldKeeps ==
  ASSUME IInv, NEW r \in Requests, AfterBriefHold(r)
  PROVE  IInv'
<1>1. CASE End(r)
  BY <1>1, EndKeeps DEF AfterBriefHold
<1>2. CASE Goto(r, "lookup")
  BY <1>2, OnwardKeeps DEF AfterBriefHold, At, Handoff, Route
<1>3. QED
  BY <1>1, <1>2 DEF AfterBriefHold

\* A write of D1 adds one event; it is reconciled only under a receipt.
LEMMA WriteKeeps ==
  ASSUME IInv, NEW r \in Requests, NEW type \in EventTypes, NEW h \in Holds, NEW state \in D1States \ {"absent"},
         Written(r, state, <<type, h>>) \/ Replayed(<<type, h>>), type # "required" => h \in receipts,
         UNCHANGED <<transcripts, coord, brief, wf, accepted, faults>>
  PROVE  Grows /\ StoresTyped' /\ StoresOK' /\ d1'.log \in Logs
<1>1. CASE Replayed(<<type, h>>)
  <2>1. Grows /\ StoresTyped' /\ d1'.log \in Logs
    BY <1>1 DEF Replayed, IInv, coord, Grows, StoresTyped
  <2>2. StoresOK'
    BY <1>1 DEF Replayed, IInv, coord, StoresOK, ConfirmedExists, ReceiptFirst, AcceptedIsDurable, AcceptedIsSettled,
                NeverHeldOnceMoved, Has
  <2>3. QED
    BY <2>1, <2>2
<1>2. CASE Written(r, state, <<type, h>>)
  <2>1. d1' = [state |-> state, log |-> Append(d1.log, <<type, h>>)] /\ d1.state # "moved" /\ d1.log \in Logs
    BY <1>2 DEF Written, IInv, StoresTyped
  <2>2. <<type, h>> \in EventTypes \X Holds
    OBVIOUS
  <2>3. d1'.log \in Logs /\ \A n \in DOMAIN d1'.log : (n \in DOMAIN d1.log /\ d1'.log[n] = d1.log[n]) \/ d1'.log[n] = <<type, h>>
    BY <2>1, <2>2 DEF Logs
  <2>4. Grows
    BY <2>1 DEF Grows, coord
  <2>5. StoresTyped'
    BY <2>1, <2>3 DEF IInv, StoresTyped, coord
  <2>6. ReceiptFirst'
    BY <2>3 DEF IInv, StoresOK, ReceiptFirst, coord
  <2>7. NeverHeldOnceMoved'
    BY <2>1 DEF IInv, StoresOK, NeverHeldOnceMoved
  <2>8. ConfirmedExists' /\ AcceptedIsDurable' /\ AcceptedIsSettled'
    BY <2>1 DEF IInv, coord, StoresOK, ConfirmedExists, AcceptedIsDurable, AcceptedIsSettled, Has
  <2>9. QED
    BY <2>3, <2>4, <2>5, <2>6, <2>7, <2>8 DEF StoresOK
<1>3. QED
  BY <1>1, <1>2

LEMMA HoldPublicationKeeps ==
  ASSUME IInv, NEW r \in Requests, HoldPublication(r)
  PROVE  IInv'
<1>1. req[r].hold \in Holds
  BY DEF HoldPublication, At, IInv, RequestOK, Holding
<1> DEFINE e == <<"required", req[r].hold>>
<1>2. CASE (Written(r, "needs_action", e) \/ Replayed(e)) /\ Goto(r, AfterHold(req[r].hold))
  <2>1. Grows /\ StoresTyped' /\ StoresOK'
    <3>1. "required" \in EventTypes /\ "needs_action" \in D1States \ {"absent"}
      BY DEF EventTypes, D1States
    <3>2. QED
      BY <1>1, <1>2, <3>1, WriteKeeps DEF HoldPublication
  <2>2. AfterHold(req[r].hold) \in {"readD1", "afterBriefHold"}
    BY DEF AfterHold
  <2>3. Only(r) /\ req'[r].pc = AfterHold(req[r].hold) /\ req'[r].hold = req[r].hold /\ req'[r].text = req[r].text
    BY <1>2, <2>2, GotoMoves DEF IInv, Positions, Holding, Route
  <2>4. RequestOK(r)' /\ Enters(r)
    BY <1>1, <2>1, <2>2, <2>3, WithinRoute DEF HoldPublication, At, RequestOK, Handoff
  <2>5. QED
    BY <2>1, <2>3, <2>4, StepKeeps
<1>3. CASE Conflicts(r, e) /\ End(r)
  BY <1>3, EndKeeps DEF HoldPublication, Conflicts
<1>4. QED
  BY <1>2, <1>3 DEF HoldPublication

-----------------------------------------------------------------------------
(* reconcilePreStartHold. *)

LEMMA ReadHoldKeeps ==
  ASSUME IInv, NEW r \in Requests, ReadHold(r)
  PROVE  IInv'
<1>1. req[r].hold \in Holds /\ req[r].after # "none"
  BY DEF ReadHold, At, IInv, RequestOK, Holding
<1>2. CASE End(r)
  BY <1>2, EndKeeps DEF ReadHold
<1>3. CASE req' = [req EXCEPT ![r].pc = "receipt", ![r].seen = d1.log]
  <2>1. /\ Only(r) /\ req'[r].pc = "receipt" /\ req'[r].hold = req[r].hold /\ req'[r].text = req[r].text
        /\ req'[r].after = req[r].after
    BY <1>3, SeenMoves DEF IInv, StoresTyped, Positions, Holding
  <2>2. Grows
    BY DEF ReadHold, Grows, coord
  <2>3. RequestOK(r)' /\ Enters(r)
    BY <1>1, <2>1, <2>2, WithinRoute DEF ReadHold, At, RequestOK, Handoff
  <2>4. QED
    BY <2>1, <2>3, LookKeeps DEF ReadHold
<1>4. QED
  BY <1>2, <1>3 DEF ReadHold

LEMMA PrepareKeeps ==
  ASSUME IInv, NEW r \in Requests, PrepareReconciliation(r)
  PROVE  IInv'
<1>1. req[r].hold \in Holds /\ req[r].after # "none"
  BY DEF PrepareReconciliation, At, IInv, RequestOK, Holding
<1>2. CASE End(r) /\ UNCHANGED <<evidence, receipts>>
  BY <1>2, EndKeeps DEF PrepareReconciliation, coord
<1>3. CASE /\ evidence' = Added(evidence, <<"reconciled", req[r].hold>>)
           /\ receipts' = receipts \cup {req[r].hold} /\ Goto(r, "events")
  <2> DEFINE e == <<"reconciled", req[r].hold>>
  <2>1. e \in Events /\ Confirmed # e /\ evidence \in Seq(Events)
    BY <1>1 DEF Events, EventTypes, Confirmed, IInv, StoresTyped
  <2>a. Added(evidence, e) \in Seq(Events) /\ \A x : Has(Added(evidence, e), x) <=> Has(evidence, x) \/ x = e
    <3> HIDE DEF e
    <3> QED
      BY <2>1, AddedKeeps
  <2>2. evidence' \in Seq(Events) /\ \A x : Has(evidence', x) <=> Has(evidence, x) \/ x = e
    <3>1. evidence' = Added(evidence, e)
      BY <1>3
    <3> QED
      BY <2>a, <3>1 DEF Has
  <2>3. /\ Only(r) /\ req'[r].pc = "events" /\ req'[r].hold = req[r].hold /\ req'[r].text = req[r].text
        /\ req'[r].after = req[r].after
    BY <1>3, GotoMoves DEF IInv, Positions, Holding
  <2>4. Grows
    BY <1>3 DEF PrepareReconciliation, Grows
  <2>5. RequestOK(r)' /\ Enters(r)
    BY <1>1, <1>3, <2>3, <2>4, WithinRoute DEF PrepareReconciliation, At, RequestOK, Handoff
  <2>6. StoresTyped'
    BY <1>1, <1>3, <2>2 DEF IInv, StoresTyped, PrepareReconciliation
  <2>7. ConfirmedExists'
    BY <2>1, <2>2 DEF IInv, StoresOK, ConfirmedExists, PrepareReconciliation
  <2>8. ReceiptFirst' /\ NeverHeldOnceMoved'
    BY <1>3 DEF IInv, PrepareReconciliation, StoresOK, ReceiptFirst, NeverHeldOnceMoved
  <2>9. AcceptedIsDurable' /\ AcceptedIsSettled'
    BY <2>2 DEF IInv, PrepareReconciliation, StoresOK, AcceptedIsDurable, AcceptedIsSettled
  <2>10. QED
    BY <2>3, <2>4, <2>5, <2>6, <2>7, <2>8, <2>9, StepKeeps DEF StoresOK
<1>4. QED
  BY <1>2, <1>3 DEF PrepareReconciliation, PrepareReceipt

LEMMA WriteEventKeeps ==
  ASSUME IInv, NEW r \in Requests, WriteEvent(r)
  PROVE  IInv'
<1>1. req[r].hold \in receipts /\ req[r].hold \in Holds /\ req[r].after # "none" /\ req[r] \in Request
  BY DEF WriteEvent, At, IInv, RequestOK, Holding
<1> DEFINE type == Pending(req[r].seen)
           e == <<type, req[r].hold>>
<1>2. CASE type = "none" /\ Goto(r, "finalize") /\ UNCHANGED d1
  <2>1. /\ Only(r) /\ req'[r].pc = "finalize" /\ req'[r].hold = req[r].hold /\ req'[r].text = req[r].text
        /\ req'[r].after = req[r].after
    BY <1>2, GotoMoves DEF IInv, Positions, Holding
  <2>2. Grows
    BY <1>2 DEF WriteEvent, Grows, coord
  <2>3. RequestOK(r)' /\ Enters(r)
    BY <1>1, <2>1, <2>2, WithinRoute DEF WriteEvent, At, RequestOK, Handoff
  <2>4. QED
    BY <1>2, <2>1, <2>3, LookKeeps DEF WriteEvent
<1>3. CASE type # "none" /\ (Written(r, StateAfter(type), e) \/ Replayed(e)) /\ req' = [req EXCEPT ![r].seen = d1'.log]
  <2>1. type \in {"reconciled", "retrying", "queued"}
    BY <1>3 DEF Pending
  <2>2. type \in EventTypes /\ StateAfter(type) \in D1States \ {"absent"}
    BY <2>1 DEF EventTypes, StateAfter, D1States
  <2> HIDE DEF type
  <2>3. Grows /\ StoresTyped' /\ StoresOK' /\ d1'.log \in Logs
    BY <1>1, <1>3, <2>2, WriteKeeps DEF WriteEvent
  <2>4. req'[r] = [req[r] EXCEPT !.seen = d1'.log] /\ req'[r] \in Request
    BY <1>1, <1>3, <2>3 DEF IInv, Request
  <2>5. /\ Only(r) /\ req'[r].pc = "events" /\ req'[r].hold = req[r].hold /\ req'[r].text = req[r].text
        /\ req'[r].after = req[r].after
    BY <1>1, <1>3, <2>4 DEF WriteEvent, At, IInv, Only, Request
  <2>6. RequestOK(r)' /\ Enters(r)
    BY <1>1, <2>3, <2>5, WithinRoute DEF WriteEvent, At, RequestOK, Handoff, Grows
  <2>7. QED
    BY <2>3, <2>5, <2>6, StepKeeps
<1>4. CASE Conflicts(r, e) /\ End(r)
  BY <1>4, EndKeeps DEF WriteEvent, Conflicts
<1>5. QED
  BY <1>2, <1>3, <1>4 DEF WriteEvent

LEMMA FinalizeKeeps ==
  ASSUME IInv, NEW r \in Requests, FinalizeReconciliation(r)
  PROVE  IInv'
<1>1. req[r].after \in {"lookup", "storeBrief"}
  BY DEF FinalizeReconciliation, At, IInv, RequestOK, Request
<1>2. CASE End(r) /\ UNCHANGED <<ledger, starts>>
  BY <1>2, EndKeeps DEF FinalizeReconciliation, coord
<1>3. CASE /\ ledger.status \in {"needs_action", "reconciled"} /\ ledger' = [ledger EXCEPT !.status = "reconciled"]
           /\ starts' = IF ledger.status = "reconciled" THEN starts ELSE "reconciled"
           /\ Goto(r, req[r].after)
  <2>1. Only(r) /\ req'[r].pc = req[r].after /\ req'[r].text = req[r].text
    BY <1>1, <1>3, GotoMoves DEF IInv, Positions, Route
  <2>2. Grows
    BY DEF FinalizeReconciliation, Grows
  <2>3. RequestOK(r)' /\ Enters(r)
    BY <1>1, <2>1, <2>2, WithinRoute DEF FinalizeReconciliation, At, RequestOK, Handoff, Holding
  <2>4. StoresTyped'
    BY <1>3 DEF IInv, StoresTyped, FinalizeReconciliation, Ledgers, Statuses
  <2>5. StoresOK'
    BY <1>3, <2>4 DEF IInv, FinalizeReconciliation, StoresTyped, StoresOK, ConfirmedExists, ReceiptFirst, AcceptedIsDurable,
                      AcceptedIsSettled, NeverHeldOnceMoved, Has, Ledgers
  <2>6. QED
    BY <2>1, <2>2, <2>3, <2>4, <2>5, StepKeeps
<1>4. QED
  BY <1>2, <1>3 DEF FinalizeReconciliation

-----------------------------------------------------------------------------
(* The proof, the end of a request, and the Workflow. *)

LEMMA ReadD1Keeps ==
  ASSUME IInv, NEW r \in Requests, ReadD1(r)
  PROVE  IInv'
<1>1. CASE End(r)
  BY <1>1, EndKeeps DEF ReadD1
<1>2. CASE /\ d1.state # "absent" /\ brief = "mirrored"
           /\ req' = [req EXCEPT ![r].pc = "prove", ![r].seen = d1.log, ![r].start = d1.state]
  <2>1. req[r] \in Request /\ d1.log \in Logs /\ d1.state \in D1States
    BY DEF IInv, StoresTyped
  <2>2. req'[r] = [req[r] EXCEPT !.pc = "prove", !.seen = d1.log, !.start = d1.state] /\ req'[r] \in Request
    BY <1>2, <2>1 DEF IInv, Request, Positions, Route
  <2>3. Only(r) /\ req'[r].pc = "prove" /\ req'[r].text = req[r].text
    BY <1>2, <2>1, <2>2 DEF IInv, Only, Request
  <2>4. Grows
    BY DEF ReadD1, Grows, coord
  <2>5. RequestOK(r)' /\ Enters(r)
    BY <1>2, <2>3, <2>4, WithinRoute DEF ReadD1, At, RequestOK, Handoff, Holding
  <2>6. QED
    BY <2>3, <2>5, LookKeeps DEF ReadD1
<1>3. QED
  BY <1>1, <1>2 DEF ReadD1

\* What proves a start, or the doubt about it, is there to stay.
LEMMA ProvenIsKept ==
  ASSUME IInv, NEW log, NEW state, Proven(log, state)
  PROVE  /\ ledger.status \notin {"absent", "intent"}
         /\ wf # "none" \/ Has(evidence, <<"required", "create">>)
<1>1. CASE ProvesStarted(log)
  <2>1. Has(evidence, Confirmed)
    <3>1. CASE evidence = <<Confirmed>>
      <4>1. 1 \in DOMAIN evidence /\ evidence[1] = Confirmed
        BY <3>1
      <4>2. QED
        BY <4>1 DEF Has
    <3>2. CASE evidence = <<Recovery[1], Recovery[2], Confirmed>>
      <4>1. 3 \in DOMAIN evidence /\ evidence[3] = Confirmed
        BY <3>2
      <4>2. QED
        BY <4>1 DEF Has
    <3>3. QED
      BY <1>1, <3>1, <3>2 DEF ProvesStarted
  <2>2. QED
    BY <1>1, <2>1 DEF ProvesStarted, IInv, StoresOK, ConfirmedExists
<1>2. CASE ProvesHold(log)
  <2>1. ledger.status \in {"needs_action", "reconciled"}
    BY <1>2 DEF ProvesHold, HeldFor
  <2>2. 1 \in DOMAIN evidence /\ evidence[1] = Recovery[1]
    <3>1. CASE evidence = <<Recovery[1]>>
      BY <3>1
    <3>2. CASE evidence = <<Recovery[1], Recovery[2]>>
      BY <3>2
    <3>3. QED
      BY <1>2, <3>1, <3>2 DEF ProvesHold
  <2>3. Recovery[1] = <<"required", "create">>
    BY DEF Recovery
  <2>4. QED
    BY <2>1, <2>2, <2>3 DEF Has
<1>3. QED
  BY <1>1, <1>2 DEF Proven

LEMMA ProveKeeps ==
  ASSUME IInv, NEW r \in Requests, Prove(r)
  PROVE  IInv'
<1>1. Only(r) /\ Enters(r) /\ RequestOK(r)'
  BY EndMoves DEF IInv, Prove
<1>2. transcripts # {} /\ brief = "mirrored" /\ d1.state # "absent"
  BY DEF Prove, At, IInv, RequestOK, Handoff
<1>3. accepted' \in BOOLEAN /\ (accepted' => accepted \/ Proven(req[r].seen, req[r].start))
  BY DEF Prove, IInv, StoresTyped
<1>4. Grows
  BY DEF Prove, Grows, coord
<1>5. StoresTyped'
  BY <1>3 DEF IInv, StoresTyped, Prove, coord
<1>6. ConfirmedExists' /\ ReceiptFirst' /\ NeverHeldOnceMoved'
  BY DEF IInv, Prove, coord, StoresOK, ConfirmedExists, ReceiptFirst, NeverHeldOnceMoved, Has
<1>7. AcceptedIsDurable' /\ AcceptedIsSettled'
  <2>1. CASE accepted
    BY <2>1 DEF IInv, Prove, coord, StoresOK, AcceptedIsDurable, AcceptedIsSettled, Has
  <2>2. CASE ~ accepted'
    BY <2>2 DEF AcceptedIsDurable, AcceptedIsSettled
  <2>3. CASE Proven(req[r].seen, req[r].start)
    <3>1. ledger.status \notin {"absent", "intent"} /\ (wf # "none" \/ Has(evidence, <<"required", "create">>))
      BY <2>3, ProvenIsKept
    <3>2. QED
      BY <1>2, <3>1 DEF Prove, coord, AcceptedIsDurable, AcceptedIsSettled, Has
  <2>4. QED
    BY <1>3, <2>1, <2>2, <2>3
<1>8. QED
  BY <1>1, <1>4, <1>5, <1>6, <1>7, StepKeeps DEF StoresOK

LEMMA WorkflowKeeps ==
  ASSUME IInv, WorkflowNext
  PROVE  IInv'
<1>1. Grows
  BY DEF WorkflowNext, Confirm, GiveUp, Transcribe, MoveCoordinator, Grows, coord, IInv, StoresTyped
<1>2. req' = req /\ transcripts' = transcripts /\ evidence' = evidence /\ receipts' = receipts /\ accepted' = accepted
      /\ ledger' = ledger /\ brief' = brief /\ d1'.log = d1.log /\ wf' # "none"
  BY DEF WorkflowNext, Confirm, GiveUp, Transcribe, MoveCoordinator, coord, IInv, StoresTyped
<1>3. \A s \in Requests : RequestOK(s)'
  BY <1>1, <1>2, RequestKept DEF IInv
<1>4. StoresTyped'
  BY DEF WorkflowNext, Confirm, GiveUp, Transcribe, MoveCoordinator, coord, IInv, StoresTyped, D1States
<1>5. NeverHeldOnceMoved'
  BY DEF WorkflowNext, Confirm, GiveUp, Transcribe, MoveCoordinator, coord, IInv, StoresTyped, StoresOK, NeverHeldOnceMoved
<1>6. ConfirmedExists' /\ ReceiptFirst' /\ AcceptedIsDurable' /\ AcceptedIsSettled'
  BY <1>1, <1>2 DEF IInv, Grows, StoresOK, ConfirmedExists, ReceiptFirst, AcceptedIsDurable, AcceptedIsSettled, Has
<1>7. OneTranscript'
  BY <1>2 DEF IInv, OneTranscript
<1>8. QED
  BY <1>2, <1>3, <1>4, <1>5, <1>6, <1>7 DEF IInv, StoresOK

-----------------------------------------------------------------------------
(* The theorems. *)

LEMMA InitInv == Init => IInv
<1> SUFFICES ASSUME Init
             PROVE  IInv
  OBVIOUS
<1>1. <<>> \in Logs /\ <<>> \in Seq(Events)
  BY DEF Logs
<1>2. Idle \in Request
  BY <1>1 DEF Idle, Request, Positions, Handoff
<1>3. req \in [Requests -> Request]
  BY <1>2 DEF Init
<1>4. StoresTyped
  <2>1. d1 \in [state : D1States, log : Logs] /\ ledger \in Ledgers
    BY <1>1 DEF Init, D1States, Ledgers, Statuses
  <2>2. transcripts \subseteq Texts /\ evidence \in Seq(Events) /\ receipts \subseteq Holds /\ faults \in 0..MaxFaults
    BY <1>1, RunStartOK DEF Init
  <2>3. QED
    BY <2>1, <2>2 DEF Init, StoresTyped
<1>5. \A r \in Requests : RequestOK(r)
  BY DEF Init, RequestOK, Idle, Handoff, Holding
<1>6. OneTranscript
  BY DEF Init, OneTranscript, Idle
<1>7. StoresOK
  BY DEF Init, StoresOK, ConfirmedExists, ReceiptFirst, AcceptedIsDurable, AcceptedIsSettled, NeverHeldOnceMoved, Has
<1>8. QED
  BY <1>3, <1>4, <1>5, <1>6, <1>7 DEF IInv

LEMMA NextInv == IInv /\ [Next]_vars => IInv'
<1> SUFFICES ASSUME IInv, [Next]_vars
             PROVE  IInv'
  OBVIOUS
<1>1. CASE UNCHANGED vars
  <2>1. StoresTyped' /\ OneTranscript' /\ StoresOK' /\ req' = req
    BY <1>1 DEF vars, coord, IInv, StoresTyped, OneTranscript, StoresOK, ConfirmedExists, ReceiptFirst, AcceptedIsDurable,
                AcceptedIsSettled, NeverHeldOnceMoved, Has
  <2>2. \A r \in Requests : RequestOK(r)'
    BY <1>1 DEF vars, coord, IInv, RequestOK
  <2>3. QED
    BY <2>1, <2>2 DEF IInv
<1>2. ASSUME NEW r \in Requests, Begin(r) \/ AskStatus(r)
      PROVE  IInv'
  BY <1>2, BeginKeeps, AskStatusKeeps
<1>3. ASSUME NEW r \in Requests, RouteNext(r)
      PROVE  IInv'
  BY <1>3, FindKeeps, PutKeeps, RereadKeeps, RegisterKeeps, StartRunKeeps, PlanKeeps, CheckBriefKeeps, CheckWorkflowKeeps,
     StoreBriefKeeps, LookUpKeeps, DecideKeeps, CreateKeeps, LookAgainKeeps, MarkKeeps, HoldLedgerKeeps, ReadForHoldKeeps,
     HoldPublicationKeeps, AfterBriefHoldKeeps, ReadHoldKeeps, PrepareKeeps, WriteEventKeeps, FinalizeKeeps, ReadD1Keeps,
     ProveKeeps DEF RouteNext
<1>4. ASSUME NEW r \in Requests, Die(r)
      PROVE  IInv'
  BY <1>4, EndKeeps DEF Die
<1>5. CASE WorkflowNext
  BY <1>5, WorkflowKeeps
<1>6. QED
  BY <1>1, <1>2, <1>3, <1>4, <1>5 DEF Next

\* What a request found stays true until it acts on it: the invariant behind
\* persistTranscript, startFiveAgentWorkflow and acceptedRunProof.
THEOREM Invariance == Spec => []IInv
<1>1. QED
  BY InitInv, NextInv, PTL DEF Spec

\* Two recognitions of one recording never start two runs (persistTranscript).
THEOREM TranscriptCorrect == Spec => []OneTranscript
<1>1. IInv => OneTranscript
  BY DEF IInv
<1>2. QED
  BY <1>1, Invariance, PTL

\* A start is confirmed only for an instance there is, leaves its hold only under
\* a receipt, and is accepted only with everything kept (the start ledger).
THEOREM StartCorrect == Spec => []StartIsProven
<1>1. IInv => StartIsProven
  <2> SUFFICES ASSUME IInv
               PROVE  StartIsProven
    OBVIOUS
  <2>1. TypeOK
    BY DEF IInv, StoresTyped, TypeOK, D1States, Logs, Ledgers, Statuses
  <2>2. QED
    BY <2>1 DEF IInv, StoresOK, StartIsProven
<1>2. QED
  BY <1>1, Invariance, PTL

\* The ledger leaves a hold only with the hold's receipt or with an instance in
\* sight, and no run that has begun is held (reconcilePreStartHold).
THEOREM HoldsCorrect == Spec => HoldsForDoubtOnly
<1> DEFINE Left == ledger.status = "needs_action" /\ ledger'.status # "needs_action" => ledger.hold \in receipts \/ wf # "none"
<1>1. IInv /\ [Next]_vars => [Left]_vars
  <2> SUFFICES ASSUME IInv, [Next]_vars, ledger.status = "needs_action", ledger'.status # "needs_action"
               PROVE  ledger.hold \in receipts \/ wf # "none"
    OBVIOUS
  <2>1. ASSUME NEW r \in Requests, FinalizeReconciliation(r)
        PROVE  ledger.hold \in receipts
    BY <2>1 DEF FinalizeReconciliation
  <2>2. ASSUME NEW r \in Requests, MarkStarted(r)
        PROVE  wf # "none"
    BY <2>2 DEF MarkStarted, At, IInv, RequestOK
  <2>3. ASSUME NEW r \in Requests, StartRun(r) \/ Decide(r) \/ HoldLedger(r)
        PROVE  FALSE
    BY <2>3 DEF StartRun, Decide, HoldLedger, LookupUnknown, RecordHold, HeldLedger, HoldConflicts, coord
  <2>4. CASE ledger' = ledger
    BY <2>4
  <2>5. ASSUME NEW r \in Requests, RouteNext(r), ledger' # ledger
        PROVE  FinalizeReconciliation(r) \/ MarkStarted(r) \/ StartRun(r) \/ Decide(r) \/ HoldLedger(r)
    BY <2>5 DEF RouteNext, FindTranscript, PutTranscript, RereadTranscript, Register, Plan, CheckBrief, CheckWorkflow,
                StoreBrief, LookUp, Create, LookAgain, ReadForHold, HoldPublication, AfterBriefHold, ReadHold,
                PrepareReconciliation, WriteEvent, ReadD1, Prove, coord
  <2>6. CASE Next /\ ledger' # ledger
    <3>1. ASSUME NEW r \in Requests, Begin(r) \/ AskStatus(r) \/ Die(r)
          PROVE  FALSE
      BY <2>6, <3>1 DEF Begin, AskStatus, Die, coord
    <3>2. CASE WorkflowNext
      BY <2>6, <3>2 DEF WorkflowNext, Confirm, GiveUp, Transcribe, MoveCoordinator, coord
    <3>3. QED
      BY <2>1, <2>2, <2>3, <2>5, <2>6, <3>1, <3>2 DEF Next
  <2>7. QED
    BY <2>4, <2>6 DEF vars, coord
<1>2. IInv => NeverHeldOnceMoved
  BY DEF IInv, StoresOK
<1>3. QED
  BY <1>1, <1>2, Invariance, PTL DEF HoldsForDoubtOnly, HoldLeftOnEvidence, Spec
=============================================================================
