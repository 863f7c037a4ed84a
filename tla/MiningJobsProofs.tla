--------------------------- MODULE MiningJobsProofs ---------------------------
(***************************************************************************)
(* Proofs about MiningJobs for every set of job runs and inputs, with and  *)
(* without the clean-up of undecodable audio, and any number of failed     *)
(* calls, lost answers and deaths.                                         *)
(***************************************************************************)
EXTENDS MiningJobs, TLAPS

-----------------------------------------------------------------------------
(* The invariant. *)

Results == {"draft", "article", "empty", "invalid", "v3"}

Positions == [pc : Steps \cup {"idle"}, todo : SUBSET Inputs, input : Inputs \cup {"none"}, saved : BOOLEAN,
              result : Results \cup {"none"}, step : 1..4]
Runs == {b \in Positions : b.pc = "idle" => b.input = "none"}

Typed ==
  /\ content \in [Inputs -> {"speech", "empty", "invalid"}] /\ eligible \subseteq Inputs /\ inbox \subseteq Inputs
  /\ claim \in [Inputs -> Claims]
  /\ v3 \in [Inputs -> {"off", "pending", "started"}]
  /\ transcript \in [Inputs -> Stages] /\ status \in [Inputs -> Statuses]
  /\ drafts \in [Inputs -> Nat] /\ expiries \in [Inputs -> Nat] /\ faults \in 0..MaxFaults
  /\ job \in [Jobs -> Runs]

Working(j) == job[j].pc \notin {"idle", "next"}

\* What a settlement was begun for, and what its first step has done.
SettleOK(j) ==
  LET b == job[j]
      i == b.input
  IN
  /\ b.result \in Results /\ b.step \in DOMAIN Settlement[b.result]
  /\ b.result = "draft" => b.saved
  /\ b.result \in {"draft", "article"} => i \notin eligible
  /\ b.result = "article" /\ b.step # 1 => transcript[i] # "none"
  /\ b.result \in {"empty", "invalid"} => content[i] # "speech"
  /\ b.result = "v3" => v3[i] = "started"

\* A job at work answers for its claim, or has closed it; it has published
\* nothing under this lease before it comes to the draft, and gives the input
\* back only then.
JobOK(j) ==
  LET b == job[j]
      i == b.input
  IN
  Working(j) =>
    /\ i \in Inputs
    /\ (Owns(j, i) /\ ~ claim[i].expired) \/ claim[i].state = "completed"
    /\ b.saved => /\ transcript[i] # "none"
                  /\ b.pc = "draft" \/ (b.pc = "settle" /\ b.result \in {"draft", "article"})
    /\ b.pc = "draft" => b.saved
    /\ b.pc = "accept" => v3[i] # "off"
    /\ b.pc \in {"read", "rewrite", "saveReady", "draft"} => i \notin eligible
    /\ b.pc # "settle" \/ ~ b.saved => drafts[i] <= expiries[i]
    /\ b.pc = "settle" => SettleOK(j)

InputOK(i) ==
  /\ drafts[i] <= 1 + expiries[i]
  /\ Grantable(claim[i]) => drafts[i] <= expiries[i]
  /\ i \in eligible => drafts[i] = 0 /\ transcript[i] = "none"
  /\ v3[i] # "off" => i \in eligible
  /\ i \notin inbox \/ claim[i].state = "completed" => HasResult(i)
  /\ status[i] \in {"COMPLETED", "DRAFT_FAILED"} => transcript[i] # "none"

Alone == \A j, k \in Jobs : j # k /\ Working(j) /\ Working(k) => job[j].input # job[k].input

IInv ==
  /\ Typed /\ Alone
  /\ \A j \in Jobs : JobOK(j)
  /\ \A i \in Inputs : InputOK(i)

-----------------------------------------------------------------------------
(* Settlements. *)

\* Every settlement ends with the claim, and only an article's begins with a save.
LEMMA SettlementSteps ==
  ASSUME NEW r \in Results, NEW n \in DOMAIN Settlement[r]
  PROVE  /\ n \in 1..4 /\ 1 \in DOMAIN Settlement[r]
         /\ Settlement[r][n] \in {"save", "delete", "report", "complete"}
         /\ Settlement[r][n] # "complete" => n + 1 \in DOMAIN Settlement[r]
         /\ Settlement[r][n] = "save" => r \in {"draft", "article"}
         /\ r = "article" => (Settlement[r][n] = "save" <=> n = 1)
BY DEF Results, Settlement

-----------------------------------------------------------------------------
(* Who may be disturbed by a step. *)

\* A step of one job that changes at most one input, which no other job is at
\* work on, disturbs nothing else.
LEMMA OthersKept ==
  ASSUME IInv, Typed', UNCHANGED <<content, eligible, expiries>>,
         NEW j \in Jobs, NEW i \in Inputs,
         \A k \in Jobs \ {j} : job'[k] = job[k] /\ (Working(k) => job[k].input # i),
         Working(j)' => job'[j].input = i,
         \A h \in Inputs \ {i} :
           /\ h \in inbox' <=> h \in inbox
           /\ claim'[h] = claim[h] /\ v3'[h] = v3[h] /\ transcript'[h] = transcript[h]
           /\ status'[h] = status[h] /\ drafts'[h] = drafts[h],
         JobOK(j)', InputOK(i)'
  PROVE  IInv'
<1>1. Alone'
  <2> SUFFICES ASSUME NEW a \in Jobs, NEW b \in Jobs, a # b, Working(a)', Working(b)'
               PROVE  job'[a].input # job'[b].input
    BY DEF Alone
  <2>1. CASE a # j /\ b # j
    BY <2>1 DEF IInv, Alone, Working
  <2>2. CASE a = j
    BY <2>2 DEF Working
  <2>3. CASE b = j
    BY <2>3 DEF Working
  <2>4. QED
    BY <2>1, <2>2, <2>3
<1>2. ASSUME NEW k \in Jobs
      PROVE  JobOK(k)'
  <2>1. CASE k = j
    BY <2>1
  <2>2. CASE k # j /\ ~ Working(k)
    BY <2>2 DEF JobOK, Working
  <2>3. CASE k # j /\ Working(k)
    <3>1. job'[k] = job[k] /\ job[k].input \in Inputs \ {i} /\ JobOK(k)
      BY <2>3 DEF IInv, JobOK
    <3> DEFINE h == job[k].input
    <3>2. claim'[h] = claim[h] /\ v3'[h] = v3[h] /\ transcript'[h] = transcript[h] /\ drafts'[h] = drafts[h]
      BY <3>1
    <3> HIDE DEF h
    <3>3. QED
      BY <2>3, <3>1, <3>2 DEF JobOK, SettleOK, Owns, Working, h
  <2>4. QED
    BY <2>1, <2>2, <2>3
<1>3. ASSUME NEW h \in Inputs
      PROVE  InputOK(h)'
  BY DEF IInv, InputOK, HasResult, Grantable
<1>4. QED
  BY <1>1, <1>2, <1>3 DEF IInv

\* A step that only takes jobs off their work, or onto none, disturbs nothing.
LEMMA LeavingKeeps ==
  ASSUME IInv, Typed', UNCHANGED <<content, eligible, inbox, claim, v3, transcript, status, drafts, expiries>>,
         NEW j \in Jobs, \A k \in Jobs \ {j} : job'[k] = job[k], ~ Working(j)'
  PROVE  IInv'
<1>1. Alone'
  BY DEF IInv, Alone, Working
<1>2. ASSUME NEW k \in Jobs
      PROVE  JobOK(k)'
  BY DEF IInv, JobOK, SettleOK, Owns, Working
<1>3. ASSUME NEW h \in Inputs
      PROVE  InputOK(h)'
  BY DEF IInv, InputOK, HasResult, Grantable
<1>4. QED
  BY <1>1, <1>2, <1>3 DEF IInv

\* What is known of a job at work.
LEMMA AtWork ==
  ASSUME IInv, NEW j \in Jobs, Working(j)
  PROVE  /\ job[j] \in Runs /\ job[j].input \in Inputs /\ JobOK(j) /\ InputOK(job[j].input)
         /\ \A k \in Jobs \ {j} : Working(k) => job[k].input # job[j].input
         /\ claim[job[j].input] \in Claims /\ drafts[job[j].input] \in Nat /\ expiries[job[j].input] \in Nat
<1>1. job[j].input \in Inputs
  BY DEF IInv, JobOK
<1>2. QED
  BY <1>1 DEF IInv, Typed, Alone

-----------------------------------------------------------------------------
(* Starting and ending. *)

LEMMA StartKeeps ==
  ASSUME IInv, NEW j \in Jobs, NEW files \in SUBSET Inputs, Start(j, files)
  PROVE  IInv'
<1>1. Typed'
  <2>1. job[j] \in Runs /\ job \in [Jobs -> Runs]
    BY DEF IInv, Typed
  <2>2. [[job[j] EXCEPT !.pc = "next"] EXCEPT !.todo = files] \in Runs
    BY <2>1 DEF Runs, Positions, Steps
  <2>3. job' \in [Jobs -> Runs]
    BY <2>1, <2>2 DEF Start
  <2>4. QED
    BY <2>3 DEF Start, IInv, Typed, world
<1>2. ~ Working(j)' /\ \A k \in Jobs \ {j} : job'[k] = job[k]
  BY DEF Start, IInv, Typed, Working, Runs, Positions
<1>3. QED
  BY <1>1, <1>2, LeavingKeeps DEF Start, world

LEMMA IdleIsRun == Idle \in Runs
BY DEF Idle, Runs, Positions, Steps

LEMMA FinishKeeps ==
  ASSUME IInv, NEW j \in Jobs, Finish(j) \/ Die(j)
  PROVE  IInv'
<1>1. Typed'
  BY IdleIsRun, MiningOK DEF Finish, Die, End, IInv, Typed, world
<1>2. ~ Working(j)' /\ \A k \in Jobs \ {j} : job'[k] = job[k]
  BY DEF Finish, Die, End, IInv, Typed, Working, Idle
<1>3. QED
  BY <1>1, <1>2, LeavingKeeps DEF Finish, Die, world

-----------------------------------------------------------------------------
(* How a job moves, what a call costs, what a report writes. *)

LEMMA GotoMoves ==
  ASSUME IInv, NEW j \in Jobs, NEW pc \in Steps, Goto(j, pc)
  PROVE  /\ job' \in [Jobs -> Runs] /\ \A k \in Jobs \ {j} : job'[k] = job[k]
         /\ job'[j].pc = pc /\ job'[j].input = job[j].input /\ job'[j].saved = job[j].saved
         /\ job'[j].result = job[j].result /\ job'[j].step = job[j].step
<1>1. job[j] \in Runs /\ job \in [Jobs -> Runs]
  BY DEF IInv, Typed
<1>2. job' = [job EXCEPT ![j] = [job[j] EXCEPT !.pc = pc]]
  BY <1>1 DEF Goto
<1>3. [job[j] EXCEPT !.pc = pc] \in Runs
  BY <1>1 DEF Runs, Positions, Steps
<1>4. QED
  BY <1>1, <1>2, <1>3 DEF Runs, Positions

LEMMA SettleMoves ==
  ASSUME IInv, NEW j \in Jobs, NEW r \in Results, Settle(j, r)
  PROVE  /\ job' \in [Jobs -> Runs] /\ \A k \in Jobs \ {j} : job'[k] = job[k]
         /\ job'[j].pc = "settle" /\ job'[j].input = job[j].input /\ job'[j].saved = job[j].saved
         /\ job'[j].result = r /\ job'[j].step = 1
<1>1. job[j] \in Runs /\ job \in [Jobs -> Runs]
  BY DEF IInv, Typed
<1> DEFINE b1 == [job[j] EXCEPT !.pc = "settle"]
           b2 == [b1 EXCEPT !.result = r]
           b3 == [b2 EXCEPT !.step = 1]
<1>2. job' = [job EXCEPT ![j] = b3]
  BY <1>1 DEF Settle
<1>3. b1 \in Runs /\ b1.pc = "settle" /\ b1.input = job[j].input /\ b1.saved = job[j].saved
  BY <1>1 DEF Runs, Positions, Steps
<1> HIDE DEF b1
<1>4. b2 \in Runs /\ b2.pc = "settle" /\ b2.input = job[j].input /\ b2.saved = job[j].saved /\ b2.result = r
  BY <1>3 DEF Runs, Positions
<1> HIDE DEF b2
<1>5. /\ b3 \in Runs /\ b3.pc = "settle" /\ b3.input = job[j].input /\ b3.saved = job[j].saved /\ b3.result = r
      /\ b3.step = 1
  BY <1>4 DEF Runs, Positions
<1> HIDE DEF b3
<1>6. QED
  BY <1>1, <1>2, <1>5

LEMMA AdvanceMoves ==
  ASSUME IInv, NEW j \in Jobs, job[j].step + 1 \in 1..4, Advance(j)
  PROVE  /\ job' \in [Jobs -> Runs] /\ \A k \in Jobs \ {j} : job'[k] = job[k]
         /\ job'[j].pc = job[j].pc /\ job'[j].input = job[j].input /\ job'[j].saved = job[j].saved
         /\ job'[j].result = job[j].result /\ job'[j].step = job[j].step + 1
<1>1. job[j] \in Runs /\ job \in [Jobs -> Runs]
  BY DEF IInv, Typed
<1>2. job' = [job EXCEPT ![j] = [job[j] EXCEPT !.step = @ + 1]]
  BY <1>1 DEF Advance
<1>3. [job[j] EXCEPT !.step = @ + 1] \in Runs
  BY <1>1 DEF Runs, Positions
<1>4. QED
  BY <1>1, <1>2, <1>3 DEF Runs, Positions

LEMMA EndMoves ==
  ASSUME IInv, NEW j \in Jobs, End(j)
  PROVE  job' \in [Jobs -> Runs] /\ (\A k \in Jobs \ {j} : job'[k] = job[k]) /\ ~ Working(j)'
BY IdleIsRun DEF IInv, Typed, End, Working, Idle

LEMMA CostsBounded ==
  ASSUME faults \in 0..MaxFaults, NEW o, Costs(o)
  PROVE  faults' \in 0..MaxFaults
BY MiningOK DEF Costs

LEMMA ReportWrites ==
  ASSUME IInv, NEW i \in Inputs, NEW s \in Statuses, Report(i, s)
  PROVE  /\ status' \in [Inputs -> Statuses] /\ \A h \in Inputs \ {i} : status'[h] = status[h]
         /\ status'[i] \in {status[i], s}
BY DEF IInv, Typed, Report

-----------------------------------------------------------------------------
(* Claims. *)

LEMMA ClaimKeeps ==
  ASSUME IInv, NEW j \in Jobs, ClaimInput(j)
  PROVE  IInv'
<1>1. PICK i \in job[j].todo, o \in Outcomes :
       /\ Costs(o)
       /\ claim' = IF o # "failed" /\ Grantable(claim[i])
                   THEN [claim EXCEPT ![i] = [state |-> "processing", owner |-> j, expired |-> FALSE]]
                   ELSE claim
       /\ IF o # "done" THEN End(j)
          ELSE job' = [job EXCEPT ![j] = [Idle EXCEPT
                 !.pc = IF Grantable(claim[i]) THEN "route" ELSE "next",
                 !.todo = job[j].todo \ {i}, !.input = i]]
  BY DEF ClaimInput
<1>2. i \in Inputs /\ job[j] \in Runs /\ job \in [Jobs -> Runs] /\ claim[i] \in Claims
  BY DEF IInv, Typed, Runs, Positions
<1> DEFINE new == [Idle EXCEPT !.pc = IF Grantable(claim[i]) THEN "route" ELSE "next",
                               !.todo = job[j].todo \ {i}, !.input = i]
<1>3. /\ new \in Runs /\ new.input = i /\ new.saved = FALSE
      /\ new.pc = IF Grantable(claim[i]) THEN "route" ELSE "next"
  <2> DEFINE pc == IF Grantable(claim[i]) THEN "route" ELSE "next"
             b == [Idle EXCEPT !.pc = pc]
             rest == job[j].todo \ {i}
  <2>1. pc \in Steps /\ rest \in SUBSET Inputs
    BY <1>2 DEF Runs, Positions, Steps
  <2> HIDE DEF pc, rest
  <2>2. b \in Positions /\ b.pc = pc /\ b.saved = FALSE
    BY <2>1, IdleIsRun DEF Idle, Runs, Positions
  <2> HIDE DEF b
  <2>3. new = [[b EXCEPT !.todo = rest] EXCEPT !.input = i]
    BY DEF b, pc, rest
  <2> HIDE DEF new
  <2>4. new \in Runs /\ new.pc = b.pc /\ new.input = i /\ new.saved = b.saved
    BY <1>2, <2>1, <2>2, <2>3 DEF Runs, Positions, Steps
  <2>5. QED
    BY <2>2, <2>4 DEF pc
<1> HIDE DEF new
<1>4. job' \in [Jobs -> Runs] /\ (\A k \in Jobs \ {j} : job'[k] = job[k]) /\ (o # "done" => ~ Working(j)')
      /\ (o = "done" => job'[j] = new)
  BY <1>1, <1>2, <1>3, EndMoves DEF new
<1>5. claim' \in [Inputs -> Claims]
  BY <1>1, <1>2 DEF Claims, IInv, Typed
<1>6. Typed'
  BY <1>1, <1>4, <1>5, CostsBounded DEF ClaimInput, IInv, Typed, world
<1>7. CASE ~ Grantable(claim[i])
  <2>1. ~ Working(j)' /\ claim' = claim
    BY <1>1, <1>3, <1>4, <1>7 DEF Working
  <2>2. QED
    BY <1>4, <1>6, <2>1, LeavingKeeps DEF ClaimInput, world
<1>8. CASE Grantable(claim[i])
  <2>1. \A k \in Jobs \ {j} : Working(k) => job[k].input # i
    BY <1>8 DEF IInv, JobOK, Grantable, Owns
  <2>2. \A h \in Inputs \ {i} : claim'[h] = claim[h]
    BY <1>1, <1>2 DEF IInv, Typed
  <2>3. InputOK(i)'
    BY <1>1, <1>2, <1>8 DEF IInv, Typed, InputOK, Grantable, HasResult, ClaimInput, world
  <2>4. Working(j)' => job'[j].input = i
    BY <1>3, <1>4
  <2>5. JobOK(j)'
    <3> SUFFICES ASSUME Working(j)'
                 PROVE  JobOK(j)'
      BY DEF JobOK
    <3>1. o = "done" /\ job'[j] = new
      BY <1>4
    <3>2. claim'[i] = [state |-> "processing", owner |-> j, expired |-> FALSE]
      BY <1>1, <1>2, <1>8, <3>1 DEF IInv, Typed
    <3>3. drafts[i] <= expiries[i] /\ UNCHANGED <<drafts, expiries>>
      BY <1>2, <1>8 DEF IInv, InputOK, ClaimInput, world
    <3>4. QED
      BY <1>2, <1>3, <1>8, <3>1, <3>2, <3>3 DEF JobOK, Owns
  <2>6. QED
    BY <1>2, <1>4, <1>6, <2>1, <2>2, <2>3, <2>4, <2>5, OthersKept DEF ClaimInput, world
<1>9. QED
  BY <1>7, <1>8

LEMMA ReleaseKeeps ==
  ASSUME IInv, NEW j \in Jobs, Release(j)
  PROVE  IInv'
<1>1. Working(j)
  BY DEF Release, At, Working
<1>2. PICK i \in Inputs : i = job[j].input
  BY <1>1, AtWork
<1>3. /\ JobOK(j) /\ InputOK(i) /\ claim[i] \in Claims
      /\ \A k \in Jobs \ {j} : Working(k) => job[k].input # i
  BY <1>2, <1>1, AtWork
<1>4. PICK o \in Outcomes :
       /\ Costs(o)
       /\ claim' = IF o # "failed" /\ Owns(j, i) THEN [claim EXCEPT ![i] = Free] ELSE claim
  BY <1>2 DEF Release
<1>5. job' \in [Jobs -> Runs] /\ (\A k \in Jobs \ {j} : job'[k] = job[k]) /\ ~ Working(j)'
  BY GotoMoves DEF Release, Steps, Working
<1>6. drafts[i] <= expiries[i]
  BY <1>2, <1>1, <1>3 DEF JobOK, Release, At
<1>7. claim' \in [Inputs -> Claims] /\ \A h \in Inputs \ {i} : claim'[h] = claim[h]
  BY <1>3, <1>4 DEF Claims, Free, IInv, Typed
<1>8. Typed'
  BY <1>4, <1>5, <1>7, CostsBounded DEF Release, IInv, Typed, world
<1>9. InputOK(i)'
  <2>1. claim'[i] \in {Free, claim[i]}
    BY <1>3, <1>4 DEF IInv, Typed
  <2>2. claim'[i].state = "completed" => claim[i].state = "completed"
    BY <2>1 DEF Free
  <2>3. UNCHANGED <<content, eligible, inbox, v3, transcript, status, drafts, expiries>>
    BY DEF Release, world
  <2>4. QED
    BY <1>3, <1>6, <2>2, <2>3 DEF InputOK, HasResult
<1>10. JobOK(j)'
  BY <1>5 DEF JobOK
<1>11. UNCHANGED <<content, eligible, inbox, v3, transcript, status, drafts, expiries>>
  BY DEF Release, world
<1>12. \A k \in Jobs \ {j} : job'[k] = job[k] /\ (Working(k) => job[k].input # i)
  BY <1>3, <1>5
<1>13. QED
  BY <1>3, <1>5, <1>7, <1>8, <1>9, <1>10, <1>11, <1>12, OthersKept

LEMMA ExpiryKeeps ==
  ASSUME IInv, NEW i \in Inputs, LeaseExpires(i)
  PROVE  IInv'
<1>1. claim' \in [Inputs -> Claims] /\ (\A h \in Inputs \ {i} : claim'[h] = claim[h] /\ expiries'[h] = expiries[h])
      /\ expiries' \in [Inputs -> Nat] /\ expiries'[i] = expiries[i] + 1
      /\ claim'[i] = [claim[i] EXCEPT !.expired = TRUE] /\ claim[i] \in Claims
  <2>1. claim \in [Inputs -> Claims] /\ expiries \in [Inputs -> Nat] /\ claim[i] \in Claims /\ expiries[i] \in Nat
    BY DEF IInv, Typed
  <2>2. claim' = [claim EXCEPT ![i] = [claim[i] EXCEPT !.expired = TRUE]] /\ expiries' = [expiries EXCEPT ![i] = @ + 1]
    BY <2>1 DEF LeaseExpires
  <2>3. [claim[i] EXCEPT !.expired = TRUE] \in Claims
    BY <2>1 DEF Claims
  <2>4. QED
    BY <2>1, <2>2, <2>3
<1>2. Typed'
  BY <1>1 DEF LeaseExpires, IInv, Typed
<1>3. ASSUME NEW h \in Inputs
      PROVE  InputOK(h)'
  <2>1. CASE h # i
    BY <1>1, <2>1 DEF LeaseExpires, IInv, InputOK, Grantable, HasResult
  <2>2. CASE h = i
    <3>1. drafts[i] \in Nat /\ expiries[i] \in Nat /\ drafts[i] <= 1 + expiries[i]
      BY DEF IInv, Typed, InputOK
    <3>2. drafts'[i] <= expiries'[i]
      BY <1>1, <3>1 DEF LeaseExpires
    <3>3. QED
      BY <1>1, <2>2, <3>1, <3>2 DEF LeaseExpires, IInv, InputOK, HasResult, Claims
  <2>3. QED
    BY <2>1, <2>2
<1>4. ASSUME NEW k \in Jobs
      PROVE  JobOK(k)'
  <2> SUFFICES ASSUME Working(k)
               PROVE  JobOK(k)'
    BY DEF JobOK, Working, LeaseExpires
  <2>1. job[k].input \in Inputs /\ JobOK(k)
    BY AtWork
  <2>2. job[k].input # i
    BY <2>1 DEF JobOK, Owns, LeaseExpires, Working
  <2>3. QED
    BY <1>1, <2>1, <2>2 DEF LeaseExpires, JobOK, SettleOK, Owns, Working
<1>5. QED
  BY <1>2, <1>3, <1>4 DEF IInv, Alone, Working, LeaseExpires

-----------------------------------------------------------------------------
(* Work on one input. *)

\* A step of a job at work that leaves every other input alone.
LEMMA WorkKeeps ==
  ASSUME IInv, Typed', UNCHANGED <<content, eligible, expiries>>,
         NEW j \in Jobs, NEW i \in Inputs, i = job[j].input, Working(j),
         \A k \in Jobs \ {j} : job'[k] = job[k],
         Working(j)' => job'[j].input = i,
         \A h \in Inputs \ {i} :
           /\ h \in inbox' <=> h \in inbox
           /\ claim'[h] = claim[h] /\ v3'[h] = v3[h] /\ transcript'[h] = transcript[h]
           /\ status'[h] = status[h] /\ drafts'[h] = drafts[h],
         JobOK(j)', InputOK(i)'
  PROVE  IInv'
<1>1. \A k \in Jobs \ {j} : job'[k] = job[k] /\ (Working(k) => job[k].input # i)
  BY AtWork
<1>2. QED
  BY <1>1, OthersKept

LEMMA RouteKeeps ==
  ASSUME IInv, NEW j \in Jobs, Route(j)
  PROVE  IInv'
<1>1. Working(j) /\ job[j].pc = "route"
  BY DEF Route, At, Working
<1>2. PICK i \in Inputs : i = job[j].input
  BY <1>1, AtWork
<1>3. JobOK(j) /\ InputOK(i)
  BY <1>1, <1>2, AtWork
<1>4. PICK o \in Outcomes :
       /\ Costs(o)
       /\ v3' = IF o # "failed" /\ i \in eligible /\ v3[i] = "off" THEN [v3 EXCEPT ![i] = "pending"] ELSE v3
       /\ \E d \in Decided(i, o) : IF d = "v3" THEN Settle(j, "v3") ELSE Goto(j, d)
  BY <1>2 DEF Route
<1>5. PICK d \in Decided(i, o) : IF d = "v3" THEN Settle(j, "v3") ELSE Goto(j, d)
  BY <1>4
<1>6. UNCHANGED <<content, eligible, inbox, claim, transcript, status, drafts, expiries>>
  BY DEF Route, world
<1>7. v3' \in [Inputs -> {"off", "pending", "started"}] /\ \A h \in Inputs \ {i} : v3'[h] = v3[h]
  BY <1>4 DEF IInv, Typed
<1>8. /\ v3[i] # "off" => v3'[i] = v3[i]
      /\ v3'[i] # "off" => i \in eligible
      /\ o = "done" /\ v3'[i] = "off" => i \notin eligible
  BY <1>3, <1>4 DEF IInv, Typed, InputOK, Outcomes
<1>9. d \in {"release", "v3", "accept", "read"} /\ (d = "v3" => v3'[i] = "started") /\ (d = "accept" => v3'[i] # "off")
      /\ (d = "read" => i \notin eligible)
  BY <1>5, <1>7, <1>8 DEF Decided
<1>10. /\ job' \in [Jobs -> Runs] /\ \A k \in Jobs \ {j} : job'[k] = job[k]
       /\ job'[j].pc = (IF d = "v3" THEN "settle" ELSE d) /\ job'[j].input = i /\ job'[j].saved = job[j].saved
       /\ d = "v3" => job'[j].result = "v3" /\ job'[j].step = 1
  BY <1>2, <1>5, <1>9, GotoMoves, SettleMoves DEF Steps, Results
<1>11. Typed'
  BY <1>4, <1>6, <1>7, <1>10, CostsBounded DEF IInv, Typed
<1>12. InputOK(i)'
  BY <1>3, <1>6, <1>8 DEF InputOK, HasResult, Grantable
<1>13. JobOK(j)'
  BY <1>1, <1>2, <1>3, <1>6, <1>9, <1>10 DEF JobOK, SettleOK, Owns, Working, Results, Settlement
<1>14. QED
  BY <1>1, <1>2, <1>6, <1>7, <1>10, <1>11, <1>12, <1>13, WorkKeeps

LEMMA AcceptKeeps ==
  ASSUME IInv, NEW j \in Jobs, Accept(j)
  PROVE  IInv'
<1>1. Working(j) /\ job[j].pc = "accept"
  BY DEF Accept, At, Working
<1>2. PICK i \in Inputs : i = job[j].input
  BY <1>1, AtWork
<1>3. JobOK(j) /\ InputOK(i)
  BY <1>1, <1>2, AtWork
<1>4. PICK o \in Outcomes :
       /\ Costs(o)
       /\ v3' = IF o = "failed" THEN v3 ELSE [v3 EXCEPT ![i] = "started"]
       /\ \/ v3'[i] = "started" /\ Settle(j, "v3")
          \/ o # "done" /\ Goto(j, "release")
          \/ o = "failed" /\ v3[i] = "pending" /\ UNCHANGED job
  BY <1>2 DEF Accept
<1>5. UNCHANGED <<content, eligible, inbox, claim, transcript, drafts, expiries>>
  BY DEF Accept, world
<1>6. v3' \in [Inputs -> {"off", "pending", "started"}] /\ \A h \in Inputs \ {i} : v3'[h] = v3[h]
  BY <1>4 DEF IInv, Typed
<1>7. v3[i] # "off" /\ v3'[i] # "off" /\ i \in eligible /\ (v3[i] = "started" => v3'[i] = "started")
  BY <1>1, <1>2, <1>3, <1>4 DEF JobOK, InputOK, IInv, Typed
<1>8. /\ status' \in [Inputs -> Statuses] /\ \A h \in Inputs \ {i} : status'[h] = status[h]
      /\ status'[i] \in {status[i], "PROCESSING"}
  BY <1>2, ReportWrites DEF Accept, Statuses
<1>9. /\ job' \in [Jobs -> Runs] /\ \A k \in Jobs \ {j} : job'[k] = job[k]
      /\ job'[j].input = i /\ job'[j].saved = job[j].saved
      /\ \/ v3'[i] = "started" /\ job'[j].pc = "settle" /\ job'[j].result = "v3" /\ job'[j].step = 1
         \/ job'[j].pc = "release"
         \/ job' = job
  <2>1. CASE v3'[i] = "started" /\ Settle(j, "v3")
    BY <1>2, <2>1, SettleMoves DEF Results
  <2>2. CASE o # "done" /\ Goto(j, "release")
    BY <1>2, <2>2, GotoMoves DEF Steps
  <2>3. CASE UNCHANGED job
    BY <1>2, <2>3 DEF IInv, Typed
  <2>4. QED
    BY <1>4, <2>1, <2>2, <2>3
<1>10. Typed'
  BY <1>4, <1>5, <1>6, <1>8, <1>9, CostsBounded DEF IInv, Typed
<1>11. InputOK(i)'
  BY <1>3, <1>5, <1>7, <1>8 DEF InputOK, HasResult, Grantable
<1>12. JobOK(j)'
  <2>1. ~ job[j].saved /\ drafts[i] <= expiries[i] /\ ((Owns(j, i) /\ ~ claim[i].expired) \/ claim[i].state = "completed")
    BY <1>1, <1>2, <1>3 DEF JobOK
  <2>2. QED
    BY <1>1, <1>2, <1>5, <1>7, <1>9, <2>1 DEF JobOK, SettleOK, Owns, Working, Results, Settlement
<1>13. QED
  BY <1>1, <1>2, <1>5, <1>6, <1>8, <1>9, <1>10, <1>11, <1>12, WorkKeeps

LEMMA ReadKeeps ==
  ASSUME IInv, NEW j \in Jobs, Read(j) \/ Rewrite(j)
  PROVE  IInv'
<1>1. Working(j) /\ job[j].pc \in {"read", "rewrite"}
  BY DEF Read, Rewrite, At, Working
<1>2. PICK i \in Inputs : i = job[j].input
  BY <1>1, AtWork
<1>3. JobOK(j) /\ InputOK(i)
  BY <1>1, <1>2, AtWork
<1>4. UNCHANGED <<content, eligible, inbox, claim, v3, transcript, drafts, expiries>>
  BY DEF Read, Rewrite, world
<1>5. /\ \/ \E pc \in {"rewrite", "saveReady", "release"} : Goto(j, pc)
         \/ content[i] # "speech" /\ \E r \in {"empty", "invalid"} : Settle(j, r)
      /\ \E s \in {"PROCESSING", "FAILED"} : Report(i, s)
      /\ UNCHANGED faults \/ Costs("failed")
  BY <1>2 DEF Read, Rewrite, GiveBack
<1>6. /\ status' \in [Inputs -> Statuses] /\ \A h \in Inputs \ {i} : status'[h] = status[h]
      /\ status'[i] \in {status[i], "PROCESSING", "FAILED"}
  BY <1>5, ReportWrites DEF Statuses
<1>7. /\ job' \in [Jobs -> Runs] /\ \A k \in Jobs \ {j} : job'[k] = job[k]
      /\ job'[j].input = i /\ job'[j].saved = job[j].saved
      /\ \/ job'[j].pc \in {"rewrite", "saveReady", "release"}
         \/ /\ content[i] # "speech" /\ job'[j].pc = "settle" /\ job'[j].result \in {"empty", "invalid"}
            /\ job'[j].step = 1
  <2>1. CASE \E pc \in {"rewrite", "saveReady", "release"} : Goto(j, pc)
    BY <1>2, <2>1, GotoMoves DEF Steps
  <2>2. CASE content[i] # "speech" /\ \E r \in {"empty", "invalid"} : Settle(j, r)
    BY <1>2, <2>2, SettleMoves DEF Results
  <2>3. QED
    BY <1>5, <2>1, <2>2
<1>8. faults' \in 0..MaxFaults
  BY <1>5, CostsBounded DEF IInv, Typed
<1>9. Typed'
  BY <1>4, <1>6, <1>7, <1>8 DEF IInv, Typed
<1>10. InputOK(i)'
  BY <1>3, <1>4, <1>6 DEF InputOK, HasResult, Grantable
<1>11. JobOK(j)'
  <2>1. /\ ~ job[j].saved /\ drafts[i] <= expiries[i] /\ i \notin eligible
        /\ (Owns(j, i) /\ ~ claim[i].expired) \/ claim[i].state = "completed"
    BY <1>1, <1>2, <1>3 DEF JobOK
  <2>2. 1 \in DOMAIN Settlement["empty"] /\ 1 \in DOMAIN Settlement["invalid"]
    BY DEF Settlement
  <2>3. QED
    BY <1>2, <1>4, <1>7, <2>1, <2>2 DEF JobOK, SettleOK, Owns, Working, Results
<1>12. QED
  BY <1>1, <1>2, <1>4, <1>6, <1>7, <1>9, <1>10, <1>11, WorkKeeps

LEMMA SaveReadyKeeps ==
  ASSUME IInv, NEW j \in Jobs, SaveReady(j)
  PROVE  IInv'
<1>1. Working(j) /\ job[j].pc = "saveReady"
  BY DEF SaveReady, At, Working
<1>2. PICK i \in Inputs : i = job[j].input
  BY <1>1, AtWork
<1>3. JobOK(j) /\ InputOK(i)
  BY <1>1, <1>2, AtWork
<1>4. UNCHANGED <<content, eligible, inbox, claim, v3, drafts, expiries>>
  BY DEF SaveReady, world
<1>5. PICK o \in Outcomes :
       /\ Costs(o)
       /\ transcript' = IF o = "failed" THEN transcript ELSE [transcript EXCEPT ![i] = "ARTICLE_READY"]
       /\ IF o = "done" THEN job' = [job EXCEPT ![j].pc = "draft", ![j].saved = TRUE] ELSE Settle(j, "article")
  BY <1>2 DEF SaveReady
<1>6. /\ transcript' \in [Inputs -> Stages] /\ \A h \in Inputs \ {i} : transcript'[h] = transcript[h]
      /\ o = "done" \/ transcript[i] # "none" => transcript'[i] # "none"
  BY <1>5 DEF IInv, Typed, Stages
<1>7. /\ status' \in [Inputs -> Statuses] /\ \A h \in Inputs \ {i} : status'[h] = status[h]
      /\ status'[i] \in {status[i], "PROCESSING"}
  BY <1>2, ReportWrites DEF SaveReady, Statuses
<1>8. /\ job' \in [Jobs -> Runs] /\ \A k \in Jobs \ {j} : job'[k] = job[k]
      /\ job'[j].input = i
      /\ \/ job'[j].pc = "draft" /\ job'[j].saved /\ o = "done"
         \/ job'[j].pc = "settle" /\ job'[j].saved = job[j].saved /\ job'[j].result = "article" /\ job'[j].step = 1
  <2>1. CASE o = "done"
    <3>1. job[j] \in Runs /\ job \in [Jobs -> Runs]
      BY DEF IInv, Typed
    <3> DEFINE b1 == [job[j] EXCEPT !.pc = "draft"]
               b2 == [b1 EXCEPT !.saved = TRUE]
    <3>2. job' = [job EXCEPT ![j] = b2]
      BY <1>5, <2>1, <3>1
    <3>3. b1 \in Runs /\ b1.pc = "draft" /\ b1.input = job[j].input
      BY <3>1 DEF Runs, Positions, Steps
    <3> HIDE DEF b1
    <3>4. b2 \in Runs /\ b2.pc = "draft" /\ b2.input = job[j].input /\ b2.saved
      BY <3>3 DEF Runs, Positions
    <3> HIDE DEF b2
    <3>5. QED
      BY <1>2, <2>1, <3>1, <3>2, <3>4
  <2>2. CASE o # "done"
    BY <1>2, <1>5, <2>2, SettleMoves DEF Results
  <2>3. QED
    BY <2>1, <2>2
<1>9. i \notin eligible /\ ~ job[j].saved /\ drafts[i] <= expiries[i]
      /\ ((Owns(j, i) /\ ~ claim[i].expired) \/ claim[i].state = "completed")
  BY <1>1, <1>2, <1>3 DEF JobOK
<1>10. Typed'
  BY <1>4, <1>5, <1>6, <1>7, <1>8, CostsBounded DEF IInv, Typed
<1>11. InputOK(i)'
  BY <1>3, <1>4, <1>6, <1>7, <1>9 DEF InputOK, HasResult, Grantable
<1>12. JobOK(j)'
  <2>1. 1 \in DOMAIN Settlement["article"]
    BY DEF Settlement
  <2>2. QED
    BY <1>4, <1>6, <1>8, <1>9, <2>1 DEF JobOK, SettleOK, Owns, Working, Results
<1>13. QED
  BY <1>1, <1>2, <1>4, <1>6, <1>7, <1>8, <1>10, <1>11, <1>12, WorkKeeps

LEMMA PublishKeeps ==
  ASSUME IInv, NEW j \in Jobs, PublishDraft(j)
  PROVE  IInv'
<1>1. Working(j) /\ job[j].pc = "draft"
  BY DEF PublishDraft, At, Working
<1>2. PICK i \in Inputs : i = job[j].input
  BY <1>1, AtWork
<1>3. JobOK(j) /\ InputOK(i)
  BY <1>1, <1>2, AtWork
<1>4. UNCHANGED <<content, eligible, inbox, claim, v3, transcript, status, expiries>>
  BY DEF PublishDraft, world
<1>5. PICK o \in Outcomes :
       Costs(o) /\ drafts' = (IF o = "failed" THEN drafts ELSE [drafts EXCEPT ![i] = @ + 1]) /\ AfterDraft(j, o)
  BY <1>2 DEF PublishDraft
<1>6. /\ drafts' \in [Inputs -> Nat] /\ \A h \in Inputs \ {i} : drafts'[h] = drafts[h]
      /\ drafts'[i] \in {drafts[i], drafts[i] + 1} /\ drafts[i] \in Nat /\ expiries[i] \in Nat
  BY <1>5 DEF IInv, Typed
<1>7. /\ job' \in [Jobs -> Runs] /\ \A k \in Jobs \ {j} : job'[k] = job[k]
      /\ job'[j].input = i /\ job'[j].pc = "settle" /\ job'[j].saved = job[j].saved
      /\ job'[j].result \in {"draft", "article"} /\ job'[j].step = 1
  BY <1>2, <1>5, SettleMoves DEF AfterDraft, Results
<1>8. i \notin eligible /\ job[j].saved /\ transcript[i] # "none" /\ drafts[i] <= expiries[i]
      /\ ((Owns(j, i) /\ ~ claim[i].expired) \/ claim[i].state = "completed")
  BY <1>1, <1>2, <1>3 DEF JobOK
<1>9. Typed'
  BY <1>4, <1>5, <1>6, <1>7, CostsBounded DEF IInv, Typed
<1>10. InputOK(i)'
  <2>1. ~ Grantable(claim[i])
    BY <1>8 DEF Grantable, Owns
  <2>2. drafts'[i] <= 1 + expiries[i]
    BY <1>6, <1>8
  <2>3. QED
    BY <1>3, <1>4, <1>8, <2>1, <2>2 DEF InputOK, HasResult, Grantable
<1>11. JobOK(j)'
  <2>1. 1 \in DOMAIN Settlement["article"] /\ 1 \in DOMAIN Settlement["draft"]
    BY DEF Settlement
  <2>2. QED
    BY <1>4, <1>7, <1>8, <2>1 DEF JobOK, SettleOK, Owns, Working, Results
<1>12. QED
  BY <1>1, <1>2, <1>4, <1>6, <1>7, <1>9, <1>10, <1>11, WorkKeeps

-----------------------------------------------------------------------------
(* Settling an input. *)

\* What holds of an input while it is settled: but for the save itself, every
\* step comes when the result is there.
LEMMA AtSettlement ==
  ASSUME IInv, NEW j \in Jobs, NEW step \in {"save", "delete", "report", "complete"}, Settling(j, step),
         NEW i \in Inputs, i = job[j].input
  PROVE  /\ Working(j) /\ job[j].pc = "settle" /\ JobOK(j) /\ InputOK(i) /\ SettleOK(j)
         /\ (Owns(j, i) /\ ~ claim[i].expired) \/ claim[i].state = "completed"
         /\ ~ job[j].saved => drafts[i] <= expiries[i]
         /\ job[j].saved => transcript[i] # "none" /\ job[j].result \in {"draft", "article"}
         /\ step # "complete" => job[j].step + 1 \in DOMAIN Settlement[job[j].result] /\ job[j].step + 1 \in 1..4
         /\ step = "save" => job[j].result \in {"draft", "article"}
         /\ step # "save" => HasResult(i) /\ (job[j].result \in {"draft", "article"} => transcript[i] # "none")
         /\ job[j].step \in 1..4
<1>1. Working(j) /\ job[j].pc = "settle" /\ Settlement[job[j].result][job[j].step] = step
  BY DEF Settling, At, Working
<1>2. JobOK(j) /\ InputOK(i)
  BY <1>1, AtWork
<1>3. SettleOK(j)
  BY <1>1, <1>2 DEF JobOK
<1>4. /\ (Owns(j, i) /\ ~ claim[i].expired) \/ claim[i].state = "completed"
      /\ ~ job[j].saved => drafts[i] <= expiries[i]
      /\ job[j].saved => transcript[i] # "none" /\ job[j].result \in {"draft", "article"}
  BY <1>1, <1>2 DEF JobOK
<1>5. job[j].result \in Results /\ job[j].step \in DOMAIN Settlement[job[j].result]
  BY <1>3 DEF SettleOK
<1>6. /\ job[j].step \in 1..4
      /\ step # "complete" => job[j].step + 1 \in DOMAIN Settlement[job[j].result]
      /\ step = "save" => job[j].result \in {"draft", "article"}
      /\ job[j].result = "article" => (step = "save" <=> job[j].step = 1)
  BY <1>1, <1>5, SettlementSteps
<1>7. step # "complete" => job[j].step + 1 \in 1..4
  BY <1>5, <1>6, SettlementSteps
<1>8. step # "save" => HasResult(i) /\ (job[j].result \in {"draft", "article"} => transcript[i] # "none")
  BY <1>3, <1>4, <1>6 DEF SettleOK, HasResult, Results
<1>9. QED
  BY <1>1, <1>2, <1>3, <1>4, <1>6, <1>7, <1>8

LEMMA SaveResultKeeps ==
  ASSUME IInv, NEW j \in Jobs, SaveResult(j)
  PROVE  IInv'
<1>1. Settling(j, "save") /\ Working(j)
  BY DEF SaveResult, Settling, At, Working
<1>2. PICK i \in Inputs : i = job[j].input
  BY <1>1, AtWork
<1>3. /\ JobOK(j) /\ InputOK(i) /\ SettleOK(j) /\ job[j].pc = "settle"
      /\ (Owns(j, i) /\ ~ claim[i].expired) \/ claim[i].state = "completed"
      /\ ~ job[j].saved => drafts[i] <= expiries[i]
      /\ job[j].saved => transcript[i] # "none" /\ job[j].result \in {"draft", "article"}
      /\ job[j].step + 1 \in DOMAIN Settlement[job[j].result] /\ job[j].step + 1 \in 1..4
      /\ job[j].result \in {"draft", "article"}
  BY <1>1, <1>2, AtSettlement
<1>4. PICK o \in Outcomes :
       /\ Costs(o)
       /\ transcript' = IF o = "failed" THEN transcript
                        ELSE [transcript EXCEPT ![i] = IF job[j].result = "draft" THEN "COMPLETED" ELSE "DRAFT_FAILED"]
       /\ AfterSave(j, o)
  BY <1>2 DEF SaveResult
<1>5. UNCHANGED <<content, eligible, inbox, claim, v3, drafts, expiries>>
  BY DEF SaveResult, world
<1>6. /\ transcript' \in [Inputs -> Stages] /\ \A h \in Inputs \ {i} : transcript'[h] = transcript[h]
      /\ o = "done" \/ transcript[i] # "none" => transcript'[i] # "none"
  BY <1>4 DEF IInv, Typed, Stages
<1>7. /\ job' \in [Jobs -> Runs] /\ \A k \in Jobs \ {j} : job'[k] = job[k]
      /\ job'[j].input = i /\ job'[j].saved = job[j].saved
      /\ \/ /\ job[j].saved \/ o = "done"
            /\ job'[j].pc = "settle" /\ job'[j].result = job[j].result /\ job'[j].step = job[j].step + 1
         \/ ~ job[j].saved /\ job'[j].pc = "release"
  <2>1. CASE job[j].saved \/ o = "done"
    BY <1>2, <1>3, <1>4, <2>1, AdvanceMoves DEF AfterSave
  <2>2. CASE ~ (job[j].saved \/ o = "done")
    BY <1>2, <1>4, <2>2, GotoMoves DEF AfterSave, GiveBack, Steps
  <2>3. QED
    BY <2>1, <2>2
<1>8. /\ status' \in [Inputs -> Statuses] /\ \A h \in Inputs \ {i} : status'[h] = status[h]
      /\ status'[i] \in {status[i], "FAILED"}
  <2>1. UNCHANGED status \/ Report(i, "FAILED")
    BY <1>2, <1>4 DEF AfterSave, GiveBack
  <2>2. QED
    BY <2>1, ReportWrites DEF Statuses, IInv, Typed
<1>9. Typed'
  BY <1>4, <1>5, <1>6, <1>7, <1>8, CostsBounded DEF IInv, Typed
<1>10. i \notin eligible
  BY <1>2, <1>3 DEF SettleOK
<1>11. InputOK(i)'
  BY <1>3, <1>5, <1>6, <1>8, <1>10 DEF InputOK, HasResult, Grantable
<1>12. JobOK(j)'
  <2>1. job[j].saved \/ o = "done" => transcript'[i] # "none"
    BY <1>3, <1>6
  <2>2. job[j].result = "draft" => job[j].saved
    BY <1>3 DEF SettleOK
  <2>3. CASE job'[j].pc = "release"
    BY <1>3, <1>5, <1>7, <2>3 DEF JobOK, Owns
  <2>4. CASE job'[j].pc = "settle"
    <3>1. SettleOK(j)'
      BY <1>3, <1>5, <1>7, <1>10, <2>1, <2>2, <2>4 DEF SettleOK, Results
    <3>2. QED
      BY <1>3, <1>5, <1>7, <2>1, <2>4, <3>1 DEF JobOK, Owns
  <2>5. QED
    BY <1>7, <2>3, <2>4
<1>13. QED
  BY <1>1, <1>2, <1>5, <1>6, <1>7, <1>8, <1>9, <1>11, <1>12, WorkKeeps

LEMMA DeleteKeeps ==
  ASSUME IInv, NEW j \in Jobs, DeleteInput(j)
  PROVE  IInv'
<1>1. Settling(j, "delete") /\ Working(j)
  BY DEF DeleteInput, Settling, At, Working
<1>2. PICK i \in Inputs : i = job[j].input
  BY <1>1, AtWork
<1>3. /\ JobOK(j) /\ InputOK(i) /\ SettleOK(j) /\ job[j].pc = "settle"
      /\ (Owns(j, i) /\ ~ claim[i].expired) \/ claim[i].state = "completed"
      /\ ~ job[j].saved => drafts[i] <= expiries[i]
      /\ job[j].saved => transcript[i] # "none" /\ job[j].result \in {"draft", "article"}
      /\ job[j].step + 1 \in DOMAIN Settlement[job[j].result] /\ job[j].step + 1 \in 1..4
      /\ HasResult(i) /\ (job[j].result \in {"draft", "article"} => transcript[i] # "none")
  BY <1>1, <1>2, AtSettlement
<1>4. PICK o \in Outcomes :
       /\ Costs(o)
       /\ inbox' = IF o = "failed" THEN inbox ELSE inbox \ {i}
       /\ CASE o = "done" \/ job[j].result \in {"draft", "article"} -> Advance(j) /\ UNCHANGED status
            [] o # "done" /\ job[j].result = "empty" -> GiveBack(j, i)
            [] OTHER -> End(j) /\ UNCHANGED status
  BY <1>2 DEF DeleteInput
<1>5. UNCHANGED <<content, eligible, claim, v3, transcript, drafts, expiries>>
  BY DEF DeleteInput, world
<1>6. inbox' \subseteq Inputs /\ \A h \in Inputs \ {i} : h \in inbox' <=> h \in inbox
  BY <1>4 DEF IInv, Typed
<1>7. \/ Advance(j) /\ UNCHANGED status
      \/ job[j].result = "empty" /\ Goto(j, "release") /\ Report(i, "FAILED")
      \/ End(j) /\ UNCHANGED status
  BY <1>4 DEF GiveBack
<1>8. /\ job' \in [Jobs -> Runs] /\ \A k \in Jobs \ {j} : job'[k] = job[k]
      /\ \/ /\ job'[j].input = i /\ job'[j].saved = job[j].saved
            /\ job'[j].pc = "settle" /\ job'[j].result = job[j].result /\ job'[j].step = job[j].step + 1
         \/ /\ job'[j].input = i /\ job'[j].saved = job[j].saved
            /\ job[j].result = "empty" /\ job'[j].pc = "release"
         \/ ~ Working(j)'
  <2>1. CASE Advance(j)
    BY <1>2, <1>3, <2>1, AdvanceMoves
  <2>2. CASE job[j].result = "empty" /\ Goto(j, "release")
    BY <1>2, <2>2, GotoMoves DEF Steps
  <2>3. CASE End(j)
    BY <2>3, EndMoves
  <2>4. QED
    BY <1>7, <2>1, <2>2, <2>3
<1>9. /\ status' \in [Inputs -> Statuses] /\ \A h \in Inputs \ {i} : status'[h] = status[h]
      /\ status'[i] \in {status[i], "FAILED"}
  BY <1>7, ReportWrites DEF Statuses, IInv, Typed
<1>10. Typed'
  BY <1>4, <1>5, <1>6, <1>8, <1>9, CostsBounded DEF IInv, Typed
<1>11. InputOK(i)'
  BY <1>3, <1>5, <1>9 DEF InputOK, HasResult, Grantable
<1>12. JobOK(j)'
  <2>1. CASE ~ Working(j)'
    BY <2>1 DEF JobOK
  <2>2. CASE job'[j].input = i /\ job'[j].pc = "release" /\ job[j].result = "empty" /\ job'[j].saved = job[j].saved
    BY <1>3, <1>5, <2>2 DEF JobOK, Owns
  <2>3. CASE /\ job'[j].input = i /\ job'[j].saved = job[j].saved
             /\ job'[j].pc = "settle" /\ job'[j].result = job[j].result /\ job'[j].step = job[j].step + 1
    <3>1. SettleOK(j)'
      BY <1>2, <1>3, <1>5, <2>3 DEF SettleOK, Results
    <3>2. QED
      BY <1>3, <1>5, <2>3, <3>1 DEF JobOK, Owns
  <2>4. QED
    BY <1>8, <2>1, <2>2, <2>3
<1>13. QED
  BY <1>1, <1>2, <1>5, <1>6, <1>8, <1>9, <1>10, <1>11, <1>12, WorkKeeps

LEMMA ReportKeeps ==
  ASSUME IInv, NEW j \in Jobs, ReportResult(j)
  PROVE  IInv'
<1>1. Settling(j, "report") /\ Working(j)
  BY DEF ReportResult, Settling, At, Working
<1>2. PICK i \in Inputs : i = job[j].input
  BY <1>1, AtWork
<1>3. /\ JobOK(j) /\ InputOK(i) /\ SettleOK(j) /\ job[j].pc = "settle"
      /\ (Owns(j, i) /\ ~ claim[i].expired) \/ claim[i].state = "completed"
      /\ ~ job[j].saved => drafts[i] <= expiries[i]
      /\ job[j].saved => transcript[i] # "none" /\ job[j].result \in {"draft", "article"}
      /\ job[j].step + 1 \in DOMAIN Settlement[job[j].result] /\ job[j].step + 1 \in 1..4
      /\ HasResult(i) /\ (job[j].result \in {"draft", "article"} => transcript[i] # "none")
  BY <1>1, <1>2, AtSettlement
<1>4. UNCHANGED <<content, eligible, inbox, claim, v3, transcript, drafts, expiries, faults>>
  BY DEF ReportResult, world
<1>5. \E s \in {"COMPLETED", "DRAFT_FAILED", "FAILED"} :
        Report(i, s) /\ (s # "FAILED" => job[j].result \in {"draft", "article"})
  BY <1>2 DEF ReportResult
<1>6. /\ status' \in [Inputs -> Statuses] /\ \A h \in Inputs \ {i} : status'[h] = status[h]
      /\ status'[i] # status[i] => status'[i] = "FAILED" \/ job[j].result \in {"draft", "article"}
  BY <1>5, ReportWrites DEF Statuses
<1>7. /\ job' \in [Jobs -> Runs] /\ \A k \in Jobs \ {j} : job'[k] = job[k]
      /\ job'[j].input = i /\ job'[j].saved = job[j].saved
      /\ job'[j].pc = "settle" /\ job'[j].result = job[j].result /\ job'[j].step = job[j].step + 1
  BY <1>2, <1>3, AdvanceMoves DEF ReportResult
<1>8. Typed'
  BY <1>4, <1>6, <1>7 DEF IInv, Typed
<1>9. InputOK(i)'
  BY <1>3, <1>4, <1>6 DEF InputOK, HasResult, Grantable
<1>10. JobOK(j)'
  <2>1. SettleOK(j)'
    BY <1>2, <1>3, <1>4, <1>7 DEF SettleOK, Results
  <2>2. QED
    BY <1>3, <1>4, <1>7, <2>1 DEF JobOK, Owns
<1>11. QED
  BY <1>1, <1>2, <1>4, <1>6, <1>7, <1>8, <1>9, <1>10, WorkKeeps

LEMMA CompleteKeeps ==
  ASSUME IInv, NEW j \in Jobs, CompleteClaim(j)
  PROVE  IInv'
<1>1. Settling(j, "complete") /\ Working(j)
  BY DEF CompleteClaim, Settling, At, Working
<1>2. PICK i \in Inputs : i = job[j].input
  BY <1>1, AtWork
<1>3. /\ JobOK(j) /\ InputOK(i) /\ SettleOK(j) /\ job[j].pc = "settle"
      /\ (Owns(j, i) /\ ~ claim[i].expired) \/ claim[i].state = "completed"
      /\ ~ job[j].saved => drafts[i] <= expiries[i]
      /\ job[j].saved => transcript[i] # "none" /\ job[j].result \in {"draft", "article"}
      /\ HasResult(i)
  BY <1>1, <1>2, AtSettlement
<1>4. PICK o \in Outcomes :
       /\ Costs(o)
       /\ claim' = IF o # "failed" /\ Owns(j, i)
                   THEN [claim EXCEPT ![i] = [Free EXCEPT !.state = "completed"]] ELSE claim
       /\ IF o = "done" /\ Owns(j, i) THEN Goto(j, "next") ELSE CompletionUnknown(j)
  BY <1>2 DEF CompleteClaim
<1>5. UNCHANGED <<content, eligible, inbox, v3, transcript, status, drafts, expiries>>
  BY DEF CompleteClaim, world
<1>6. /\ claim' \in [Inputs -> Claims] /\ \A h \in Inputs \ {i} : claim'[h] = claim[h]
      /\ claim'[i] = claim[i] \/ claim'[i].state = "completed"
  BY <1>4 DEF IInv, Typed, Claims, Free
<1>7. \/ Goto(j, "next")
      \/ job[j].result = "draft" /\ Settle(j, "article")
      \/ job[j].result = "v3" /\ Goto(j, "release")
      \/ End(j)
  BY <1>4 DEF CompletionUnknown
<1>8. /\ job' \in [Jobs -> Runs] /\ \A k \in Jobs \ {j} : job'[k] = job[k]
      /\ \/ ~ Working(j)'
         \/ /\ job[j].result = "draft" /\ job'[j].pc = "settle" /\ job'[j].input = i /\ job'[j].saved = job[j].saved
            /\ job'[j].result = "article" /\ job'[j].step = 1
         \/ /\ job[j].result = "v3" /\ job'[j].pc = "release" /\ job'[j].input = i /\ job'[j].saved = job[j].saved
  <2>1. CASE Goto(j, "next")
    BY <2>1, GotoMoves DEF Steps, Working
  <2>2. CASE job[j].result = "draft" /\ Settle(j, "article")
    BY <1>2, <2>2, SettleMoves DEF Results
  <2>3. CASE job[j].result = "v3" /\ Goto(j, "release")
    BY <1>2, <2>3, GotoMoves DEF Steps
  <2>4. CASE End(j)
    BY <2>4, EndMoves
  <2>5. QED
    BY <1>7, <2>1, <2>2, <2>3, <2>4
<1>9. Typed'
  BY <1>4, <1>5, <1>6, <1>8, CostsBounded DEF IInv, Typed
<1>10. InputOK(i)'
  BY <1>3, <1>5, <1>6 DEF InputOK, HasResult, Grantable
<1>11. JobOK(j)'
  <2>1. (Owns(j, i)' /\ ~ claim'[i].expired) \/ claim'[i].state = "completed"
    BY <1>3, <1>6 DEF Owns
  <2>2. CASE ~ Working(j)'
    BY <2>2 DEF JobOK
  <2>3. CASE /\ job[j].result = "draft" /\ job'[j].pc = "settle" /\ job'[j].input = i /\ job'[j].saved = job[j].saved
             /\ job'[j].result = "article" /\ job'[j].step = 1
    <3>1. job[j].saved /\ i \notin eligible
      BY <1>2, <1>3, <2>3 DEF SettleOK
    <3>2. 1 \in DOMAIN Settlement["article"]
      BY DEF Settlement
    <3>3. QED
      BY <1>3, <1>5, <2>1, <2>3, <3>1, <3>2 DEF JobOK, SettleOK, Owns, Results
  <2>4. CASE /\ job[j].result = "v3" /\ job'[j].pc = "release" /\ job'[j].input = i /\ job'[j].saved = job[j].saved
    BY <1>3, <1>5, <2>1, <2>4 DEF JobOK, Owns
  <2>5. QED
    BY <1>8, <2>2, <2>3, <2>4
<1>12. QED
  BY <1>1, <1>2, <1>5, <1>6, <1>8, <1>9, <1>10, <1>11, WorkKeeps

-----------------------------------------------------------------------------
(* The theorems. *)

LEMMA InitInv == Init => IInv
<1> SUFFICES ASSUME Init
             PROVE  IInv
  OBVIOUS
<1>1. Typed
  BY MiningOK, IdleIsRun DEF Init, Typed, Claims, Free, Stages, Statuses
<1>2. Alone /\ \A j \in Jobs : JobOK(j)
  BY DEF Init, Alone, JobOK, Working, Idle
<1>3. \A i \in Inputs : InputOK(i)
  BY DEF Init, InputOK, Free, HasResult
<1>4. QED
  BY <1>1, <1>2, <1>3 DEF IInv

LEMMA NextInv == IInv /\ [Next]_vars => IInv'
<1> SUFFICES ASSUME IInv, [Next]_vars
             PROVE  IInv'
  OBVIOUS
<1>1. CASE UNCHANGED vars
  <2>1. Typed' /\ Alone'
    BY <1>1 DEF IInv, vars, Typed, Alone, Working
  <2>2. \A j \in Jobs : JobOK(j)'
    BY <1>1 DEF IInv, vars, JobOK, SettleOK, Owns, Working
  <2>3. \A i \in Inputs : InputOK(i)'
    BY <1>1 DEF IInv, vars, InputOK, HasResult, Grantable
  <2>4. QED
    BY <2>1, <2>2, <2>3 DEF IInv
<1>2. ASSUME NEW j \in Jobs, Schedule(j) \/ Dispatch(j)
      PROVE  IInv'
  <2>1. inbox \subseteq Inputs
    BY DEF IInv, Typed
  <2>2. \E files \in SUBSET Inputs : Start(j, files)
    BY <1>2, <2>1 DEF Schedule, Dispatch
  <2>3. QED
    BY <2>2, StartKeeps
<1>3. ASSUME NEW j \in Jobs, JobNext(j)
      PROVE  IInv'
  BY <1>3, ClaimKeeps, FinishKeeps, ReleaseKeeps, RouteKeeps, AcceptKeeps, ReadKeeps, SaveReadyKeeps, PublishKeeps,
     SaveResultKeeps, DeleteKeeps, ReportKeeps, CompleteKeeps DEF JobNext
<1>4. ASSUME NEW j \in Jobs, Die(j)
      PROVE  IInv'
  BY <1>4, FinishKeeps
<1>5. ASSUME NEW i \in Inputs, LeaseExpires(i)
      PROVE  IInv'
  BY <1>5, ExpiryKeeps
<1>6. QED
  BY <1>1, <1>2, <1>3, <1>4, <1>5 DEF Next

\* The claims, the order of the writes and the holds keep their invariant
\* (main, handleMiningClaim) for any jobs, inputs and faults.
THEOREM Invariance == Spec => []IInv
<1>1. QED
  BY InitInv, NextInv, PTL DEF Spec

\* Speech leaves the inbox, or has its claim closed, only for an article or a
\* V3 run, and the App is told of an article only when there is one.
THEOREM DoneCorrect == Spec => []DoneIsDone
<1>1. IInv => DoneIsDone
  <2> SUFFICES ASSUME IInv
               PROVE  DoneIsDone
    OBVIOUS
  <2>1. ASSUME NEW j \in Jobs
        PROVE  /\ job[j].pc \in Steps \cup {"idle"} /\ job[j].todo \subseteq Inputs
               /\ job[j].input \in Inputs \cup {"none"} /\ job[j].saved \in BOOLEAN
               /\ job[j].pc = "settle" => /\ job[j].result \in DOMAIN Settlement
                                          /\ job[j].step \in DOMAIN Settlement[job[j].result]
    <3>1. job[j] \in Runs
      BY DEF IInv, Typed
    <3>2. job[j].pc = "settle" => SettleOK(j)
      BY DEF IInv, JobOK, Working
    <3>3. DOMAIN Settlement = Results
      BY DEF Settlement, Results
    <3>4. QED
      BY <3>1, <3>2, <3>3 DEF Runs, Positions, SettleOK
  <2>2. TypeOK
    BY <2>1 DEF IInv, Typed, TypeOK
  <2>3. NothingIsLost /\ ReportedIsStored
    BY DEF IInv, InputOK, NothingIsLost, ReportedIsStored
  <2>4. QED
    BY <2>2, <2>3 DEF DoneIsDone
<1>2. QED
  BY <1>1, Invariance, PTL

\* An input gets a second draft only under a second lease.
THEOREM DraftCorrect == Spec => []OneDraftPerLease
<1>1. IInv => OneDraftPerLease
  BY DEF IInv, InputOK, OneDraftPerLease
<1>2. QED
  BY <1>1, Invariance, PTL

\* No input is under the hands of two jobs.
THEOREM WorkerCorrect == Spec => []OneWorker
<1>1. IInv => OneWorker
  <2> SUFFICES ASSUME IInv, NEW j \in Jobs, NEW k \in Jobs, j # k,
                      job[j].input = job[k].input, job[j].input # "none", job[j].pc # "next", job[k].pc # "next"
               PROVE  FALSE
    BY DEF OneWorker
  <2>1. QED
    BY DEF IInv, Typed, Runs, Alone, Working
<1>2. QED
  BY <1>1, Invariance, PTL

\* An input marked for the V3 route gets no legacy article and no legacy draft.
THEOREM RouteCorrect == Spec => []NeverBothRoutes
<1>1. IInv => NeverBothRoutes
  BY DEF IInv, InputOK, NeverBothRoutes
<1>2. QED
  BY <1>1, Invariance, PTL

==============================================================================
