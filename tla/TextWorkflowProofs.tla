-------------------------- MODULE TextWorkflowProofs --------------------------
(***************************************************************************)
(* Proof that the text half has paid work done once, for any number of     *)
(* faults at any place: an agent is asked once per attempt, and a recovery *)
(* never has a second draft written beside one that may be stored. What    *)
(* excludes it is the order of the writes: the App's retry is answered     *)
(* only after D1 has a writing failure, D1 has it only after the call was  *)
(* closed as failed, and an instance whose call is closed goes nowhere.    *)
(* And that the recording carries a frozen article only when both ledgers  *)
(* have all it rests on, by what an instance knows of them at a commit.    *)
(***************************************************************************)
EXTENDS TextWorkflow, TLAPS

-----------------------------------------------------------------------------
(* The inductive invariant.                                                *)

CommitSteps == {"brief", "draft", "review", "dispatch", "draft2", "review2", "frozen"}
CalledSteps == {"draft", "review", "draft2", "review2"}
StepNames == StateSteps \cup CallSteps \cup CommitSteps

StatePcs  == {"d1", "main"}
CallPcs   == {"ask", "send", "keep", "close"}
CommitPcs == {"store", "look", "event", "receipt", "verify"}
SettlePcs == {"settle", "closeHeld"}
HoldPcs   == {"hold", "holdMain"}
FailPcs   == {"fail", "failMain"}
Pcs == StatePcs \cup CallPcs \cup CommitPcs \cup SettlePcs \cup HoldPcs \cup FailPcs \cup {"resume"}

Results == {"open", "succeeded", "retryable", "failed", "unknown"}
Closings == {"failed", "retryable", "unknown", "broken"}

Position ==
  [run : {"none", "live", "done", "errored"}, step : StepNames, pc : Pcs, tries : Nat, main : Nat, d1 : Nat,
   atMain : Nat, atD1 : Nat, arts : SUBSET Artifacts, result : {"none", "restarted"} \cup Closings]

\* A position belongs to the kind of its step.
Placed(k) ==
  /\ k.pc \in StatePcs => k.step \in StateSteps
  /\ k.pc \in CallPcs \cup FailPcs => k.step \in CallSteps
  /\ k.pc \in CommitPcs => k.step \in CommitSteps
  /\ k.pc \in SettlePcs => k.step \in CalledSteps
  /\ k.pc = "resume" => k.step = "askDraft"

\* The steps that come after the revision was requested.
Revision == {"writing2", "askDraft2", "draft2", "reviewing2", "askReview2", "review2"}

\* The draft of the first instance was given up.
GivenUp == LastCall("draft") = "failed"

\* What a live instance relies on where it stands.
Relies(i, k) ==
  /\ k.pc \in {"send", "keep", "close"} => LastCall(Art(i, k.step)) = "open"
  /\ k.pc = "close" => k.result \in Closings
  /\ k.pc = "send" => asks[Art(i, k.step)] < Len(calls[Art(i, k.step)])
  /\ k.pc = "fail" => LastCall(Art(i, k.step)) \in {"failed", "retryable"}
  /\ k.step \in Revision => RevisionRequested
  /\ k.step = "dispatch" /\ k.pc \in {"receipt", "verify"} => RevisionRequested
  /\ i = "first" /\ GivenUp => k.step = "askDraft" /\ k.pc \in {"ask"} \cup HoldPcs \cup FailPcs

\* Every attempt but the last may be repeated, and none is asked twice.
CallsOK ==
  /\ calls \in [Called -> Seq(Results)] /\ asks \in [Called -> Nat]
  /\ AskedOncePerAttempt

\* The keys of the events of both ledgers.
LogKeys == {"state", "artifact", "hold", "failed", "app"} \X
           (StepNames \cup Artifacts \cup {"3", "5", "6", "7", "9", "retry", "resume", "cancel"})

\* D1 shows a writing failure, or the App's way out of it, of a draft that
\* was given up.
FailureOK ==
  /\ d1.log \in Seq(LogKeys) /\ main.log \in Seq(LogKeys)
  /\ d1.code = NonRetryable => RevisionRequested \/ GivenUp
  /\ Has(d1.log, <<"app", "resume">>) => GivenUp

\* A recovery follows a draft that was given up, and is not stored.
RecoveryOK ==
  /\ wf["recovery"].run # "none" => GivenUp
  /\ calls["redraft"] # <<>> => wf["recovery"].run # "none" /\ "draft" \notin kept

InstancesOK ==
  /\ wf \in [Instances -> Position]
  /\ \A i \in Instances : Placed(wf[i]) /\ (wf[i].run = "live" => Relies(i, wf[i]))

IInv == CallsOK /\ FailureOK /\ RecoveryOK /\ InstancesOK

-----------------------------------------------------------------------------
(* Steps, artifacts and positions.                                         *)

\* Which artifact a step is about.
LEMMA ArtIs ==
  ASSUME NEW i \in Instances, NEW s \in StepNames
  PROVE  /\ s \in CallSteps \cup CalledSteps => Art(i, s) \in Called
         /\ s \in CommitSteps => Art(i, s) \in Artifacts
         /\ Art(i, s) = "draft" => i = "first" /\ s \in {"askDraft", "draft"}
         /\ Art(i, s) = "redraft" => i = "recovery" /\ s \in {"askDraft", "draft"}
         /\ s = "dispatch" => Art(i, s) = "dispatch"
BY DEF Instances, StepNames, StateSteps, CallSteps, CommitSteps, CalledSteps, Art, Called, Artifacts

\* Where a step begins.
LEMMA BeginIs ==
  ASSUME NEW s \in StepNames
  PROVE  /\ Begin(s) \in {"d1", "ask", "store"} /\ Begin(s) \in Pcs
         /\ Begin(s) = "d1" => s \in StateSteps
         /\ Begin(s) = "ask" => s \in CallSteps
         /\ Begin(s) = "store" => s \in CommitSteps
         /\ s = "askDraft" => Begin(s) = "ask"
BY DEF StepNames, Begin, Pcs, StatePcs, CallPcs, CommitPcs, CallSteps, StateSteps

\* The step after s: the revision follows the request for it, the second review
\* the revised draft, and the article is frozen after a review that passed.
Follows(s, n) ==
  /\ n \in StepNames
  /\ n \in Revision => s \in Revision \cup {"dispatch"}
  /\ s \in Revision \cup {"dispatch"} => n \in Revision \cup {"frozen"}
  /\ n \in {"reviewing2", "askReview2", "review2"} => s \in {"draft2", "reviewing2", "askReview2"}
  /\ n = "frozen" => s \in {"review", "review2"} /\ verdict[s] = "pass"

LEMMA FollowIs ==
  ASSUME NEW s \in StepNames, ~ IsLast(s)
  PROVE  Follows(s, Follow(s))
<1>1. CASE s = "review" /\ verdict["review"] = "pass"
  BY <1>1 DEF Follow, StepNames, CommitSteps, Revision, Follows
<1>2. CASE ~ (s = "review" /\ verdict["review"] = "pass")
  <2>1. PICK n \in 1..16 : Steps[n] = s
    BY DEF StepNames, StateSteps, CallSteps, CommitSteps, Steps
  <2>2. DOMAIN Steps = 1..16
    BY DEF Steps
  <2>3. ASSUME NEW m \in 1..16, NEW l \in 1..16, Steps[m] = Steps[l]
        PROVE  m = l
    BY <2>3 DEF Steps
  <2>4. (CHOOSE m \in DOMAIN Steps : Steps[m] = s) = n
    BY <2>1, <2>2, <2>3
  <2>5. Follow(s) = Steps[1 + n]
    <3>1. Follow(s) = Steps[1 + CHOOSE m \in DOMAIN Steps : Steps[m] = s]
      BY <1>2 DEF Follow
    <3>2. QED
      BY <3>1, <2>4
  <2>6. n # 16
    <3>1. Steps[16] = "frozen"
      BY DEF Steps
    <3>2. QED
      BY <2>1, <3>1 DEF IsLast
  <2>7. s = "review2" => verdict[s] = "pass"
    BY DEF IsLast, ReviewState
  <2>8. QED
    BY <2>1, <2>5, <2>6, <2>7 DEF Steps, StepNames, StateSteps, CallSteps, CommitSteps, Revision, Follows
<1>3. QED
  BY <1>1, <1>2

\* A log with one more entry.
LEMMA LogGrows ==
  ASSUME NEW S, NEW log \in Seq(S), NEW key \in S
  PROVE  /\ Append(log, key) \in Seq(S)
         /\ \A x : Has(Append(log, key), x) <=> Has(log, x) \/ x = key
<1>1. Append(log, key) \in Seq(S) /\ Len(Append(log, key)) = Len(log) + 1
  OBVIOUS
<1>2. ASSUME NEW x, Has(log, x) PROVE Has(Append(log, key), x)
  BY <1>1, <1>2 DEF Has
<1>3. Has(Append(log, key), key)
  <2>1. Append(log, key)[Len(log) + 1] = key /\ Len(log) + 1 \in DOMAIN Append(log, key)
    BY <1>1
  <2>2. QED
    BY <2>1 DEF Has
<1>4. ASSUME NEW x, Has(Append(log, key), x) PROVE Has(log, x) \/ x = key
  BY <1>1, <1>4 DEF Has
<1>5. QED
  BY <1>1, <1>2, <1>3, <1>4

\* The attempts of a call with one more, and with the last one settled.
LEMMA Opened ==
  ASSUME NEW s \in Seq(Results), s # <<>> => s[Len(s)] = "retryable",
         \A n \in 1..Len(s) - 1 : s[n] = "retryable"
  PROVE  /\ Append(s, "open") \in Seq(Results) /\ Append(s, "open") # <<>>
         /\ Len(Append(s, "open")) = Len(s) + 1 /\ Append(s, "open")[Len(s) + 1] = "open"
         /\ \A n \in 1..Len(s) : Append(s, "open")[n] = "retryable"
<1>1. Append(s, "open") \in Seq(Results) /\ Len(Append(s, "open")) = Len(s) + 1 /\ Append(s, "open")[Len(s) + 1] = "open"
  BY DEF Results
<1>2. ASSUME NEW n \in 1..Len(s) PROVE Append(s, "open")[n] = "retryable"
  <2>1. Append(s, "open")[n] = s[n]
    OBVIOUS
  <2>2. CASE n = Len(s)
    BY <2>1, <2>2
  <2>3. CASE n # Len(s)
    BY <2>1, <2>3
  <2>4. QED
    BY <2>2, <2>3
<1>3. QED
  BY <1>1, <1>2

LEMMA Settled ==
  ASSUME NEW s \in Seq(Results), s # <<>>, NEW r \in Results,
         \A n \in 1..Len(s) - 1 : s[n] = "retryable"
  PROVE  LET t == [s EXCEPT ![Len(s)] = r] IN
         /\ t \in Seq(Results) /\ t # <<>> /\ Len(t) = Len(s) /\ t[Len(s)] = r
         /\ \A n \in 1..Len(s) - 1 : t[n] = "retryable"
OBVIOUS


-----------------------------------------------------------------------------
(* What a move of an instance leaves.                                      *)

Moves(i, x) == x \in Position /\ wf' = [wf EXCEPT ![i] = x]

LEMMA GotoIs ==
  ASSUME wf \in [Instances -> Position], NEW i \in Instances, NEW pc \in Pcs, Goto(i, pc)
  PROVE  \E x : /\ Moves(i, x) /\ x.run = wf[i].run /\ x.step = wf[i].step /\ x.pc = pc
                /\ x.result = wf[i].result /\ x.arts = wf[i].arts
<1> DEFINE x == [wf[i] EXCEPT !.pc = pc]
<1>1. wf[i] \in Position
  OBVIOUS
<1>2. /\ x \in Position /\ x.run = wf[i].run /\ x.step = wf[i].step /\ x.pc = pc
      /\ x.result = wf[i].result /\ x.arts = wf[i].arts
  BY <1>1 DEF Position
<1>3. wf' = [wf EXCEPT ![i] = x]
  BY <1>1 DEF Goto
<1>4. Moves(i, x)
  BY <1>2, <1>3 DEF Moves
<1>5. QED
  BY <1>2, <1>4

LEMMA ErrorIs ==
  ASSUME wf \in [Instances -> Position], NEW i \in Instances, NEW r \in {"done", "errored"},
         wf' = [wf EXCEPT ![i].run = r]
  PROVE  \E x : Moves(i, x) /\ x.run = r /\ x.step = wf[i].step /\ x.pc = wf[i].pc
<1> DEFINE x == [wf[i] EXCEPT !.run = r]
<1>1. wf[i] \in Position
  OBVIOUS
<1>2. x \in Position /\ x.run = r /\ x.step = wf[i].step /\ x.pc = wf[i].pc
  BY <1>1 DEF Position
<1>3. wf' = [wf EXCEPT ![i] = x]
  BY <1>1
<1>4. Moves(i, x)
  BY <1>2, <1>3 DEF Moves
<1>5. QED
  BY <1>2, <1>4

LEMMA CloseIs ==
  ASSUME wf \in [Instances -> Position], NEW i \in Instances, NEW r \in Closings, Close(i, r)
  PROVE  \E x : /\ Moves(i, x) /\ x.run = wf[i].run /\ x.step = wf[i].step /\ x.pc = "close"
                /\ x.result = r /\ x.arts = wf[i].arts
<1> DEFINE x == [[wf[i] EXCEPT !.pc = "close"] EXCEPT !.result = r]
<1>1. wf[i] \in Position
  OBVIOUS
<1>2. x \in Position /\ x.run = wf[i].run /\ x.step = wf[i].step /\ x.pc = "close" /\ x.result = r /\ x.arts = wf[i].arts
  BY <1>1 DEF Position, Pcs, CallPcs
<1>3. wf' = [wf EXCEPT ![i] = x]
  BY <1>1 DEF Close
<1>4. Moves(i, x)
  BY <1>2, <1>3 DEF Moves
<1>5. QED
  BY <1>2, <1>4

\* An instance that is not live relies on nothing.
Over(i, x) == Moves(i, x) /\ x.run \in {"done", "errored"} /\ Placed(x)

LEMMA RetryIs ==
  ASSUME wf \in [Instances -> Position], NEW i \in Instances, Placed(wf[i]), Retry(i)
  PROVE  \E x : \/ Over(i, x)
                \/ /\ Moves(i, x) /\ x.run = wf[i].run /\ x.step = wf[i].step /\ x.pc = Begin(x.step)
                   /\ Placed(x) /\ x.arts = wf[i].arts
<1>1. wf[i] \in Position /\ wf[i].step \in StepNames
  BY DEF Position
<1>2. CASE wf[i].tries = 3
  <2>1. wf' = [wf EXCEPT ![i].run = "errored"]
    BY <1>2 DEF Retry, Error
  <2>2. PICK x : Moves(i, x) /\ x.run = "errored" /\ x.step = wf[i].step /\ x.pc = wf[i].pc
    BY <2>1, ErrorIs
  <2>3. Placed(x)
    BY <2>2 DEF Placed
  <2>4. QED
    BY <2>2, <2>3 DEF Over
<1>3. CASE wf[i].tries # 3
  <2> DEFINE x == [[wf[i] EXCEPT !.tries = @ + 1] EXCEPT !.pc = Begin(wf[i].step)]
  <2>1. Begin(wf[i].step) \in Pcs
    BY <1>1, BeginIs
  <2>2. /\ x \in Position /\ x.run = wf[i].run /\ x.step = wf[i].step /\ x.pc = Begin(wf[i].step)
        /\ x.arts = wf[i].arts
    <3> DEFINE y == [wf[i] EXCEPT !.tries = @ + 1]
    <3>1. y \in Position /\ y.run = wf[i].run /\ y.step = wf[i].step /\ y.arts = wf[i].arts
      BY <1>1 DEF Position
    <3>2. x = [y EXCEPT !.pc = Begin(wf[i].step)]
      OBVIOUS
    <3> HIDE DEF y, x
    <3>3. QED
      BY <2>1, <3>1, <3>2 DEF Position
  <2>3. wf' = [wf EXCEPT ![i] = x]
    BY <1>1, <1>3 DEF Retry
  <2>4. Placed(x)
    <3> HIDE DEF x
    <3>1. /\ x.pc \in {"d1", "ask", "store"}
          /\ x.pc = "d1" => x.step \in StateSteps
          /\ x.pc = "ask" => x.step \in CallSteps
          /\ x.pc = "store" => x.step \in CommitSteps
      BY <1>1, <2>2, BeginIs
    <3>2. QED
      BY <3>1 DEF Placed, StatePcs, CallPcs, FailPcs, CommitPcs, SettlePcs
  <2>5. Moves(i, x)
    BY <2>2, <2>3 DEF Moves
  <2>6. QED
    BY <2>2, <2>4, <2>5
<1>4. QED
  BY <1>2, <1>3

LEMMA DoneIs ==
  ASSUME wf \in [Instances -> Position], NEW i \in Instances, Placed(wf[i]), NEW m \in Nat, NEW d \in Nat,
         Done(i, m, d)
  PROVE  \E x : \/ Over(i, x)
                \/ /\ Moves(i, x) /\ x.run = wf[i].run /\ x.step \in StepNames /\ x.pc = Begin(x.step)
                   /\ Follows(wf[i].step, x.step) /\ wf[i].step # "frozen"
                   /\ x.arts = IF wf[i].step \in StateSteps \cup CallSteps THEN wf[i].arts
                               ELSE wf[i].arts \cup {Art(i, wf[i].step)}
                   /\ Placed(x)
<1> DEFINE s == wf[i].step
<1>1. wf[i] \in Position /\ s \in StepNames
  BY DEF Position
<1>2. CASE IsLast(s)
  <2>1. wf' = [wf EXCEPT ![i].run = "done"]
    BY <1>2 DEF Done, Finish
  <2>2. PICK x : Moves(i, x) /\ x.run = "done" /\ x.step = wf[i].step /\ x.pc = wf[i].pc
    BY <2>1, ErrorIs
  <2>3. Placed(x)
    BY <2>2 DEF Placed
  <2>4. QED
    BY <2>2, <2>3 DEF Over
<1>3. CASE ~ IsLast(s)
  <2> DEFINE arts == IF s \in StateSteps \cup CallSteps THEN wf[i].arts ELSE wf[i].arts \cup {Art(i, s)}
             x == [wf[i] EXCEPT !.step = Follow(s), !.pc = Begin(Follow(s)), !.tries = 1, !.main = m,
                                !.d1 = d, !.arts = arts]
  <2>1. Follows(s, Follow(s)) /\ Follow(s) \in StepNames /\ s # "frozen"
    BY <1>1, <1>3, FollowIs DEF Follows, IsLast
  <2>2. Begin(Follow(s)) \in Pcs
    BY <2>1, BeginIs
  <2>3. arts \in SUBSET Artifacts
    <3>1. s \in CommitSteps => Art(i, s) \in Artifacts
      BY <1>1, ArtIs
    <3>2. wf[i].arts \in SUBSET Artifacts
      BY <1>1 DEF Position
    <3>3. QED
      BY <1>1, <3>1, <3>2 DEF StepNames
  <2>4. wf' = [wf EXCEPT ![i] = x]
    <3>1. wf' = [wf EXCEPT ![i].step = Follow(s), ![i].pc = Begin(Follow(s)), ![i].tries = 1, ![i].main = m,
                           ![i].d1 = d, ![i].arts = arts]
      BY <1>1, <1>3 DEF Done, Position
    <3>2. QED
      BY <1>1, <3>1
  <2> HIDE DEF s, arts
  <2>5. x \in Position /\ x.run = wf[i].run /\ x.step = Follow(s) /\ x.pc = Begin(Follow(s)) /\ x.arts = arts
    BY <1>1, <2>1, <2>2, <2>3 DEF Position
  <2>6. Placed(x)
    <3> HIDE DEF x
    <3>1. /\ x.pc \in {"d1", "ask", "store"}
          /\ x.pc = "d1" => x.step \in StateSteps
          /\ x.pc = "ask" => x.step \in CallSteps
          /\ x.pc = "store" => x.step \in CommitSteps
      BY <2>1, <2>5, BeginIs
    <3>2. QED
      BY <3>1 DEF Placed, StatePcs, CallPcs, FailPcs, CommitPcs, SettlePcs
  <2>7. Moves(i, x)
    BY <2>4, <2>5 DEF Moves
  <2>8. QED
    BY <2>1, <2>5, <2>6, <2>7 DEF s, arts
<1>4. QED
  BY <1>2, <1>3

-----------------------------------------------------------------------------
(* What a step must keep for the invariant to be kept.                     *)

\* The instances do not meet: both are live only once the first one's draft is
\* given up, which leaves it to end at a call the recovery never looks at.
LEMMA Apart ==
  ASSUME IInv, NEW i \in Instances, NEW j \in Instances, i # j, wf[i].run = "live", wf[j].run = "live"
  PROVE  /\ GivenUp
         /\ wf["first"].step = "askDraft"
         /\ Art(i, wf[i].step) # Art(j, wf[j].step)
<1>1. {i, j} = {"first", "recovery"}
  BY DEF Instances
<1>2. GivenUp
  <2>1. wf["recovery"].run = "live"
    BY <1>1
  <2>2. QED
    BY <2>1 DEF IInv, RecoveryOK
<1>3. wf["first"].step = "askDraft"
  <2>1. Relies("first", wf["first"])
    BY <1>1 DEF IInv, InstancesOK, Instances
  <2>2. QED
    BY <1>2, <2>1 DEF Relies
<1>4. Art("first", wf["first"].step) = "draft"
  BY <1>3 DEF Art
<1>5. Art("recovery", wf["recovery"].step) # "draft"
  <2>1. wf["recovery"] \in Position
    BY DEF IInv, InstancesOK, Instances
  <2>2. wf["recovery"].step \in StepNames
    BY <2>1 DEF Position
  <2>3. QED
    BY <2>2, ArtIs DEF Instances
<1>6. QED
  BY <1>1, <1>2, <1>3, <1>4, <1>5

\* What a step of instance i does to the calls, the ledgers and the artifacts.
Safe(i) ==
  /\ CallsOK' /\ FailureOK'
  /\ \A c \in Called \ {Art(i, wf[i].step)} : calls'[c] = calls[c] /\ asks'[c] = asks[c]
  /\ RevisionRequested => RevisionRequested'
  /\ GivenUp => GivenUp'
  /\ calls'["redraft"] # <<>> => calls["redraft"] # <<>> \/ (i = "recovery" /\ "draft" \notin kept)
  /\ "draft" \in kept' => "draft" \in kept \/ ~ GivenUp

\* What the other instance relies on is not touched.
LEMMA OtherRelies ==
  ASSUME IInv, NEW i \in Instances, NEW j \in Instances, i # j, wf[i].run = "live", wf[j].run = "live",
         Safe(i), NEW k, k = wf[j]
  PROVE  Relies(j, k)'
<1> DEFINE c == Art(j, k.step)
<1>1. Relies(j, k) /\ Placed(k) /\ k \in Position
  BY DEF IInv, InstancesOK
<1>2. GivenUp /\ GivenUp'
  BY Apart DEF Safe
<1>3. ASSUME c \in Called PROVE calls'[c] = calls[c] /\ asks'[c] = asks[c]
  BY <1>3, Apart DEF Safe
<1>4. k.step \in CallSteps => c \in Called
  BY <1>1, ArtIs DEF Position
<1>5. k.pc \in {"send", "keep", "close", "fail"} => c \in Called
  BY <1>1, <1>4 DEF Placed, CallPcs, FailPcs
<1>6. Art(j, k.step)' = c
  BY DEF Art
<1>7. ASSUME c \in Called PROVE LastCall(c)' = LastCall(c)
  BY <1>3, <1>7 DEF LastCall
<1>8. /\ k.pc \in {"send", "keep", "close"} => LastCall(c)' = "open"
      /\ k.pc = "send" => asks'[c] < Len(calls'[c])
      /\ k.pc = "fail" => LastCall(c)' \in {"failed", "retryable"}
  BY <1>1, <1>3, <1>5, <1>7 DEF Relies
<1>9. /\ k.pc = "close" => k.result \in Closings
      /\ k.step \in Revision => RevisionRequested'
      /\ k.step = "dispatch" /\ k.pc \in {"receipt", "verify"} => RevisionRequested'
      /\ j = "first" => k.step = "askDraft" /\ k.pc \in {"ask"} \cup HoldPcs \cup FailPcs
  BY <1>1, <1>2 DEF Relies, Safe
<1> HIDE DEF c
<1>10. QED
  BY <1>6, <1>8, <1>9 DEF Relies

\* A step of a live instance.
LEMMA StepKeeps ==
  ASSUME IInv, NEW i \in Instances, wf[i].run = "live", Safe(i), NEW x, Moves(i, x), Placed(x),
         x.run # "none", x.run = "live" => Relies(i, x)'
  PROVE  IInv'
<1>1. wf \in [Instances -> Position] /\ x \in Position /\ wf' = [wf EXCEPT ![i] = x]
  BY DEF IInv, InstancesOK, Moves
<1>2. wf' \in [Instances -> Position] /\ wf'[i] = x
  BY <1>1
<1>3. ASSUME NEW j \in Instances, j # i PROVE wf'[j] = wf[j]
  BY <1>1, <1>3
<1>4. CallsOK' /\ FailureOK'
  BY DEF Safe
<1>5. RecoveryOK'
  <2>1. wf'["recovery"].run # "none" => wf["recovery"].run # "none"
    BY <1>3 DEF Instances
  <2>2. wf'["recovery"].run # "none" => GivenUp'
    BY <2>1 DEF IInv, RecoveryOK, Safe
  <2>3. ASSUME calls'["redraft"] # <<>>
        PROVE  wf["recovery"].run # "none" /\ "draft" \notin kept
    BY <2>3 DEF IInv, RecoveryOK, Safe
  <2>4. ASSUME calls'["redraft"] # <<>>
        PROVE  wf'["recovery"].run # "none" /\ "draft" \notin kept'
    <3>1. GivenUp /\ "draft" \notin kept'
      BY <2>3, <2>4 DEF IInv, RecoveryOK, Safe
    <3>2. CASE i = "recovery"
      BY <1>2, <3>1, <3>2
    <3>3. CASE i # "recovery"
      BY <1>3, <2>3, <2>4, <3>1, <3>3 DEF Instances
    <3>4. QED
      BY <3>2, <3>3
  <2>5. QED
    BY <2>2, <2>4 DEF RecoveryOK
<1>6. ASSUME NEW j \in Instances
      PROVE  (Placed(wf[j]) /\ (wf[j].run = "live" => Relies(j, wf[j])))'
  <2>1. CASE j = i
    <3>1. (wf[j] = x)' /\ Placed(x)' /\ ((x.run = "live") => Relies(i, x)')
      BY <1>2, <2>1 DEF Placed
    <3>2. QED
      BY <2>1, <3>1
  <2>2. CASE j # i
    <3>1. wf'[j] = wf[j]
      BY <1>3, <2>2
    <3>2. Placed(wf[j])
      BY DEF IInv, InstancesOK
    <3>3. PICK k : k = wf[j]
      OBVIOUS
    <3>4. k.run = "live" => Relies(j, k)'
      BY <2>2, <3>3, OtherRelies
    <3>5. (wf[j] = k)' /\ Placed(k)'
      BY <3>1, <3>2, <3>3 DEF Placed
    <3>6. QED
      BY <3>4, <3>5
  <2>3. QED
    BY <2>1, <2>2
<1>7. QED
  BY <1>2, <1>4, <1>5, <1>6 DEF IInv, InstancesOK

\* A step that leaves the calls alone.
LEMMA Quiet ==
  ASSUME IInv, NEW i \in Instances, UNCHANGED <<calls, asks>>, FailureOK',
         RevisionRequested => RevisionRequested', "draft" \in kept' => "draft" \in kept \/ ~ GivenUp
  PROVE  Safe(i) /\ (GivenUp' <=> GivenUp) /\ \A c : LastCall(c)' = LastCall(c)
<1>1. \A c : LastCall(c)' = LastCall(c)
  BY DEF LastCall
<1>2. GivenUp' <=> GivenUp
  BY DEF GivenUp, LastCall
<1>3. CallsOK'
  BY DEF IInv, CallsOK, AskedOncePerAttempt
<1>4. QED
  BY <1>1, <1>2, <1>3 DEF Safe

\* A step that writes to no ledger, and stores no draft that was given up.
LEMMA Still ==
  ASSUME IInv, NEW i \in Instances, UNCHANGED <<calls, asks, d1, main>>,
         "draft" \in kept' => "draft" \in kept \/ ~ GivenUp
  PROVE  Safe(i) /\ (GivenUp' <=> GivenUp) /\ (RevisionRequested' <=> RevisionRequested)
         /\ \A c : LastCall(c)' = LastCall(c)
<1>1. RevisionRequested' <=> RevisionRequested
  BY DEF RevisionRequested, Projected, Has
<1>2. GivenUp' <=> GivenUp
  BY DEF GivenUp, LastCall
<1>3. FailureOK'
  BY <1>1, <1>2 DEF IInv, FailureOK, Has
<1>4. QED
  BY <1>1, <1>2, <1>3, Quiet

LEMMA OverKeeps ==
  ASSUME IInv, NEW i \in Instances, wf[i].run = "live", Safe(i), NEW x, Over(i, x)
  PROVE  IInv'
<1>1. Moves(i, x) /\ Placed(x) /\ x.run # "none" /\ x.run # "live"
  BY DEF Over
<1>2. QED
  BY <1>1, StepKeeps

LEMMA ErrorKeeps ==
  ASSUME IInv, NEW i \in Instances, wf[i].run = "live", Safe(i), Error(i) \/ Finish(i)
  PROVE  IInv'
<1>1. wf \in [Instances -> Position] /\ Placed(wf[i])
  BY DEF IInv, InstancesOK
<1>2. PICK r \in {"done", "errored"} : wf' = [wf EXCEPT ![i].run = r]
  BY DEF Error, Finish
<1>3. PICK x : Moves(i, x) /\ x.run = r /\ x.step = wf[i].step /\ x.pc = wf[i].pc
  BY <1>1, <1>2, ErrorIs
<1>4. Over(i, x)
  BY <1>1, <1>3 DEF Over, Placed
<1>5. QED
  BY <1>4, OverKeeps

\* A step fails: it begins again, or the instance ends.
LEMMA RetryKeeps ==
  ASSUME IInv, NEW i \in Instances, wf[i].run = "live", Safe(i), Retry(i),
         i = "first" /\ GivenUp' => wf[i].step = "askDraft"
  PROVE  IInv'
<1>1. wf \in [Instances -> Position] /\ Placed(wf[i]) /\ Relies(i, wf[i])
  BY DEF IInv, InstancesOK
<1>2. PICK x : \/ Over(i, x)
               \/ /\ Moves(i, x) /\ x.run = wf[i].run /\ x.step = wf[i].step /\ x.pc = Begin(x.step)
                  /\ Placed(x)
  BY <1>1, RetryIs
<1>3. CASE Over(i, x)
  BY <1>3, OverKeeps
<1>4. CASE /\ Moves(i, x) /\ x.run = wf[i].run /\ x.step = wf[i].step /\ x.pc = Begin(x.step)
           /\ Placed(x)
  <2>1. x.step \in StepNames
    BY <1>4 DEF Moves, Position
  <2>2. x.pc \in {"d1", "ask", "store"} /\ (x.step = "askDraft" => x.pc = "ask")
    BY <1>4, <2>1, BeginIs
  <2>3. x.step \in Revision => RevisionRequested'
    BY <1>1, <1>4 DEF Relies, Safe
  <2>4. i = "first" /\ GivenUp' => x.step = "askDraft"
    BY <1>4
  <2>5. Relies(i, x)'
    BY <2>2, <2>3, <2>4 DEF Relies
  <2>6. QED
    BY <1>4, <2>5, StepKeeps
<1>5. QED
  BY <1>2, <1>3, <1>4

\* A step is done.
LEMMA DoneKeeps ==
  ASSUME IInv, NEW i \in Instances, wf[i].run = "live", Safe(i), NEW m \in Nat, NEW d \in Nat, Done(i, m, d),
         wf[i].step = "dispatch" => RevisionRequested, ~ (i = "first" /\ GivenUp')
  PROVE  IInv'
<1>1. wf \in [Instances -> Position] /\ Placed(wf[i]) /\ Relies(i, wf[i])
  BY DEF IInv, InstancesOK
<1>2. PICK x : \/ Over(i, x)
               \/ /\ Moves(i, x) /\ x.run = wf[i].run /\ x.step \in StepNames /\ x.pc = Begin(x.step)
                  /\ Follows(wf[i].step, x.step)
                  /\ Placed(x)
  BY <1>1, DoneIs
<1>3. CASE Over(i, x)
  BY <1>3, OverKeeps
<1>4. CASE /\ Moves(i, x) /\ x.run = wf[i].run /\ x.step \in StepNames /\ x.pc = Begin(x.step)
           /\ Follows(wf[i].step, x.step)
           /\ Placed(x)
  <2>1. x.pc \in {"d1", "ask", "store"}
    BY <1>4, BeginIs
  <2>2. x.step \in Revision => RevisionRequested'
    BY <1>1, <1>4 DEF Relies, Safe, Follows
  <2>3. Relies(i, x)'
    BY <2>1, <2>2 DEF Relies
  <2>4. QED
    BY <1>4, <2>3, StepKeeps
<1>5. QED
  BY <1>2, <1>3, <1>4

\* The instance goes on at another position of its step.
GoesOn(i, s, pc) ==
  /\ Placed([step |-> s, pc |-> pc])
  /\ pc \in {"send", "keep", "close"} => LastCall(Art(i, s))' = "open"
  /\ pc = "send" => asks'[Art(i, s)] < Len(calls'[Art(i, s)])
  /\ pc = "fail" => LastCall(Art(i, s))' \in {"failed", "retryable"}
  /\ s = "dispatch" /\ pc \in {"receipt", "verify"} => RevisionRequested'
  /\ i = "first" /\ GivenUp' => s = "askDraft" /\ pc \in {"ask"} \cup HoldPcs \cup FailPcs

LEMMA MoveKeeps ==
  ASSUME IInv, NEW i \in Instances, wf[i].run = "live", Safe(i), NEW pc \in Pcs, NEW s, s = wf[i].step,
         GoesOn(i, s, pc), NEW x, Moves(i, x), x.run = wf[i].run, x.step = s, x.pc = pc,
         pc = "close" => x.result \in Closings
  PROVE  IInv'
<1>1. Relies(i, wf[i])
  BY DEF IInv, InstancesOK
<1>2. Placed(x)
  BY DEF Placed, GoesOn
<1>3. s \in Revision => RevisionRequested'
  BY <1>1 DEF Relies, Safe
<1>4. Art(i, x.step)' = Art(i, s)
  BY DEF Art
<1>5. /\ x.pc \in {"send", "keep", "close"} => LastCall(Art(i, x.step))' = "open"
      /\ x.pc = "send" => (asks[Art(i, x.step)] < Len(calls[Art(i, x.step)]))'
      /\ x.pc = "fail" => LastCall(Art(i, x.step))' \in {"failed", "retryable"}
  BY <1>4 DEF GoesOn
<1>6. Relies(i, x)'
  BY <1>3, <1>5 DEF Relies, GoesOn
<1>7. QED
  BY <1>2, <1>6, StepKeeps

LEMMA GotoKeeps ==
  ASSUME IInv, NEW i \in Instances, wf[i].run = "live", Safe(i), NEW pc \in Pcs \ {"close"}, NEW s, s = wf[i].step,
         GoesOn(i, s, pc), Goto(i, pc)
  PROVE  IInv'
<1>1. wf \in [Instances -> Position]
  BY DEF IInv, InstancesOK
<1>2. PICK x : Moves(i, x) /\ x.run = wf[i].run /\ x.step = s /\ x.pc = pc
  BY <1>1, GotoIs
<1>3. QED
  BY <1>2, MoveKeeps

-----------------------------------------------------------------------------
(* The two ledgers.                                                        *)

\* The keys of the events, as far as the proof tells them apart.
LEMMA KeysAre ==
  ASSUME NEW i \in Instances, NEW s \in StepNames
  PROVE  /\ <<"state", s>> \in LogKeys
         /\ s \in CommitSteps => <<"artifact", Art(i, s)>> \in LogKeys
         /\ <<"hold", Phase(s)>> \in LogKeys /\ <<"failed", Phase(s)>> \in LogKeys
<1>1. s \in CommitSteps => Art(i, s) \in Artifacts
  BY ArtIs
<1>2. Phase(s) \in {"3", "5", "6", "7", "9"}
  BY DEF Phase
<1> HIDE DEF Artifacts
<1>3. QED
  BY <1>1, <1>2 DEF LogKeys

\* D1 with one more event; a writing failure is only of a call that was closed.
LEMMA D1Grows ==
  ASSUME IInv, NEW i \in Instances, UNCHANGED <<main, calls, asks, kept>>,
         NEW key \in LogKeys, key # <<"app", "resume">>,
         NEW target, NEW code, code = NonRetryable => RevisionRequested \/ GivenUp,
         d1' = d1 \/ d1' = Moved(d1, target, key, code)
  PROVE  /\ Safe(i) /\ (GivenUp' <=> GivenUp) /\ \A c : LastCall(c)' = LastCall(c)
         /\ RevisionRequested => RevisionRequested'
<1>1. CASE d1' = d1
  BY <1>1, Still
<1>2. CASE d1' = Moved(d1, target, key, code)
  <2>1. d1.log \in Seq(LogKeys) /\ main.log \in Seq(LogKeys)
    BY DEF IInv, FailureOK
  <2>2. d1'.log = Append(d1.log, key) /\ d1'.code = code
    BY <1>2 DEF Moved
  <2>3. d1'.log \in Seq(LogKeys) /\ \A y : Has(d1'.log, y) <=> Has(d1.log, y) \/ y = key
    BY <2>1, <2>2, LogGrows
  <2>4. RevisionRequested => RevisionRequested'
    BY <2>3 DEF RevisionRequested, Projected
  <2>5. GivenUp' <=> GivenUp
    BY DEF GivenUp, LastCall
  <2>6. FailureOK'
    BY <2>1, <2>2, <2>3, <2>4, <2>5 DEF IInv, FailureOK
  <2>7. QED
    BY <2>4, <2>6, Quiet
<1>3. QED
  BY <1>1, <1>2

LEMMA ProjectWrites ==
  ASSUME IInv, NEW i \in Instances, UNCHANGED <<main, calls, asks, kept>>,
         NEW key \in LogKeys, key # <<"app", "resume">>,
         NEW target, NEW code, code = NonRetryable => RevisionRequested \/ GivenUp,
         NEW same, NEW rev \in Nat, NEW next, Project(i, target, key, same, code, rev, next)
  PROVE  /\ Safe(i) /\ (GivenUp' <=> GivenUp) /\ \A c : LastCall(c)' = LastCall(c)
         /\ RevisionRequested => RevisionRequested'
         /\ (Goto(i, next) /\ Has(d1'.log, key)) \/ Retry(i)
<1>1. d1.log \in Seq(LogKeys)
  BY DEF IInv, FailureOK
<1>2. d1' = d1 \/ d1' = Moved(d1, target, key, code)
  BY DEF Project
<1>3. (Goto(i, next) /\ Has(d1'.log, key)) \/ Retry(i)
  <2>1. CASE D1Writes(target, key, same, rev) /\ d1' = Moved(d1, target, key, code) /\ Goto(i, next)
    <3>1. d1'.log = Append(d1.log, key)
      BY <2>1 DEF Moved
    <3>2. QED
      BY <1>1, <2>1, <3>1, LogGrows
  <2>2. CASE D1Replays(key, rev) /\ Goto(i, next) /\ UNCHANGED d1
    <3>1. rev + 1 \in DOMAIN d1.log /\ d1.log[rev + 1] = key
      BY <1>1, <2>2 DEF D1Replays
    <3>2. QED
      BY <2>2, <3>1 DEF Has
  <2>3. QED
    BY <2>1, <2>2 DEF Project, Outcomes
<1>4. QED
  BY <1>2, <1>3, D1Grows

\* The Coordinator with one more event.
LEMMA MainGrows ==
  ASSUME IInv, NEW i \in Instances, UNCHANGED <<d1, calls, asks, kept>>,
         NEW key \in LogKeys, NEW target, NEW code,
         main' = main \/ main' = Moved(main, target, key, code)
  PROVE  /\ Safe(i) /\ (GivenUp' <=> GivenUp) /\ \A c : LastCall(c)' = LastCall(c)
         /\ RevisionRequested' <=> RevisionRequested
<1>1. d1.log \in Seq(LogKeys) /\ main.log \in Seq(LogKeys)
  BY DEF IInv, FailureOK
<1>2. main'.log \in Seq(LogKeys)
  <2>1. CASE main' = main
    BY <1>1, <2>1
  <2>2. CASE main' = Moved(main, target, key, code)
    <3>1. main'.log = Append(main.log, key)
      BY <2>2 DEF Moved
    <3>2. QED
      BY <1>1, <3>1, LogGrows
  <2>3. QED
    BY <2>1, <2>2
<1>3. RevisionRequested' <=> RevisionRequested
  BY DEF RevisionRequested, Projected, Has
<1>4. GivenUp' <=> GivenUp
  BY DEF GivenUp, LastCall
<1>5. FailureOK'
  BY <1>1, <1>2, <1>3, <1>4 DEF IInv, FailureOK, Has
<1>6. QED
  BY <1>3, <1>5, Quiet

-----------------------------------------------------------------------------
(* The calls.                                                              *)

\* What a live instance has at its position.
LEMMA Here ==
  ASSUME IInv, NEW i \in Instances, NEW pc, At(i, pc)
  PROVE  /\ wf \in [Instances -> Position] /\ wf[i] \in Position /\ wf[i].run = "live" /\ wf[i].pc = pc
         /\ wf[i].step \in StepNames /\ wf[i].main \in Nat /\ wf[i].d1 \in Nat
         /\ wf[i].atMain \in Nat /\ wf[i].atD1 \in Nat
         /\ Placed(wf[i]) /\ Relies(i, wf[i])
BY DEF IInv, InstancesOK, At, Position

\* A call is closed with a result, or stays as it was.
LEMMA SettleIs ==
  ASSUME IInv, NEW c \in Called, NEW result \in Results \ {"open"}, NEW o \in Outcomes,
         LastCall(c) \in {"open", result}, Settle(c, result, o), UNCHANGED asks
  PROVE  /\ CallsOK'
         /\ \A e \in Called \ {c} : calls'[e] = calls[e]
         /\ LastCall(c)' \in {LastCall(c), result} /\ (o # "failed" => LastCall(c)' = result)
         /\ calls'[c] # <<>> /\ calls[c] # <<>> /\ Len(calls'[c]) = Len(calls[c])
<1>1. /\ calls \in [Called -> Seq(Results)] /\ asks \in [Called -> Nat] /\ calls[c] \in Seq(Results)
      /\ \A e \in Called : asks[e] <= Len(calls[e]) /\ \A n \in 1..Len(calls[e]) - 1 : calls[e][n] = "retryable"
  BY DEF IInv, CallsOK, AskedOncePerAttempt
<1>2. calls[c] # <<>> /\ LastCall(c) = calls[c][Len(calls[c])] /\ Len(calls[c]) \in Nat \ {0}
  BY <1>1 DEF LastCall, Results
<1> DEFINE v == IF o = "failed" \/ LastCall(c) # "open" THEN LastCall(c) ELSE result
           t == [calls[c] EXCEPT ![Len(calls[c])] = v]
<1>3. v \in Results /\ v \in {LastCall(c), result} /\ (o # "failed" => v = result)
  BY DEF Results
<1>4. t \in Seq(Results) /\ t # <<>> /\ Len(t) = Len(calls[c]) /\ t[Len(calls[c])] = v
      /\ \A n \in 1..Len(calls[c]) - 1 : t[n] = "retryable"
  <2> HIDE DEF v
  <2>1. QED
    BY <1>1, <1>2, <1>3, Settled
<1>5. calls' = [calls EXCEPT ![c] = t]
  BY <1>1, <1>2 DEF Settle
<1> HIDE DEF t, v
<1>6. calls' \in [Called -> Seq(Results)] /\ calls'[c] = t /\ \A e \in Called \ {c} : calls'[e] = calls[e]
  BY <1>1, <1>4, <1>5
<1>7. LastCall(c)' = v
  BY <1>4, <1>6 DEF LastCall
<1>8. ASSUME NEW e \in Called
      PROVE  asks[e] <= Len(calls'[e]) /\ \A n \in 1..Len(calls'[e]) - 1 : calls'[e][n] = "retryable"
  BY <1>1, <1>4, <1>6
<1>9. CallsOK'
  BY <1>1, <1>6, <1>8 DEF CallsOK, AskedOncePerAttempt
<1>10. QED
  BY <1>2, <1>3, <1>4, <1>6, <1>7, <1>9

-----------------------------------------------------------------------------
(* The state steps and the steps of persistArtifact.                       *)

\* The first instance stands only where it is about to end once its draft is
\* given up.
LEMMA Early ==
  ASSUME IInv, NEW i \in Instances, NEW pc, At(i, pc), pc \notin {"ask"} \cup HoldPcs \cup FailPcs
  PROVE  ~ (i = "first" /\ GivenUp)
BY Here DEF Relies

LEMMA StateD1Keeps ==
  ASSUME IInv, NEW i \in Instances, StateD1(i) PROVE IInv'
<1>1. PICK s : s = wf[i].step
  OBVIOUS
<1>2. /\ At(i, "d1") /\ s \in StepNames /\ s \in StateSteps /\ wf[i].run = "live" /\ wf[i].d1 \in Nat
      /\ ~ (i = "first" /\ GivenUp)
  BY <1>1, Here, Early DEF StateD1, Placed, StatePcs, HoldPcs, FailPcs
<1>3. UNCHANGED <<main, calls, asks, kept>>
  BY DEF StateD1, ledgers
<1>4. <<"state", s>> \in LogKeys /\ <<"state", s>> # <<"app", "resume">> /\ "none" # NonRetryable
  BY <1>2, KeysAre DEF NonRetryable
<1>5. Project(i, D1Target(s), <<"state", s>>, s \in InRevision, "none", wf[i].d1, "main")
  BY <1>1 DEF StateD1
<1>6. /\ Safe(i) /\ (GivenUp' <=> GivenUp)
      /\ Goto(i, "main") \/ Retry(i)
  BY <1>2, <1>3, <1>4, <1>5, ProjectWrites
<1>7. CASE Goto(i, "main")
  <2>1. GoesOn(i, s, "main") /\ "main" \in Pcs
    BY <1>2, <1>6 DEF GoesOn, Placed, Pcs, StatePcs, CallPcs, FailPcs, CommitPcs, SettlePcs, StateSteps
  <2>2. QED
    BY <1>1, <1>2, <1>6, <1>7, <2>1, GotoKeeps
<1>8. CASE Retry(i)
  BY <1>2, <1>6, <1>8, RetryKeeps
<1>9. QED
  BY <1>6, <1>7, <1>8

LEMMA StateMainKeeps ==
  ASSUME IInv, NEW i \in Instances, StateMain(i) PROVE IInv'
<1>1. PICK s : s = wf[i].step
  OBVIOUS
<1>2. /\ At(i, "main") /\ s \in StepNames /\ s \in StateSteps /\ wf[i].run = "live"
      /\ wf[i].main + 1 \in Nat /\ wf[i].d1 + 1 \in Nat /\ ~ (i = "first" /\ GivenUp)
  BY <1>1, Here, Early DEF StateMain, Placed, StatePcs, HoldPcs, FailPcs
<1>3. UNCHANGED <<d1, calls, asks, kept>>
  BY DEF StateMain, ledgers
<1>4. Record("main", i, MainTarget(s), <<"state", s>>, "none", wf[i].main, Done(i, wf[i].main + 1, wf[i].d1 + 1))
  BY <1>1 DEF StateMain
<1>5. /\ main' = main \/ main' = Moved(main, MainTarget(s), <<"state", s>>, "none")
      /\ Done(i, wf[i].main + 1, wf[i].d1 + 1) \/ Retry(i)
  BY <1>4 DEF Record, RecordOutcome
<1>6. Safe(i) /\ (GivenUp' <=> GivenUp)
  BY <1>2, <1>3, <1>5, KeysAre, MainGrows
<1>7. CASE Done(i, wf[i].main + 1, wf[i].d1 + 1)
  <2>1. wf[i].step # "dispatch"
    BY <1>1, <1>2 DEF StateSteps
  <2>2. QED
    BY <1>2, <1>6, <1>7, <2>1, DoneKeeps
<1>8. CASE Retry(i)
  BY <1>2, <1>6, <1>8, RetryKeeps
<1>9. QED
  BY <1>5, <1>7, <1>8

\* An artifact that is not reconciled holds the step or has it begin again.
LEMMA UnreconciledKeeps ==
  ASSUME IInv, NEW i \in Instances, wf[i].run = "live", wf[i].step \in CommitSteps, Safe(i),
         ~ (i = "first" /\ GivenUp'), Unreconciled(i)
  PROVE  IInv'
<1>1. PICK s : s = wf[i].step
  OBVIOUS
<1>2. CASE Retry(i)
  BY <1>2, RetryKeeps
<1>3. CASE Goto(i, "hold")
  <2>1. GoesOn(i, s, "hold") /\ "hold" \in Pcs
    BY DEF GoesOn, Placed, Pcs, HoldPcs, StatePcs, CallPcs, FailPcs, CommitPcs, SettlePcs
  <2>2. QED
    BY <1>1, <1>3, <2>1, GotoKeeps
<1>4. CASE Goto(i, "closeHeld") /\ s \in CalledSteps
  <2>1. GoesOn(i, s, "closeHeld") /\ "closeHeld" \in Pcs
    BY <1>4 DEF GoesOn, Placed, Pcs, SettlePcs, StatePcs, CallPcs, FailPcs, CommitPcs
  <2>2. QED
    BY <1>1, <1>4, <2>1, GotoKeeps
<1>5. QED
  BY <1>1, <1>2, <1>3, <1>4 DEF Unreconciled, CommitSteps, CalledSteps

\* The first instance stores no draft after it was given up, the recovery none
\* that is the first one's.
LEMMA StoreKeeps ==
  ASSUME IInv, NEW i \in Instances, Store(i) PROVE IInv'
<1>1. PICK s : s = wf[i].step
  OBVIOUS
<1>2. /\ At(i, "store") /\ s \in StepNames /\ s \in CommitSteps /\ wf[i].run = "live"
      /\ ~ (i = "first" /\ GivenUp)
  BY <1>1, Here, Early DEF Store, Placed, CommitPcs, HoldPcs, FailPcs
<1>3. UNCHANGED <<d1, main, calls, asks>> /\ kept' \subseteq kept \cup {Art(i, s)}
  BY <1>1 DEF Store
<1>4. Art(i, s) = "draft" => ~ GivenUp
  BY <1>2, ArtIs
<1>5. Safe(i) /\ (GivenUp' <=> GivenUp)
  BY <1>3, <1>4, Still
<1>6. CASE Goto(i, "look")
  <2>1. GoesOn(i, s, "look") /\ "look" \in Pcs
    BY <1>2, <1>5 DEF GoesOn, Placed, Pcs, CommitPcs, StatePcs, CallPcs, FailPcs, SettlePcs
  <2>2. QED
    BY <1>1, <1>2, <1>5, <1>6, <2>1, GotoKeeps
<1>7. CASE Unreconciled(i)
  BY <1>1, <1>2, <1>5, <1>7, UnreconciledKeeps
<1>8. CASE Retry(i)
  BY <1>2, <1>5, <1>8, RetryKeeps
<1>9. QED
  BY <1>6, <1>7, <1>8 DEF Store

LEMMA LookKeeps ==
  ASSUME IInv, NEW i \in Instances, Look(i) PROVE IInv'
<1>1. PICK s : s = wf[i].step
  OBVIOUS
<1>2. /\ At(i, "look") /\ s \in StepNames /\ s \in CommitSteps /\ wf[i].run = "live"
      /\ ~ (i = "first" /\ GivenUp)
      /\ wf \in [Instances -> Position] /\ wf[i] \in Position
  BY <1>1, Here, Early DEF Look, Placed, CommitPcs, HoldPcs, FailPcs
<1>3. UNCHANGED <<d1, main, calls, asks, kept>>
  BY DEF Look, ledgers
<1>4. Safe(i) /\ (GivenUp' <=> GivenUp) /\ (RevisionRequested' <=> RevisionRequested)
  BY <1>3, Still
<1>5. CASE Unreconciled(i)
  BY <1>1, <1>2, <1>4, <1>5, UnreconciledKeeps
<1>6. CASE Retry(i)
  BY <1>2, <1>4, <1>6, RetryKeeps
<1>7. ASSUME NEW pc \in {"event", "receipt", "verify"},
             wf' = [wf EXCEPT ![i].pc = pc, ![i].atMain = Len(main.log), ![i].atD1 = Len(d1.log)],
             pc \in {"receipt", "verify"} => Art(i, s) \in Projected
      PROVE  IInv'
  <2> DEFINE x == [wf[i] EXCEPT !.pc = pc, !.atMain = Len(main.log), !.atD1 = Len(d1.log)]
  <2>1. Len(main.log) \in Nat /\ Len(d1.log) \in Nat /\ pc \in Pcs
    BY DEF IInv, FailureOK, Pcs, CommitPcs
  <2>2. wf' = [wf EXCEPT ![i] = x]
    BY <1>2, <1>7
  <2>3. x \in Position /\ x.run = wf[i].run /\ x.step = s /\ x.pc = pc
    BY <1>1, <1>2, <2>1 DEF Position
  <2> HIDE DEF x
  <2>4. Moves(i, x)
    BY <2>2, <2>3 DEF Moves
  <2>5. s = "dispatch" /\ pc \in {"receipt", "verify"} => RevisionRequested'
    BY <1>2, <1>4, <1>7, ArtIs DEF RevisionRequested
  <2>6. GoesOn(i, s, pc)
    BY <1>2, <1>4, <2>5 DEF GoesOn, Placed, Pcs, CommitPcs, StatePcs, CallPcs, FailPcs, SettlePcs
  <2>7. QED
    BY <1>1, <1>2, <1>4, <2>1, <2>3, <2>4, <2>6, MoveKeeps
<1>8. CASE LookAt(i) /\ ~ Unreconciled(i)
  <2> DEFINE a == Art(i, s)
  <2>1. a \in Receipts /\ Exact(wf[i].arts \cup {a}, wf[i].arts \cup (IF a \in Receipts THEN {a} ELSE {}),
                                wf[i].arts \cup (IF a \in Projected THEN {a} ELSE {}))
        => a \in Projected
    BY DEF Exact
  <2>2. \E pc \in {"event", "receipt", "verify"} :
          /\ wf' = [wf EXCEPT ![i].pc = pc, ![i].atMain = Len(main.log), ![i].atD1 = Len(d1.log)]
          /\ pc \in {"receipt", "verify"} => a \in Projected
    BY <1>1, <1>8, <2>1 DEF LookAt
  <2>3. QED
    BY <1>7, <2>2
<1>9. QED
  BY <1>5, <1>6, <1>8 DEF Look

LEMMA CommitD1Keeps ==
  ASSUME IInv, NEW i \in Instances, CommitD1(i) PROVE IInv'
<1>1. PICK s : s = wf[i].step
  OBVIOUS
<1>2. /\ At(i, "event") /\ s \in StepNames /\ s \in CommitSteps /\ wf[i].run = "live" /\ wf[i].atD1 \in Nat
      /\ ~ (i = "first" /\ GivenUp)
  BY <1>1, Here, Early DEF CommitD1, Placed, CommitPcs, HoldPcs, FailPcs
<1>3. UNCHANGED <<main, calls, asks, kept>>
  BY DEF CommitD1, ledgers
<1> DEFINE key == <<"artifact", Art(i, s)>>
<1>4. key \in LogKeys /\ key # <<"app", "resume">> /\ Blocked(s) # NonRetryable
  BY <1>2, KeysAre DEF NonRetryable, Blocked
<1>5. Project(i, D1Target(s), key, s \in InRevision, Blocked(s), wf[i].atD1, "receipt")
  BY <1>1 DEF CommitD1
<1> HIDE DEF key
<1>6. /\ Safe(i) /\ (GivenUp' <=> GivenUp)
      /\ (Goto(i, "receipt") /\ Has(d1'.log, key)) \/ Retry(i)
  BY <1>2, <1>3, <1>4, <1>5, ProjectWrites
<1>7. CASE Goto(i, "receipt") /\ Has(d1'.log, key)
  <2>1. s = "dispatch" => RevisionRequested'
    <3>1. s = "dispatch" => Art(i, s) = "dispatch"
      BY <1>2, ArtIs
    <3>2. QED
      BY <1>7, <3>1 DEF RevisionRequested, Projected, key, Artifacts
  <2>2. GoesOn(i, s, "receipt") /\ "receipt" \in Pcs
    BY <1>2, <1>6, <2>1 DEF GoesOn, Placed, Pcs, CommitPcs, StatePcs, CallPcs, FailPcs, SettlePcs
  <2>3. QED
    BY <1>1, <1>2, <1>6, <1>7, <2>2, GotoKeeps
<1>8. CASE Retry(i)
  BY <1>2, <1>6, <1>8, RetryKeeps
<1>9. QED
  BY <1>6, <1>7, <1>8

LEMMA CommitReceiptKeeps ==
  ASSUME IInv, NEW i \in Instances, CommitReceipt(i) PROVE IInv'
<1>1. PICK s : s = wf[i].step
  OBVIOUS
<1>2. /\ At(i, "receipt") /\ s \in StepNames /\ s \in CommitSteps /\ wf[i].run = "live"
      /\ ~ (i = "first" /\ GivenUp) /\ (s = "dispatch" => RevisionRequested)
  BY <1>1, Here, Early DEF CommitReceipt, Placed, CommitPcs, HoldPcs, FailPcs, Relies
<1>3. UNCHANGED <<d1, calls, asks, kept>>
  BY DEF CommitReceipt, ledgers
<1> DEFINE key == <<"artifact", Art(i, s)>>
<1>4. Record("receipt", i, MainTarget(s), key, Blocked(s), wf[i].atMain, Goto(i, "verify"))
  BY <1>1 DEF CommitReceipt
<1>5. /\ main' = main \/ main' = Moved(main, MainTarget(s), key, Blocked(s))
      /\ Goto(i, "verify") \/ Retry(i)
  BY <1>4 DEF Record, RecordOutcome
<1>6. Safe(i) /\ (GivenUp' <=> GivenUp) /\ (RevisionRequested' <=> RevisionRequested)
  <2>1. key \in LogKeys
    BY <1>2, KeysAre
  <2> HIDE DEF key
  <2>2. QED
    BY <1>3, <1>5, <2>1, MainGrows
<1>7. CASE Goto(i, "verify")
  <2>1. GoesOn(i, s, "verify") /\ "verify" \in Pcs
    BY <1>2, <1>6 DEF GoesOn, Placed, Pcs, CommitPcs, StatePcs, CallPcs, FailPcs, SettlePcs
  <2>2. QED
    BY <1>1, <1>2, <1>6, <1>7, <2>1, GotoKeeps
<1>8. CASE Retry(i)
  BY <1>2, <1>6, <1>8, RetryKeeps
<1>9. QED
  BY <1>5, <1>7, <1>8

LEMMA VerifyKeeps ==
  ASSUME IInv, NEW i \in Instances, Verify(i) PROVE IInv'
<1>1. PICK s : s = wf[i].step
  OBVIOUS
<1>2. /\ At(i, "verify") /\ s \in StepNames /\ s \in CommitSteps /\ wf[i].run = "live" /\ wf[i].d1 + 1 \in Nat
      /\ ~ (i = "first" /\ GivenUp) /\ (s = "dispatch" => RevisionRequested)
  BY <1>1, Here, Early DEF Verify, Placed, CommitPcs, HoldPcs, FailPcs, Relies
<1>3. UNCHANGED <<d1, main, calls, asks, kept>>
  BY DEF Verify
<1>4. Safe(i) /\ (GivenUp' <=> GivenUp) /\ (RevisionRequested' <=> RevisionRequested)
  BY <1>3, Still
<1>5. CASE Art(i, s) \in Called /\ Goto(i, "settle")
  <2>1. s \in CalledSteps
    BY <1>2, <1>5 DEF Art, Called, CommitSteps, CalledSteps
  <2>2. GoesOn(i, s, "settle") /\ "settle" \in Pcs
    BY <1>2, <1>4, <2>1 DEF GoesOn, Placed, Pcs, SettlePcs, CommitPcs, StatePcs, CallPcs, FailPcs
  <2>3. QED
    BY <1>1, <1>2, <1>4, <1>5, <2>2, GotoKeeps
<1>6. CASE Done(i, Len(main.log), wf[i].d1 + 1)
  <2>1. Len(main.log) \in Nat
    BY DEF IInv, FailureOK
  <2>2. QED
    BY <1>1, <1>2, <1>4, <1>6, <2>1, DoneKeeps
<1>7. CASE Retry(i)
  BY <1>2, <1>4, <1>7, RetryKeeps
<1>8. QED
  BY <1>1, <1>5, <1>6, <1>7 DEF Verify

-----------------------------------------------------------------------------
(* The steps at a call.                                                    *)

\* The ledgers' part of the invariant, where a step only changes calls.
LEMMA CallsSafe ==
  ASSUME IInv, NEW i \in Instances, UNCHANGED <<d1, main, kept>>, CallsOK', GivenUp => GivenUp',
         \A c \in Called \ {Art(i, wf[i].step)} : calls'[c] = calls[c] /\ asks'[c] = asks[c],
         calls'["redraft"] # <<>> => calls["redraft"] # <<>> \/ (i = "recovery" /\ "draft" \notin kept)
  PROVE  Safe(i) /\ (RevisionRequested' <=> RevisionRequested)
<1>1. RevisionRequested' <=> RevisionRequested
  BY DEF RevisionRequested, Projected, Has
<1>2. FailureOK'
  BY <1>1 DEF IInv, FailureOK, Has
<1>3. QED
  BY <1>1, <1>2 DEF Safe

\* A call is closed by the instance that has it.
LEMMA SettleSafe ==
  ASSUME IInv, NEW i \in Instances, NEW s \in StepNames, s = wf[i].step, Art(i, s) \in Called,
         ~ (i = "first" /\ GivenUp), UNCHANGED <<d1, main, kept, asks>>,
         NEW result \in Results \ {"open"}, NEW o \in Outcomes,
         LastCall(Art(i, s)) \in {"open", result}, Settle(Art(i, s), result, o)
  PROVE  /\ Safe(i)
         /\ LastCall(Art(i, s))' \in {LastCall(Art(i, s)), result}
         /\ o # "failed" => LastCall(Art(i, s))' = result
         /\ i = "first" /\ GivenUp' => s \in {"askDraft", "draft"} /\ result = "failed"
<1>1. PICK c \in Called : c = Art(i, s)
  OBVIOUS
<1>2. /\ CallsOK'
      /\ \A e \in Called \ {c} : calls'[e] = calls[e]
      /\ LastCall(c)' \in {LastCall(c), result} /\ (o # "failed" => LastCall(c)' = result)
      /\ calls'[c] # <<>> /\ calls[c] # <<>>
  BY <1>1, SettleIs
<1>3. c = "draft" => i = "first" /\ s \in {"askDraft", "draft"}
  BY <1>1, ArtIs
<1>4. c # "draft" => (GivenUp' <=> GivenUp)
  BY <1>2 DEF GivenUp, LastCall, Called
<1>5. c = "draft" /\ GivenUp' => result = "failed"
  BY <1>1, <1>2, <1>3 DEF GivenUp
<1>6. calls'["redraft"] # <<>> => calls["redraft"] # <<>>
  BY <1>2 DEF Called
<1>7. Safe(i)
  BY <1>1, <1>2, <1>3, <1>4, <1>6, CallsSafe
<1>8. LastCall(Art(i, s))' = LastCall(c)'
  BY <1>1 DEF LastCall
<1>9. QED
  BY <1>1, <1>2, <1>3, <1>4, <1>5, <1>7, <1>8

LEMMA SettleCallKeeps ==
  ASSUME IInv, NEW i \in Instances, SettleCall(i) PROVE IInv'
<1>1. PICK s : s = wf[i].step
  OBVIOUS
<1>2. /\ At(i, "settle") /\ s \in StepNames /\ s \in CalledSteps /\ wf[i].run = "live"
      /\ ~ (i = "first" /\ GivenUp)
  BY <1>1, Here, Early DEF SettleCall, Placed, SettlePcs, HoldPcs, FailPcs
<1>3. UNCHANGED <<d1, main, kept, asks>> /\ s # "dispatch" /\ Art(i, s) \in Called
  BY <1>2, ArtIs DEF SettleCall, CalledSteps
<1>4. CASE UNCHANGED calls /\ Retry(i)
  BY <1>2, <1>3, <1>4, Still, RetryKeeps
<1>5. ASSUME NEW o \in Outcomes, LastCall(Art(i, s)) \in {"open", "succeeded"}, Settle(Art(i, s), "succeeded", o),
             IF o = "done" THEN Done(i, Len(main.log), Len(d1.log)) ELSE Retry(i)
      PROVE  IInv'
  <2>1. Safe(i) /\ ~ (i = "first" /\ GivenUp')
    BY <1>1, <1>2, <1>3, <1>5, SettleSafe DEF Results
  <2>2. Len(main.log) \in Nat /\ Len(d1.log) \in Nat
    BY DEF IInv, FailureOK
  <2>3. QED
    BY <1>1, <1>2, <1>3, <1>5, <2>1, <2>2, DoneKeeps, RetryKeeps
<1>6. QED
  BY <1>1, <1>4, <1>5 DEF SettleCall, SettleConflicts

LEMMA CloseHeldKeeps ==
  ASSUME IInv, NEW i \in Instances, CloseHeld(i) PROVE IInv'
<1>1. PICK s : s = wf[i].step
  OBVIOUS
<1>2. /\ At(i, "closeHeld") /\ s \in StepNames /\ s \in CalledSteps /\ wf[i].run = "live"
      /\ ~ (i = "first" /\ GivenUp)
  BY <1>1, Here, Early DEF CloseHeld, Placed, SettlePcs, HoldPcs, FailPcs
<1>3. UNCHANGED <<d1, main, kept, asks>> /\ s # "dispatch" /\ Art(i, s) \in Called
  BY <1>2, ArtIs DEF CloseHeld, CalledSteps
<1>4. CASE UNCHANGED calls /\ Retry(i)
  BY <1>2, <1>3, <1>4, Still, RetryKeeps
<1>5. ASSUME NEW o \in Outcomes, LastCall(Art(i, s)) \in {"open", "unknown"}, Settle(Art(i, s), "unknown", o),
             IF o = "done" THEN Goto(i, "hold") ELSE Retry(i)
      PROVE  IInv'
  <2>1. Safe(i) /\ ~ (i = "first" /\ GivenUp')
    BY <1>1, <1>2, <1>3, <1>5, SettleSafe DEF Results
  <2>2. GoesOn(i, s, "hold") /\ "hold" \in Pcs
    BY <1>3, <2>1 DEF GoesOn, Placed, Pcs, HoldPcs, SettlePcs, CommitPcs, StatePcs, CallPcs, FailPcs
  <2>3. QED
    BY <1>1, <1>2, <1>5, <2>1, <2>2, GotoKeeps, RetryKeeps
<1>6. QED
  BY <1>1, <1>4, <1>5 DEF CloseHeld, SettleConflicts

LEMMA CloseCallKeeps ==
  ASSUME IInv, NEW i \in Instances, CloseCall(i) PROVE IInv'
<1>1. PICK s : s = wf[i].step
  OBVIOUS
<1>2. /\ At(i, "close") /\ s \in StepNames /\ s \in CallSteps /\ wf[i].run = "live"
      /\ ~ (i = "first" /\ GivenUp) /\ LastCall(Art(i, s)) = "open" /\ wf[i].result \in Closings
  BY <1>1, Here, Early DEF CloseCall, Placed, CallPcs, HoldPcs, FailPcs, Relies
<1>3. UNCHANGED <<d1, main, kept, asks>> /\ s # "dispatch" /\ Art(i, s) \in Called
  BY <1>2, ArtIs DEF CloseCall, CallSteps
<1> DEFINE result == IF wf[i].result = "broken" THEN "failed" ELSE wf[i].result
<1>4. PICK o \in Outcomes :
        /\ Settle(Art(i, s), result, o)
        /\ CASE o # "done" \/ wf[i].result = "broken" -> Retry(i)
             [] o = "done" /\ wf[i].result = "unknown" -> Goto(i, "hold")
             [] o = "done" /\ wf[i].result = "retryable" /\ Len(calls[Art(i, s)]) < 3 -> Goto(i, "ask")
             [] OTHER -> Goto(i, "fail")
  BY <1>1 DEF CloseCall
<1>5. result \in Results \ {"open"}
  BY <1>2 DEF Closings, Results
<1>6. /\ Safe(i) /\ (i = "first" /\ GivenUp' => s = "askDraft")
      /\ o # "failed" => LastCall(Art(i, s))' = result
  <2> HIDE DEF result
  <2>1. QED
    BY <1>1, <1>2, <1>3, <1>4, <1>5, SettleSafe DEF CallSteps
<1>7. CASE Retry(i)
  BY <1>1, <1>2, <1>6, <1>7, RetryKeeps
<1>8. ASSUME NEW pc \in {"hold", "ask"}, Goto(i, pc) PROVE IInv'
  <2>1. GoesOn(i, s, pc) /\ pc \in Pcs \ {"close"}
    BY <1>2, <1>3, <1>6 DEF GoesOn, Placed, Pcs, HoldPcs, SettlePcs, CommitPcs, StatePcs, CallPcs, FailPcs
  <2>2. QED
    BY <1>1, <1>2, <1>6, <1>8, <2>1, GotoKeeps
<1>9. CASE Goto(i, "fail") /\ o = "done" /\ wf[i].result \in {"failed", "retryable"}
  <2>1. LastCall(Art(i, s))' \in {"failed", "retryable"}
    BY <1>6, <1>9
  <2>2. GoesOn(i, s, "fail") /\ "fail" \in Pcs
    BY <1>2, <1>3, <1>6, <2>1 DEF GoesOn, Placed, Pcs, HoldPcs, SettlePcs, CommitPcs, StatePcs, CallPcs, FailPcs
  <2>3. QED
    BY <1>1, <1>2, <1>6, <1>9, <2>2, GotoKeeps
<1>10. QED
  BY <1>2, <1>4, <1>7, <1>8, <1>9 DEF Closings

\* An attempt is opened for a call that was not made, or may be made again; by
\* a recovery only where no draft is stored.
LEMMA OpenSafe ==
  ASSUME IInv, NEW i \in Instances, NEW s \in CallSteps, s = wf[i].step, Art(i, s) \in Called,
         UNCHANGED <<d1, main, kept, asks>>, MayOpen(Art(i, s)), MayRecover(i),
         calls' = [calls EXCEPT ![Art(i, s)] = Append(@, "open")]
  PROVE  /\ Safe(i) /\ (GivenUp' => GivenUp /\ Art(i, s) # "draft")
         /\ LastCall(Art(i, s))' = "open" /\ asks'[Art(i, s)] < Len(calls'[Art(i, s)])
<1>1. PICK c \in Called : c = Art(i, s)
  OBVIOUS
<1>2. /\ calls \in [Called -> Seq(Results)] /\ asks \in [Called -> Nat]
      /\ \A e \in Called : asks[e] <= Len(calls[e]) /\ \A n \in 1..Len(calls[e]) - 1 : calls[e][n] = "retryable"
  BY DEF IInv, CallsOK, AskedOncePerAttempt
<1>3. calls[c] \in Seq(Results) /\ (calls[c] # <<>> => calls[c][Len(calls[c])] = "retryable")
  <2>1. LastCall(c) \in {"none", "retryable"}
    BY <1>1 DEF MayOpen
  <2>2. ASSUME calls[c] # <<>> PROVE calls[c][Len(calls[c])] # "none"
    <3>1. calls[c] \in Seq(Results) /\ Len(calls[c]) \in 1..Len(calls[c])
      BY <1>2, <2>2
    <3>2. QED
      BY <3>1 DEF Results
  <2>3. QED
    BY <1>2, <2>1, <2>2 DEF LastCall
<1> DEFINE t == Append(calls[c], "open")
<1>4. /\ t \in Seq(Results) /\ t # <<>> /\ Len(t) = Len(calls[c]) + 1 /\ t[Len(calls[c]) + 1] = "open"
      /\ \A n \in 1..Len(calls[c]) : t[n] = "retryable"
  BY <1>2, <1>3, Opened
<1> HIDE DEF t
<1>5. calls' \in [Called -> Seq(Results)] /\ calls'[c] = t /\ \A e \in Called \ {c} : calls'[e] = calls[e]
  BY <1>1, <1>2, <1>4 DEF t
<1>6. CallsOK'
  <2>1. Len(calls[c]) \in Nat /\ asks[c] <= Len(calls[c]) /\ asks[c] \in Nat
    BY <1>2, <1>3
  <2>2. \A e \in Called : asks[e] <= Len(calls'[e]) /\ \A n \in 1..Len(calls'[e]) - 1 : calls'[e][n] = "retryable"
    <3>1. asks[c] <= Len(calls'[c]) /\ \A n \in 1..Len(calls'[c]) - 1 : calls'[c][n] = "retryable"
      BY <1>4, <1>5, <2>1
    <3>2. QED
      BY <1>2, <1>5, <3>1
  <2>3. QED
    BY <1>2, <1>5, <2>2 DEF CallsOK, AskedOncePerAttempt
<1>7. LastCall(c)' = "open" /\ asks[c] < Len(calls'[c])
  <2>1. LastCall(c)' = t[Len(t)] /\ Len(calls[c]) \in Nat /\ asks[c] \in Nat
    BY <1>2, <1>3, <1>4, <1>5 DEF LastCall
  <2>2. QED
    BY <1>2, <1>4, <1>5, <2>1
<1>8. GivenUp => c # "draft"
  BY <1>1 DEF GivenUp, MayOpen
<1>9. c # "draft" => (GivenUp' <=> GivenUp)
  BY <1>5 DEF GivenUp, LastCall, Called
<1>10. c = "draft" => ~ GivenUp'
  BY <1>7 DEF GivenUp
<1>11. c = "redraft" => i = "recovery" /\ "draft" \notin kept
  <2>1. c = "redraft" => i = "recovery" /\ s = "askDraft"
    BY <1>1, ArtIs DEF CallSteps, StepNames
  <2>2. QED
    BY <2>1 DEF MayRecover, Exact
<1>12. calls'["redraft"] # <<>> => calls["redraft"] # <<>> \/ (i = "recovery" /\ "draft" \notin kept)
  BY <1>5, <1>11 DEF Called
<1>13. Safe(i)
  BY <1>1, <1>5, <1>6, <1>8, <1>9, <1>12, CallsSafe
<1>14. LastCall(Art(i, s))' = LastCall(c)'
  BY <1>1 DEF LastCall
<1>15. QED
  BY <1>1, <1>7, <1>8, <1>9, <1>10, <1>13, <1>14

LEMMA AskKeeps ==
  ASSUME IInv, NEW i \in Instances, Ask(i) PROVE IInv'
<1>1. PICK s : s = wf[i].step
  OBVIOUS
<1>2. /\ At(i, "ask") /\ s \in StepNames /\ s \in CallSteps /\ wf[i].run = "live"
      /\ wf[i].main \in Nat /\ wf[i].d1 \in Nat
      /\ (i = "first" /\ GivenUp => s = "askDraft")
  BY <1>1, Here DEF Ask, Placed, CallPcs, Relies
<1>3. UNCHANGED <<d1, main, kept, asks>> /\ s # "dispatch" /\ Art(i, s) \in Called
  BY <1>2, ArtIs DEF Ask, CallSteps
<1>4. i = "first" /\ GivenUp => LastCall(Art(i, s)) = "failed"
  BY <1>2 DEF Art, GivenUp
<1>5. LastCall(Art(i, s)) \in Results \cup {"none"}
  <2>1. calls[Art(i, s)] \in Seq(Results)
    BY <1>3 DEF IInv, CallsOK
  <2>2. calls[Art(i, s)] # <<>> => Len(calls[Art(i, s)]) \in 1..Len(calls[Art(i, s)])
    BY <2>1
  <2>3. QED
    BY <2>1, <2>2 DEF LastCall
<1>6. ASSUME UNCHANGED calls, Goto(i, "hold") PROVE IInv'
  <2>1. Safe(i) /\ (GivenUp' <=> GivenUp)
    BY <1>3, <1>6, Still
  <2>2. GoesOn(i, s, "hold") /\ "hold" \in Pcs
    BY <1>2, <1>3, <2>1 DEF GoesOn, Placed, Pcs, HoldPcs, SettlePcs, CommitPcs, StatePcs, CallPcs, FailPcs
  <2>3. QED
    BY <1>1, <1>2, <1>6, <2>1, <2>2, GotoKeeps
<1>7. ASSUME NEW o \in Outcomes, MayRecover(i), MayOpen(Art(i, s)),
             calls' = [calls EXCEPT ![Art(i, s)] = IF o = "failed" THEN @ ELSE Append(@, "open")],
             IF o = "done" THEN Goto(i, "send") ELSE Retry(i)
      PROVE  IInv'
  <2>1. ~ (i = "first" /\ GivenUp)
    BY <1>4, <1>7 DEF MayOpen
  <2>2. CASE o = "failed"
    <3>1. UNCHANGED calls
      BY <1>7, <2>2 DEF IInv, CallsOK
    <3>2. QED
      BY <1>1, <1>2, <1>3, <1>7, <2>1, <2>2, <3>1, Still, RetryKeeps
  <2>3. CASE o # "failed"
    <3>1. calls' = [calls EXCEPT ![Art(i, s)] = Append(@, "open")]
      BY <1>7, <2>3
    <3>2. /\ Safe(i) /\ ~ (i = "first" /\ GivenUp')
          /\ LastCall(Art(i, s))' = "open" /\ asks'[Art(i, s)] < Len(calls'[Art(i, s)])
      BY <1>1, <1>2, <1>3, <1>7, <2>1, <3>1, OpenSafe
    <3>3. GoesOn(i, s, "send") /\ "send" \in Pcs
      BY <1>2, <1>3, <3>2 DEF GoesOn, Placed, Pcs, CallPcs, HoldPcs, SettlePcs, CommitPcs, StatePcs, FailPcs
    <3>4. QED
      BY <1>1, <1>2, <1>7, <3>2, <3>3, GotoKeeps, RetryKeeps
  <2>4. QED
    BY <2>2, <2>3
<1>8. ASSUME ~ MayOpen(Art(i, s)), UNCHANGED calls,
             CASE LastCall(Art(i, s)) \in {"open", "unknown"} -> Goto(i, "hold")
               [] LastCall(Art(i, s)) = "succeeded" -> Done(i, wf[i].main, wf[i].d1)
               [] OTHER -> Goto(i, "fail")
      PROVE  IInv'
  <2>1. Safe(i) /\ (GivenUp' <=> GivenUp) /\ LastCall(Art(i, s))' = LastCall(Art(i, s))
    <3>1. Safe(i) /\ (GivenUp' <=> GivenUp)
      BY <1>3, <1>8, Still
    <3>2. Art(i, s)' = Art(i, s)
      BY DEF Art
    <3>3. QED
      BY <1>8, <3>1, <3>2 DEF LastCall
  <2>2. CASE LastCall(Art(i, s)) = "succeeded" /\ Done(i, wf[i].main, wf[i].d1)
    <3>1. ~ (i = "first" /\ GivenUp')
      BY <1>4, <2>1, <2>2
    <3>2. QED
      BY <1>1, <1>2, <1>3, <2>1, <2>2, <3>1, DoneKeeps
  <2>3. CASE LastCall(Art(i, s)) \notin {"open", "unknown", "succeeded"} /\ Goto(i, "fail")
    <3>1. LastCall(Art(i, s))' \in {"failed", "retryable"}
      BY <1>5, <1>8, <2>1, <2>3 DEF MayOpen, Results
    <3>2. GoesOn(i, s, "fail") /\ "fail" \in Pcs
      BY <1>2, <1>3, <2>1, <3>1 DEF GoesOn, Placed, Pcs, CallPcs, HoldPcs, SettlePcs, CommitPcs, StatePcs, FailPcs
    <3>3. QED
      BY <1>1, <1>2, <2>1, <2>3, <3>2, GotoKeeps
  <2>4. QED
    BY <1>6, <1>8, <2>2, <2>3
<1>9. QED
  BY <1>1, <1>6, <1>7, <1>8 DEF Ask

\* One more request of an attempt that was opened.
LEMMA SentSafe ==
  ASSUME IInv, NEW i \in Instances, NEW c \in Called, c = Art(i, wf[i].step), UNCHANGED <<d1, main, kept, calls>>,
         asks[c] < Len(calls[c]), asks' = asks \/ asks' = [asks EXCEPT ![c] = @ + 1]
  PROVE  Safe(i) /\ (GivenUp' <=> GivenUp)
<1>1. /\ calls \in [Called -> Seq(Results)] /\ asks \in [Called -> Nat]
      /\ \A e \in Called : asks[e] <= Len(calls[e]) /\ \A n \in 1..Len(calls[e]) - 1 : calls[e][n] = "retryable"
  BY DEF IInv, CallsOK, AskedOncePerAttempt
<1>2. asks' \in [Called -> Nat] /\ \A e \in Called \ {c} : asks'[e] = asks[e]
  BY <1>1
<1>3. asks'[c] <= Len(calls[c])
  <2>1. calls[c] \in Seq(Results) /\ asks[c] \in Nat /\ asks'[c] \in {asks[c], asks[c] + 1}
    BY <1>1
  <2>2. Len(calls[c]) \in Nat
    BY <2>1
  <2>3. QED
    BY <2>1, <2>2
<1>4. CallsOK'
  BY <1>1, <1>2, <1>3 DEF CallsOK, AskedOncePerAttempt
<1>5. GivenUp' <=> GivenUp
  BY DEF GivenUp, LastCall
<1>6. QED
  BY <1>2, <1>4, <1>5, CallsSafe

LEMMA SendKeeps ==
  ASSUME IInv, NEW i \in Instances, Send(i) PROVE IInv'
<1>1. PICK s : s = wf[i].step
  OBVIOUS
<1>2. /\ At(i, "send") /\ s \in StepNames /\ s \in CallSteps /\ wf[i].run = "live"
      /\ ~ (i = "first" /\ GivenUp) /\ LastCall(Art(i, s)) = "open"
      /\ asks[Art(i, s)] < Len(calls[Art(i, s)]) /\ wf \in [Instances -> Position]
  BY <1>1, Here, Early DEF Send, Placed, CallPcs, HoldPcs, FailPcs, Relies
<1>3. UNCHANGED <<d1, main, kept, calls>> /\ s # "dispatch" /\ Art(i, s) \in Called
  BY <1>2, ArtIs DEF Send, CallSteps
<1>4. Safe(i) /\ (GivenUp' <=> GivenUp)
  <2>1. asks' = asks \/ asks' = [asks EXCEPT ![Art(i, s)] = @ + 1]
    BY <1>1 DEF Send
  <2>2. QED
    BY <1>1, <1>2, <1>3, <2>1, SentSafe
<1>5. LastCall(Art(i, s))' = "open"
  BY <1>2, <1>3 DEF LastCall, Art
<1>6. ASSUME NEW pc \in {"keep", "close"} PROVE GoesOn(i, s, pc) /\ pc \in Pcs
  BY <1>2, <1>3, <1>4, <1>5 DEF GoesOn, Placed, Pcs, CallPcs, HoldPcs, SettlePcs, CommitPcs, StatePcs, FailPcs
<1>7. CASE Goto(i, "keep")
  BY <1>1, <1>2, <1>4, <1>6, <1>7, GotoKeeps
<1>8. ASSUME NEW r \in {"failed", "retryable"}, Close(i, r) PROVE IInv'
  <2>1. r \in Closings
    BY DEF Closings
  <2>2. PICK x : Moves(i, x) /\ x.run = wf[i].run /\ x.step = wf[i].step /\ x.pc = "close" /\ x.result = r
    BY <1>2, <1>8, <2>1, CloseIs
  <2>3. QED
    BY <1>1, <1>2, <1>4, <1>6, <2>1, <2>2, MoveKeeps
<1>9. CASE Retry(i)
  BY <1>2, <1>4, <1>9, RetryKeeps
<1>10. QED
  BY <1>7, <1>8, <1>9 DEF Send

LEMMA KeepKeeps ==
  ASSUME IInv, NEW i \in Instances, Keep(i) PROVE IInv'
<1>1. PICK s : s = wf[i].step
  OBVIOUS
<1>2. /\ At(i, "keep") /\ s \in StepNames /\ s \in CallSteps /\ wf[i].run = "live"
      /\ wf[i].main \in Nat /\ wf[i].d1 \in Nat
      /\ ~ (i = "first" /\ GivenUp) /\ LastCall(Art(i, s)) = "open" /\ wf \in [Instances -> Position]
  BY <1>1, Here, Early DEF Keep, Placed, CallPcs, HoldPcs, FailPcs, Relies
<1>3. UNCHANGED <<d1, main, calls, asks>> /\ s # "dispatch" /\ kept' \subseteq kept \cup {Art(i, s)}
  BY <1>1, <1>2 DEF Keep, CallSteps
<1>4. Art(i, s) = "draft" => ~ GivenUp
  BY <1>2, ArtIs
<1>5. Safe(i) /\ (GivenUp' <=> GivenUp)
  BY <1>3, <1>4, Still
<1>6. LastCall(Art(i, s))' = "open"
  BY <1>2, <1>3 DEF LastCall, Art
<1>7. CASE Done(i, wf[i].main, wf[i].d1)
  BY <1>1, <1>2, <1>3, <1>5, <1>7, DoneKeeps
<1>8. ASSUME NEW r \in {"unknown", "broken"}, Close(i, r) PROVE IInv'
  <2>1. r \in Closings
    BY DEF Closings
  <2>2. PICK x : Moves(i, x) /\ x.run = wf[i].run /\ x.step = wf[i].step /\ x.pc = "close" /\ x.result = r
    BY <1>2, <1>8, <2>1, CloseIs
  <2>3. GoesOn(i, s, "close") /\ "close" \in Pcs
    BY <1>2, <1>3, <1>5, <1>6 DEF GoesOn, Placed, Pcs, CallPcs, HoldPcs, SettlePcs, CommitPcs, StatePcs, FailPcs
  <2>4. QED
    BY <1>1, <1>2, <1>5, <2>1, <2>2, <2>3, MoveKeeps
<1>9. CASE Retry(i)
  BY <1>2, <1>5, <1>9, RetryKeeps
<1>10. QED
  BY <1>7, <1>8, <1>9 DEF Keep

-----------------------------------------------------------------------------
(* Holding and failing.                                                    *)

LEMMA HoldD1Keeps ==
  ASSUME IInv, NEW i \in Instances, HoldD1(i) PROVE IInv'
<1>1. PICK s : s = wf[i].step
  OBVIOUS
<1>2. /\ At(i, "hold") /\ s \in StepNames /\ wf[i].run = "live" /\ wf[i].d1 \in Nat
      /\ (i = "first" /\ GivenUp => s = "askDraft")
  BY <1>1, Here DEF HoldD1, Relies
<1>3. UNCHANGED <<main, calls, asks, kept>>
  BY DEF HoldD1, ledgers
<1>4. <<"hold", Phase(s)>> \in LogKeys /\ <<"hold", Phase(s)>> # <<"app", "resume">> /\ Unknown # NonRetryable
  BY <1>2, KeysAre DEF NonRetryable, Unknown
<1>5. Project(i, "needs_action", <<"hold", Phase(s)>>, FALSE, Unknown, wf[i].d1, "holdMain")
  BY <1>1 DEF HoldD1
<1>6. Safe(i) /\ (GivenUp' <=> GivenUp) /\ (Goto(i, "holdMain") \/ Retry(i))
  BY <1>2, <1>3, <1>4, <1>5, ProjectWrites
<1>7. CASE Goto(i, "holdMain")
  <2>1. GoesOn(i, s, "holdMain") /\ "holdMain" \in Pcs
    BY <1>2, <1>6 DEF GoesOn, Placed, Pcs, HoldPcs, SettlePcs, CommitPcs, StatePcs, CallPcs, FailPcs
  <2>2. QED
    BY <1>1, <1>2, <1>6, <1>7, <2>1, GotoKeeps
<1>8. CASE Retry(i)
  BY <1>1, <1>2, <1>6, <1>8, RetryKeeps
<1>9. QED
  BY <1>6, <1>7, <1>8

\* A writing failure of the first draft is of one that was given up.
LEMMA FailD1Keeps ==
  ASSUME IInv, NEW i \in Instances, FailD1(i) PROVE IInv'
<1>1. PICK s : s = wf[i].step
  OBVIOUS
<1>2. /\ At(i, "fail") /\ s \in StepNames /\ s \in CallSteps /\ wf[i].run = "live" /\ wf[i].d1 \in Nat
      /\ (i = "first" /\ GivenUp => s = "askDraft")
      /\ LastCall(Art(i, s)) \in {"failed", "retryable"} /\ (s \in Revision => RevisionRequested)
  BY <1>1, Here DEF FailD1, Relies, Placed, FailPcs
<1>3. UNCHANGED <<main, calls, asks, kept>>
  BY DEF FailD1, ledgers
<1>4. PICK code : code = FailureCode(i)
  OBVIOUS
<1>5. code = NonRetryable => RevisionRequested \/ GivenUp
  <2>1. code = NonRetryable => LastCall(Art(i, s)) = "failed" /\ s \in {"askDraft", "askDraft2"}
    BY <1>1, <1>2, <1>4 DEF FailureCode, NonRetryable
  <2>2. i = "first" /\ s = "askDraft" => Art(i, s) = "draft"
    BY DEF Art
  <2>3. i = "recovery" => GivenUp
    BY <1>2 DEF IInv, RecoveryOK
  <2>4. QED
    BY <1>2, <2>1, <2>2, <2>3 DEF GivenUp, Revision, Instances
<1>6. <<"failed", Phase(s)>> \in LogKeys /\ <<"failed", Phase(s)>> # <<"app", "resume">>
  BY <1>2, KeysAre
<1>7. Project(i, "failed", <<"failed", Phase(s)>>, FALSE, code, wf[i].d1, "failMain")
  BY <1>1, <1>4 DEF FailD1
<1>8. Safe(i) /\ (GivenUp' <=> GivenUp) /\ (Goto(i, "failMain") \/ Retry(i))
  BY <1>2, <1>3, <1>5, <1>6, <1>7, ProjectWrites
<1>9. CASE Goto(i, "failMain")
  <2>1. GoesOn(i, s, "failMain") /\ "failMain" \in Pcs
    BY <1>2, <1>8 DEF GoesOn, Placed, Pcs, HoldPcs, SettlePcs, CommitPcs, StatePcs, CallPcs, FailPcs
  <2>2. QED
    BY <1>1, <1>2, <1>8, <1>9, <2>1, GotoKeeps
<1>10. CASE Retry(i)
  BY <1>1, <1>2, <1>8, <1>10, RetryKeeps
<1>11. QED
  BY <1>8, <1>9, <1>10

\* The Coordinator's half of both.
LEMMA EndMainKeeps ==
  ASSUME IInv, NEW i \in Instances, HoldMain(i) \/ FailMain(i) PROVE IInv'
<1>1. PICK s : s = wf[i].step
  OBVIOUS
<1>2. /\ s \in StepNames /\ wf[i].run = "live" /\ (i = "first" /\ GivenUp => s = "askDraft")
  BY <1>1, Here DEF HoldMain, FailMain, Relies
<1>3. UNCHANGED <<d1, calls, asks, kept>>
  BY DEF HoldMain, FailMain, ledgers
<1>4. PICK key \in {<<"hold", Phase(s)>>, <<"failed", Phase(s)>>} : \E target, code :
        /\ main' = main \/ main' = Moved(main, target, key, code)
        /\ Finish(i) \/ Retry(i)
  BY <1>1 DEF HoldMain, FailMain, Record, RecordOutcome
<1>5. PICK target, code :
        /\ main' = main \/ main' = Moved(main, target, key, code)
        /\ Finish(i) \/ Retry(i)
  BY <1>4
<1>6. Safe(i) /\ (GivenUp' <=> GivenUp)
  BY <1>2, <1>3, <1>5, KeysAre, MainGrows
<1>7. CASE Finish(i)
  BY <1>2, <1>6, <1>7, ErrorKeeps
<1>8. CASE Retry(i)
  BY <1>1, <1>2, <1>6, <1>8, RetryKeeps
<1>9. QED
  BY <1>5, <1>7, <1>8

-----------------------------------------------------------------------------
(* The engine and the App.                                                 *)

LEMMA EngineRestartKeeps ==
  ASSUME IInv, NEW i \in Instances, EngineRestart(i) PROVE IInv'
<1>1. /\ wf \in [Instances -> Position] /\ wf[i] \in Position /\ wf[i].run = "live" /\ Placed(wf[i])
  BY DEF EngineRestart, IInv, InstancesOK
<1>2. Safe(i)
  <2>1. UNCHANGED <<d1, main, calls, asks, kept>>
    BY DEF EngineRestart, ledgers
  <2>2. QED
    BY <2>1, Still
<1> DEFINE x == [wf[i] EXCEPT !.run = "errored", !.result = "restarted"]
<1>3. wf' = [wf EXCEPT ![i] = x]
  BY <1>1 DEF EngineRestart
<1>4. x \in Position /\ x.run = "errored" /\ x.step = wf[i].step /\ x.pc = wf[i].pc
  BY <1>1 DEF Position
<1> HIDE DEF x
<1>5. Over(i, x)
  BY <1>1, <1>3, <1>4 DEF Over, Moves, Placed
<1>6. QED
  BY <1>1, <1>2, <1>5, OverKeeps

\* The App changes D1 and no instance.
LEMMA AppKeeps ==
  ASSUME IInv, UNCHANGED <<main, calls, asks, kept, wf>>, FailureOK', RevisionRequested => RevisionRequested'
  PROVE  IInv'
<1>1. GivenUp' <=> GivenUp
  BY DEF GivenUp, LastCall
<1>2. CallsOK' /\ RecoveryOK'
  BY <1>1 DEF IInv, CallsOK, AskedOncePerAttempt, RecoveryOK
<1>3. ASSUME NEW j \in Instances
      PROVE  (Placed(wf[j]) /\ (wf[j].run = "live" => Relies(j, wf[j])))'
  <2>1. PICK k : k = wf[j]
    OBVIOUS
  <2>2. Placed(k) /\ (k.run = "live" => Relies(j, k))
    BY <2>1 DEF IInv, InstancesOK
  <2>3. Art(j, k.step)' = Art(j, k.step) /\ LastCall(Art(j, k.step))' = LastCall(Art(j, k.step))
    BY DEF LastCall, Art
  <2>4. k.run = "live" => Relies(j, k)'
    BY <1>1, <2>2, <2>3 DEF Relies
  <2>5. (wf[j] = k)' /\ Placed(k)'
    BY <2>1, <2>2 DEF Placed
  <2>6. QED
    BY <2>4, <2>5
<1>4. QED
  BY <1>2, <1>3 DEF IInv, InstancesOK

LEMMA AppNextKeeps ==
  ASSUME IInv, Cancel \/ RetryRun \/ ResumeRun PROVE IInv'
<1>1. d1.log \in Seq(LogKeys) /\ main.log \in Seq(LogKeys) /\ (d1.code = NonRetryable => RevisionRequested \/ GivenUp)
  BY DEF IInv, FailureOK
<1>2. PICK action \in {"cancel", "retry", "resume"} : \E target, code :
        /\ d1' = Moved(d1, target, <<"app", action>>, code)
        /\ code = NonRetryable => d1.code = NonRetryable
        /\ action = "resume" => d1.code = NonRetryable /\ ~ RevisionRequested
  BY DEF Cancel, RetryRun, ResumeRun, App, NonRetryable
<1>3. PICK target, code :
        /\ d1' = Moved(d1, target, <<"app", action>>, code)
        /\ code = NonRetryable => d1.code = NonRetryable
        /\ action = "resume" => d1.code = NonRetryable /\ ~ RevisionRequested
  BY <1>2
<1>4. UNCHANGED <<main, calls, asks, kept, wf>>
  BY DEF Cancel, RetryRun, ResumeRun, ledgers
<1>5. <<"app", action>> \in LogKeys /\ d1'.log = Append(d1.log, <<"app", action>>) /\ d1'.code = code
  BY <1>3 DEF LogKeys, Moved
<1>6. d1'.log \in Seq(LogKeys) /\ \A y : Has(d1'.log, y) <=> Has(d1.log, y) \/ y = <<"app", action>>
  BY <1>1, <1>5, LogGrows
<1>7. RevisionRequested => RevisionRequested'
  BY <1>6 DEF RevisionRequested, Projected
<1>8. GivenUp' <=> GivenUp
  BY <1>4 DEF GivenUp, LastCall
<1>9. d1'.code = NonRetryable => RevisionRequested' \/ GivenUp'
  BY <1>1, <1>3, <1>5, <1>7, <1>8
<1>10. Has(d1'.log, <<"app", "resume">>) => GivenUp'
  BY <1>1, <1>3, <1>6, <1>8 DEF IInv, FailureOK
<1>11. FailureOK'
  BY <1>1, <1>4, <1>6, <1>9, <1>10 DEF FailureOK
<1>12. QED
  BY <1>4, <1>7, <1>11, AppKeeps

\* A retry is pending only of a draft that was given up.
LEMMA PendingIs ==
  ASSUME IInv, RetryPending PROVE GivenUp
<1>1. d1.log \in Seq(LogKeys) /\ d1.log # <<>> /\ d1.log[Len(d1.log)] = <<"app", "resume">>
  BY DEF IInv, FailureOK, RetryPending, EndOf
<1>2. Len(d1.log) \in DOMAIN d1.log
  BY <1>1
<1>3. Has(d1.log, <<"app", "resume">>)
  BY <1>1, <1>2 DEF Has
<1>4. QED
  BY <1>3 DEF IInv, FailureOK

LEMMA StartRecoveryKeeps ==
  ASSUME IInv, StartRecovery PROVE IInv'
<1>1. GivenUp /\ wf \in [Instances -> Position]
  BY PendingIs DEF StartRecovery, IInv, InstancesOK
<1>2. UNCHANGED <<d1, main, calls, asks, kept>>
  BY DEF StartRecovery, ledgers
<1>3. PICK x : x = [Instance EXCEPT !.run = "live", !.step = "askDraft", !.pc = "resume"]
  OBVIOUS
<1>4. x \in Position /\ x.run = "live" /\ x.step = "askDraft" /\ x.pc = "resume"
  BY <1>3 DEF Instance, Position, Pcs, StepNames, CallSteps, Artifacts
<1>5. wf' = [wf EXCEPT !["recovery"] = x]
  BY <1>3 DEF StartRecovery
<1>6. wf' \in [Instances -> Position] /\ wf'["recovery"] = x /\ wf'["first"] = wf["first"]
  BY <1>1, <1>4, <1>5 DEF Instances
<1>7. /\ GivenUp' /\ (RevisionRequested' <=> RevisionRequested) /\ CallsOK' /\ FailureOK'
  BY <1>1, <1>2 DEF IInv, CallsOK, AskedOncePerAttempt, FailureOK, RevisionRequested, Projected, Has, GivenUp, LastCall
<1>8. RecoveryOK'
  BY <1>2, <1>4, <1>6, <1>7 DEF IInv, RecoveryOK
<1>9. (Placed(wf["recovery"]) /\ Relies("recovery", wf["recovery"]))'
  <2>1. Placed(x)' /\ Relies("recovery", x)'
    BY <1>4 DEF Placed, Relies, StatePcs, CallPcs, FailPcs, CommitPcs, SettlePcs, Revision
  <2>2. (wf["recovery"] = x)'
    BY <1>6
  <2>3. QED
    BY <2>1, <2>2
<1>10. (Placed(wf["first"]) /\ (wf["first"].run = "live" => Relies("first", wf["first"])))'
  <2>1. PICK k : k = wf["first"]
    OBVIOUS
  <2>2. Placed(k) /\ (k.run = "live" => Relies("first", k))
    BY <2>1 DEF IInv, InstancesOK, Instances
  <2>3. Art("first", k.step)' = Art("first", k.step) /\ LastCall(Art("first", k.step))' = LastCall(Art("first", k.step))
    BY <1>2 DEF LastCall, Art
  <2>4. k.run = "live" => Relies("first", k)'
    BY <1>1, <1>2, <1>7, <2>2, <2>3 DEF Relies
  <2>5. (wf["first"] = k)' /\ Placed(k)'
    BY <1>6, <2>1, <2>2 DEF Placed
  <2>6. QED
    BY <2>4, <2>5
<1>11. QED
  BY <1>6, <1>7, <1>8, <1>9, <1>10 DEF IInv, InstancesOK, Instances

LEMMA ResumeKeeps ==
  ASSUME IInv, Resume PROVE IInv'
<1>1. /\ "recovery" \in Instances /\ At("recovery", "resume")
  BY DEF Resume, Instances
<1>2. /\ wf \in [Instances -> Position] /\ wf["recovery"] \in Position /\ wf["recovery"].run = "live"
      /\ wf["recovery"].step = "askDraft"
  BY <1>1, Here DEF Placed
<1>3. UNCHANGED <<d1, calls, asks, kept>>
  BY DEF Resume, ledgers
<1>4. main' = main \/ main' = Moved(main, "writing", <<"app", "retry">>, "none")
  BY DEF Resume
<1>5. Safe("recovery") /\ Len(main.log) \in Nat /\ Len(d1.log) \in Nat
  <2>1. <<"app", "retry">> \in LogKeys
    BY DEF LogKeys
  <2>2. QED
    <3>1. Len(main.log) \in Nat /\ Len(d1.log) \in Nat
      BY DEF IInv, FailureOK
    <3>2. Safe("recovery")
      BY <1>1, <1>3, <1>4, <2>1, MainGrows
    <3>3. QED
      BY <3>1, <3>2
<1>6. CASE Error("recovery")
  BY <1>1, <1>2, <1>5, <1>6, ErrorKeeps
<1>7. ASSUME NEW m \in Nat, Recovered(m) PROVE IInv'
  <2> DEFINE x == [wf["recovery"] EXCEPT !.pc = "ask", !.main = m, !.d1 = Len(d1.log), !.arts = {"brief"}]
  <2>1. wf' = [wf EXCEPT !["recovery"] = x]
    BY <1>7 DEF Recovered
  <2>2. x \in Position /\ x.run = wf["recovery"].run /\ x.step = "askDraft" /\ x.pc = "ask"
    BY <1>2, <1>5, <1>7 DEF Position, Pcs, CallPcs, Artifacts
  <2> HIDE DEF x
  <2>3. Moves("recovery", x)
    BY <2>1, <2>2 DEF Moves
  <2>4. GoesOn("recovery", "askDraft", "ask") /\ "ask" \in Pcs
    BY DEF GoesOn, Placed, Pcs, CallSteps, HoldPcs, SettlePcs, CommitPcs, StatePcs, CallPcs, FailPcs
  <2>5. QED
    BY <1>1, <1>2, <1>5, <2>2, <2>3, <2>4, MoveKeeps
<1>8. QED
  BY <1>5, <1>6, <1>7 DEF Resume

-----------------------------------------------------------------------------
(* The invariant, and what it says of the paid calls.                      *)

LEMMA InitInv ==
  ASSUME Init PROVE IInv
<1>1. CallsOK
  BY DEF Init, CallsOK, AskedOncePerAttempt
<1>2. \A x : ~ Has(d1.log, x)
  BY DEF Init, Has
<1>3. FailureOK
  <2>1. d1.log = <<>> /\ main.log = <<>> /\ d1.code # NonRetryable
    BY DEF Init, NonRetryable
  <2>2. QED
    BY <1>2, <2>1 DEF FailureOK
<1>4. Instance \in Position /\ Instance.run = "none" /\ Instance.pc = "d1" /\ Instance.step = "transcribing"
  BY DEF Instance, Position, Pcs, StatePcs, StepNames, StateSteps, Artifacts
<1>5. RecoveryOK
  BY <1>4 DEF Init, RecoveryOK, Called, Instances
<1>6. PICK x : x = [Instance EXCEPT !.run = "live"]
  OBVIOUS
<1>7. x \in Position /\ x.run = "live" /\ x.pc = "d1" /\ x.step = "transcribing"
  BY <1>4, <1>6 DEF Position
<1>8. wf \in [Instances -> Position] /\ wf["first"] = x /\ wf["recovery"] = Instance
  BY <1>4, <1>6, <1>7 DEF Init, Instances
<1>9. ~ GivenUp
  BY DEF Init, GivenUp, LastCall, Called
<1>10. Placed(x) /\ Relies("first", x) /\ Placed(Instance)
  BY <1>4, <1>7, <1>9 DEF Placed, Relies, StatePcs, StateSteps, CallPcs, FailPcs, CommitPcs, SettlePcs, Revision
<1>11. InstancesOK
  BY <1>4, <1>8, <1>10 DEF InstancesOK, Instances
<1>12. QED
  BY <1>1, <1>3, <1>5, <1>11 DEF IInv

LEMMA StepInv ==
  ASSUME IInv, [Next]_vars PROVE IInv'
<1>1. ASSUME NEW i \in Instances, Step(i) PROVE IInv'
  BY <1>1, StateD1Keeps, StateMainKeeps, AskKeeps, SendKeeps, KeepKeeps, CloseCallKeeps, StoreKeeps, LookKeeps,
     CommitD1Keeps, CommitReceiptKeeps, VerifyKeeps, SettleCallKeeps, CloseHeldKeeps, HoldD1Keeps, FailD1Keeps,
     EndMainKeeps DEF Step
<1>2. ASSUME NEW i \in Instances, EngineRestart(i) PROVE IInv'
  BY <1>2, EngineRestartKeeps
<1>3. CASE Resume
  BY <1>3, ResumeKeeps
<1>4. CASE AppNext
  BY <1>4, AppNextKeeps, StartRecoveryKeeps DEF AppNext
<1>5. CASE UNCHANGED vars
  <2>1. UNCHANGED <<main, calls, asks, kept, wf, d1>>
    BY <1>5 DEF vars
  <2>2. FailureOK' /\ (RevisionRequested => RevisionRequested')
    BY <2>1 DEF IInv, FailureOK, RevisionRequested, Projected, Has, GivenUp, LastCall
  <2>3. QED
    BY <2>1, <2>2, AppKeeps
<1>6. QED
  BY <1>1, <1>2, <1>3, <1>4, <1>5 DEF Next

\* The calls, the failures in D1, the recovery and the instances agree in every
\* reachable state, whatever call, store, write or engine fails.
THEOREM Invariance == Spec => []IInv
<1>1. Init => IInv
  BY InitInv
<1>2. IInv /\ [Next]_vars => IInv'
  BY StepInv
<1>3. QED
  BY <1>1, <1>2, PTL DEF Spec

\* Paid work is done once: an agent is asked once per attempt and again only
\* where its answer allowed it, and the recovery of a writing failure has a
\* draft written only when the first instance's was closed as failed and is not
\* stored (prepareFiveAgentCall, completeFiveAgentCall, resumeWritingAfterServiceFix).
THEOREM AskedCorrect == Spec => []AskedOnce
<1>1. IInv => AskedOnce
  BY DEF IInv, CallsOK, RecoveryOK, GivenUp, AskedOnce, NoSecondDraft
<1>2. QED
  BY <1>1, Invariance, PTL

-----------------------------------------------------------------------------
(* The frozen article.                                                     *)

\* An instance that has work to do: not one whose draft was given up.
AtWork(i) == wf[i].run = "live" /\ ~ (i = "first" /\ GivenUp)

Passed(arts) ==
  IF RevisionRequested THEN verdict["review2"] = "pass" /\ {"draft2", "review2"} \subseteq arts
  ELSE verdict["review"] = "pass"

\* What an instance at work knows of the stores where it stands.
Committing == {"event", "receipt", "verify"}
Knows(i, k) ==
  /\ k.pc \in Committing => kept = k.arts \cup {Art(i, k.step)} /\ k.arts \subseteq Receipts /\ Receipts \subseteq kept
  /\ k.pc \in {"receipt", "verify"} => Art(i, k.step) \in Projected
  /\ k.pc = "verify" => Art(i, k.step) \in Receipts
  /\ RevisionRequested => k.step \in Revision \cup {"dispatch", "frozen"}
  /\ k.step \in {"reviewing2", "askReview2", "review2"} => "draft2" \in k.arts
  /\ k.step = "frozen" => Passed(k.arts)
  /\ shown => \/ k.step = "frozen"
              \/ i = "recovery" /\ k.step = "askDraft" /\ k.pc \in {"resume", "ask", "hold", "holdMain"}

\* An accepted retry is of a run whose article was not sent back.
ResumeOK == EndOf(d1.log) = <<"app", "resume">> => ~ RevisionRequested

FInv ==
  /\ \A i \in Instances : AtWork(i) => Knows(i, wf[i])
  /\ ResumeOK
  /\ FrozenIsBacked

\* What a step of instance i has to do to the stores.
Backs(i) ==
  /\ RevisionRequested => RevisionRequested'
  /\ RevisionRequested' => RevisionRequested \/ wf[i].step = "dispatch"
  /\ shown' => shown \/ wf[i].step = "frozen"
  /\ verdict' = verdict \/ wf[i].step \in {"askReview", "askReview2"}
  /\ AtWork(i) \/ (UNCHANGED <<calls, kept, verdict, shown>> /\ Receipts' = Receipts /\ Projected' = Projected)
  /\ ResumeOK'
  /\ FrozenIsBacked'

LEMMA FrozenStep ==
  ASSUME IInv, IInv', FInv, NEW i \in Instances, wf[i].run = "live", Backs(i), NEW x, Moves(i, x),
         x.run # "none", x.run = "live" /\ AtWork(i) => Knows(i, x)'
  PROVE  FInv'
<1>1. wf \in [Instances -> Position] /\ wf' = [wf EXCEPT ![i] = x]
  BY DEF IInv, InstancesOK, Moves
<1>2. wf'[i] = x /\ \A j \in Instances \ {i} : wf'[j] = wf[j]
  BY <1>1
<1>3. ASSUME NEW j \in Instances PROVE (AtWork(j) => Knows(j, wf[j]))'
  <2>1. CASE j = i /\ AtWork(i)
    <3>1. AtWork(i)' => Knows(i, x)'
      BY <1>2, <2>1 DEF AtWork
    <3>2. (wf[j] = x)'
      BY <1>2, <2>1
    <3>3. QED
      BY <2>1, <3>1, <3>2
  <2>2. CASE j = i /\ ~ AtWork(i)
    <3>1. i = "first" /\ GivenUp /\ UNCHANGED calls
      BY <2>2 DEF AtWork, Backs
    <3>2. ~ AtWork(i)'
      BY <3>1 DEF AtWork, GivenUp, LastCall
    <3>3. QED
      BY <2>2, <3>2
  <2>3. CASE j # i
    <3>1. CASE AtWork(i)
      <4>1. ASSUME AtWork(j)' PROVE FALSE
        <5>1. wf[j].run = "live"
          BY <1>2, <2>3, <4>1 DEF AtWork
        <5>2. GivenUp
          BY <2>3, <5>1, Apart
        <5>3. i = "recovery" /\ j = "first"
          BY <2>3, <3>1, <5>2 DEF AtWork, Instances
        <5>4. GivenUp'
          BY <1>2, <5>3 DEF IInv, RecoveryOK, Instances
        <5>5. QED
          BY <4>1, <5>3, <5>4 DEF AtWork
      <4>2. QED
        BY <4>1
    <3>2. CASE ~ AtWork(i)
      <4>1. UNCHANGED <<calls, kept, verdict, shown>> /\ Receipts' = Receipts /\ Projected' = Projected
        BY <3>2 DEF Backs
      <4>2. PICK k : k = wf[j]
        OBVIOUS
      <4>3. (wf[j] = k)'
        BY <1>2, <2>3, <4>2
      <4>4. AtWork(j)' => AtWork(j)
        BY <1>2, <2>3, <4>1 DEF AtWork, GivenUp, LastCall
      <4>5. AtWork(j) => Knows(j, k)
        BY <4>2 DEF FInv
      <4>6. RevisionRequested' <=> RevisionRequested
        BY <4>1 DEF RevisionRequested
      <4>7. Art(j, k.step)' = Art(j, k.step) /\ Passed(k.arts)' = Passed(k.arts)
        BY <4>1, <4>6 DEF Art, Passed
      <4>8. Knows(j, k) => Knows(j, k)'
        BY <4>1, <4>6, <4>7 DEF Knows
      <4>9. QED
        BY <4>3, <4>4, <4>5, <4>8
    <3>3. QED
      BY <3>1, <3>2
  <2>4. QED
    BY <2>1, <2>2, <2>3
<1>4. QED
  BY <1>3 DEF FInv, Backs

\* A step that does not touch what the article is backed by.
LEMMA Untouched ==
  ASSUME IInv, FInv, NEW i \in Instances, UNCHANGED <<kept, verdict, shown>>,
         Receipts' = Receipts, Projected' = Projected, AtWork(i) \/ UNCHANGED calls, ResumeOK'
  PROVE  Backs(i)
<1>1. RevisionRequested' <=> RevisionRequested
  BY DEF RevisionRequested
<1>2. FrozenIsBacked'
  BY <1>1 DEF FInv, FrozenIsBacked
<1>3. QED
  BY <1>1, <1>2 DEF Backs

\* Positions at which nothing is known of the outbox and the receipts.
LEMMA KnowsKept ==
  ASSUME IInv, FInv, NEW i \in Instances, AtWork(i), Backs(i), NEW x, x.step = wf[i].step, x.arts = wf[i].arts,
         x.pc \notin Committing,
         shown => wf[i].step = "frozen" \/ (x.step = "askDraft" /\ x.pc \in {"resume", "ask", "hold", "holdMain"})
  PROVE  Knows(i, x)'
<1>1. Knows(i, wf[i])
  BY DEF FInv
<1>2. RevisionRequested' => x.step \in Revision \cup {"dispatch", "frozen"}
  BY <1>1 DEF Knows, Backs
<1>3. x.step \in {"reviewing2", "askReview2", "review2"} => "draft2" \in x.arts
  BY <1>1 DEF Knows
<1>4. x.step = "frozen" => Passed(x.arts)'
  <2>1. ASSUME x.step = "frozen"
        PROVE  (RevisionRequested' <=> RevisionRequested) /\ verdict' = verdict /\ Passed(wf[i].arts)
    BY <1>1, <2>1 DEF Knows, Backs
  <2>2. QED
    BY <2>1 DEF Passed
<1>5. shown' => \/ x.step = "frozen"
                \/ i = "recovery" /\ x.step = "askDraft" /\ x.pc \in {"resume", "ask", "hold", "holdMain"}
  BY <1>1 DEF Knows, Backs
<1>6. QED
  BY <1>2, <1>3, <1>4, <1>5 DEF Knows, Committing

LEMMA FrozenGoto ==
  ASSUME IInv, IInv', FInv, NEW i \in Instances, wf[i].run = "live", Backs(i),
         NEW pc \in Pcs \ Committing, Goto(i, pc),
         shown /\ AtWork(i) => wf[i].step = "frozen" \/ (wf[i].step = "askDraft" /\ pc \in {"resume", "ask", "hold", "holdMain"})
  PROVE  FInv'
<1>1. wf \in [Instances -> Position]
  BY DEF IInv, InstancesOK
<1>2. PICK x : /\ Moves(i, x) /\ x.run = wf[i].run /\ x.step = wf[i].step /\ x.pc = pc
               /\ x.result = wf[i].result /\ x.arts = wf[i].arts
  BY <1>1, GotoIs
<1>3. AtWork(i) => Knows(i, x)'
  BY <1>2, KnowsKept
<1>4. QED
  BY <1>2, <1>3, FrozenStep

LEMMA FrozenClose ==
  ASSUME IInv, IInv', FInv, NEW i \in Instances, wf[i].run = "live", Backs(i), NEW r \in Closings, Close(i, r),
         ~ shown
  PROVE  FInv'
<1>1. wf \in [Instances -> Position]
  BY DEF IInv, InstancesOK
<1>2. PICK x : /\ Moves(i, x) /\ x.run = wf[i].run /\ x.step = wf[i].step /\ x.pc = "close"
               /\ x.result = r /\ x.arts = wf[i].arts
  BY <1>1, CloseIs
<1>3. AtWork(i) => Knows(i, x)'
  BY <1>2, KnowsKept DEF Committing
<1>4. QED
  BY <1>2, <1>3, FrozenStep

LEMMA FrozenOver ==
  ASSUME IInv, IInv', FInv, NEW i \in Instances, wf[i].run = "live", Backs(i), NEW x, Over(i, x)
  PROVE  FInv'
<1>1. Moves(i, x) /\ x.run # "none" /\ x.run # "live"
  BY DEF Over
<1>2. QED
  BY <1>1, FrozenStep

LEMMA FrozenEnds ==
  ASSUME IInv, IInv', FInv, NEW i \in Instances, wf[i].run = "live", Backs(i), Error(i) \/ Finish(i)
  PROVE  FInv'
<1>1. wf \in [Instances -> Position] /\ Placed(wf[i])
  BY DEF IInv, InstancesOK
<1>2. PICK r \in {"done", "errored"} : wf' = [wf EXCEPT ![i].run = r]
  BY DEF Error, Finish
<1>3. PICK x : Moves(i, x) /\ x.run = r /\ x.step = wf[i].step /\ x.pc = wf[i].pc
  BY <1>1, <1>2, ErrorIs
<1>4. Over(i, x)
  BY <1>1, <1>3 DEF Over, Placed
<1>5. QED
  BY <1>4, FrozenOver

LEMMA FrozenRetry ==
  ASSUME IInv, IInv', FInv, NEW i \in Instances, wf[i].run = "live", Backs(i), Retry(i)
  PROVE  FInv'
<1>1. wf \in [Instances -> Position] /\ Placed(wf[i])
  BY DEF IInv, InstancesOK
<1>2. PICK x : \/ Over(i, x)
               \/ /\ Moves(i, x) /\ x.run = wf[i].run /\ x.step = wf[i].step /\ x.pc = Begin(x.step)
                  /\ Placed(x) /\ x.arts = wf[i].arts
  BY <1>1, RetryIs
<1>3. CASE Over(i, x)
  BY <1>3, FrozenOver
<1>4. CASE /\ Moves(i, x) /\ x.run = wf[i].run /\ x.step = wf[i].step /\ x.pc = Begin(x.step)
           /\ Placed(x) /\ x.arts = wf[i].arts
  <2>1. x.step \in StepNames
    BY <1>4 DEF Moves, Position
  <2>2. x.pc \in {"d1", "ask", "store"} /\ (x.step = "askDraft" => x.pc = "ask")
    BY <1>4, <2>1, BeginIs
  <2>3. shown /\ AtWork(i) => wf[i].step = "frozen" \/ (x.step = "askDraft" /\ x.pc = "ask")
    BY <1>4, <2>2 DEF FInv, Knows
  <2>4. AtWork(i) => Knows(i, x)'
    BY <1>4, <2>2, <2>3, KnowsKept DEF Committing
  <2>5. QED
    BY <1>4, <2>4, FrozenStep
<1>5. QED
  BY <1>2, <1>3, <1>4

LEMMA FrozenDone ==
  ASSUME IInv, IInv', FInv, NEW i \in Instances, wf[i].run = "live", AtWork(i), Backs(i), verdict' = verdict,
         RevisionRequested' <=> RevisionRequested,
         NEW m \in Nat, NEW d \in Nat, Done(i, m, d), shown => wf[i].step = "frozen"
  PROVE  FInv'
<1>1. wf \in [Instances -> Position] /\ Placed(wf[i]) /\ Relies(i, wf[i]) /\ Knows(i, wf[i]) /\ wf[i] \in Position
  BY DEF IInv, InstancesOK, FInv
<1>2. PICK x : \/ Over(i, x)
               \/ /\ Moves(i, x) /\ x.run = wf[i].run /\ x.step \in StepNames /\ x.pc = Begin(x.step)
                  /\ Follows(wf[i].step, x.step) /\ wf[i].step # "frozen"
                  /\ x.arts = IF wf[i].step \in StateSteps \cup CallSteps THEN wf[i].arts
                              ELSE wf[i].arts \cup {Art(i, wf[i].step)}
                  /\ Placed(x)
  BY <1>1, DoneIs
<1>3. CASE Over(i, x)
  BY <1>3, FrozenOver
<1>4. CASE /\ Moves(i, x) /\ x.run = wf[i].run /\ x.step \in StepNames /\ x.pc = Begin(x.step)
           /\ Follows(wf[i].step, x.step) /\ wf[i].step # "frozen"
           /\ x.arts = IF wf[i].step \in StateSteps \cup CallSteps THEN wf[i].arts
                       ELSE wf[i].arts \cup {Art(i, wf[i].step)}
           /\ Placed(x)
  <2>1. x.pc \in {"d1", "ask", "store"}
    BY <1>4, BeginIs
  <2>2. ~ shown'
    BY <1>4 DEF Backs
  <2>3. RevisionRequested' => x.step \in Revision \cup {"dispatch", "frozen"}
    BY <1>1, <1>4 DEF Knows, Follows
  <2>4. wf[i].arts \subseteq x.arts
    BY <1>4
  <2>5. wf[i].step \in {"draft2", "review2"} => wf[i].step \in x.arts
    BY <1>4 DEF Art, StateSteps, CallSteps
  <2>6. x.step \in {"reviewing2", "askReview2", "review2"} => "draft2" \in x.arts
    BY <1>1, <1>4, <2>4, <2>5 DEF Knows, Follows
  <2>7. x.step = "frozen" => Passed(x.arts)'
    <3>1. ASSUME wf[i].step = "review", verdict["review"] = "pass" PROVE Passed(x.arts)'
      <4>1. ~ RevisionRequested
        BY <1>1, <3>1 DEF Knows, Revision
      <4>2. QED
        BY <3>1, <4>1 DEF Passed
    <3>2. ASSUME wf[i].step = "review2", verdict["review2"] = "pass" PROVE Passed(x.arts)'
      <4>1. RevisionRequested
        BY <1>1, <3>2 DEF Relies, Revision
      <4>2. {"draft2", "review2"} \subseteq x.arts
        BY <1>1, <2>4, <2>5, <3>2 DEF Knows
      <4>3. QED
        BY <3>2, <4>1, <4>2 DEF Passed
    <3>3. QED
      BY <1>4, <3>1, <3>2 DEF Follows
  <2>8. Knows(i, x)'
    BY <2>1, <2>2, <2>3, <2>6, <2>7 DEF Knows, Committing
  <2>9. QED
    BY <1>4, <2>8, FrozenStep
<1>5. QED
  BY <1>2, <1>3, <1>4

\* What an event of D1 or of the Coordinator adds.
LEMMA EventAdds ==
  ASSUME IInv, NEW log \in Seq(LogKeys), NEW key \in LogKeys
  PROVE  /\ EndOf(Append(log, key)) = key
         /\ \A a : Has(Append(log, key), <<"artifact", a>>) <=> Has(log, <<"artifact", a>>) \/ key = <<"artifact", a>>
<1>1. /\ Append(log, key) # <<>> /\ Len(Append(log, key)) = Len(log) + 1
      /\ Append(log, key)[Len(log) + 1] = key
  OBVIOUS
<1>2. EndOf(Append(log, key)) = key
  BY <1>1 DEF EndOf
<1>3. QED
  BY <1>2, LogGrows

LEMMA D1Adds ==
  ASSUME IInv, FInv, UNCHANGED main, NEW key \in LogKeys, NEW target, NEW code,
         d1' = d1 \/ d1' = Moved(d1, target, key, code)
  PROVE  /\ Receipts' = Receipts /\ Projected \subseteq Projected'
         /\ \A a \in Projected' : a \in Projected \/ key = <<"artifact", a>>
         /\ (RevisionRequested' <=> RevisionRequested) /\ key # <<"app", "resume">> => ResumeOK'
<1>1. Receipts' = Receipts
  BY DEF Receipts, Has
<1>2. d1.log \in Seq(LogKeys)
  BY DEF IInv, FailureOK
<1>3. CASE d1' = d1
  BY <1>1, <1>3 DEF Projected, Has, FInv, ResumeOK
<1>4. CASE d1' = Moved(d1, target, key, code)
  <2>1. d1'.log = Append(d1.log, key)
    BY <1>4 DEF Moved
  <2>2. /\ EndOf(d1'.log) = key
        /\ \A a : Has(d1'.log, <<"artifact", a>>) <=> Has(d1.log, <<"artifact", a>>) \/ key = <<"artifact", a>>
    BY <1>2, <2>1, EventAdds
  <2>3. Projected \subseteq Projected' /\ \A a \in Projected' : a \in Projected \/ key = <<"artifact", a>>
    BY <2>2 DEF Projected
  <2>4. QED
    BY <1>1, <2>2, <2>3 DEF ResumeOK
<1>5. QED
  BY <1>3, <1>4

LEMMA MainAdds ==
  ASSUME IInv, FInv, UNCHANGED d1, NEW key \in LogKeys, NEW target, NEW code,
         main' = main \/ main' = Moved(main, target, key, code)
  PROVE  /\ Projected' = Projected /\ (RevisionRequested' <=> RevisionRequested) /\ Receipts \subseteq Receipts'
         /\ \A a \in Receipts' : a \in Receipts \/ key = <<"artifact", a>>
         /\ ResumeOK'
<1>1. Projected' = Projected /\ (RevisionRequested' <=> RevisionRequested)
  BY DEF Projected, RevisionRequested, Has
<1>2. ResumeOK'
  BY <1>1 DEF ResumeOK, FInv
<1>3. main.log \in Seq(LogKeys)
  BY DEF IInv, FailureOK
<1>4. CASE main' = main
  BY <1>1, <1>2, <1>4 DEF Receipts, Has
<1>5. CASE main' = Moved(main, target, key, code)
  <2>1. main'.log = Append(main.log, key)
    BY <1>5 DEF Moved
  <2>2. /\ EndOf(main'.log) = key
        /\ \A a : Has(main'.log, <<"artifact", a>>) <=> Has(main.log, <<"artifact", a>>) \/ key = <<"artifact", a>>
    BY <1>3, <2>1, EventAdds
  <2>3. QED
    BY <1>1, <1>2, <2>2 DEF Receipts
<1>6. QED
  BY <1>4, <1>5

\* A step that records no artifact.
LEMMA Notes ==
  ASSUME IInv, FInv, NEW i \in Instances, UNCHANGED <<calls, kept, verdict, shown>>,
         NEW key \in LogKeys, key[1] # "artifact", key # <<"app", "resume">>, NEW target, NEW code,
         \/ UNCHANGED main /\ (d1' = d1 \/ d1' = Moved(d1, target, key, code))
         \/ UNCHANGED d1 /\ (main' = main \/ main' = Moved(main, target, key, code))
  PROVE  Backs(i)
<1>1. \A a : key # <<"artifact", a>>
  OBVIOUS
<1>2. Receipts' = Receipts /\ Projected' = Projected /\ ResumeOK'
  <2>1. CASE UNCHANGED main /\ (d1' = d1 \/ d1' = Moved(d1, target, key, code))
    <3>1. Receipts' = Receipts /\ Projected' = Projected
      BY <1>1, <2>1, D1Adds
    <3>2. QED
      BY <2>1, <3>1, D1Adds DEF RevisionRequested
  <2>2. CASE UNCHANGED d1 /\ (main' = main \/ main' = Moved(main, target, key, code))
    BY <1>1, <2>2, MainAdds
  <2>3. QED
    BY <2>1, <2>2
<1>3. QED
  BY <1>2, Untouched

\* A step that writes to no ledger and stores nothing.
LEMMA Silent ==
  ASSUME IInv, FInv, NEW i \in Instances, UNCHANGED <<d1, main, kept, verdict, shown>>, AtWork(i) \/ UNCHANGED calls
  PROVE  /\ Backs(i) /\ Receipts' = Receipts /\ Projected' = Projected
         /\ RevisionRequested' <=> RevisionRequested
<1>1. Receipts' = Receipts /\ Projected' = Projected /\ (RevisionRequested' <=> RevisionRequested)
  BY DEF Receipts, Projected, RevisionRequested, Has
<1>2. ResumeOK'
  BY <1>1 DEF FInv, ResumeOK
<1>3. QED
  BY <1>1, <1>2, Untouched

\* Where an instance at work may stand once the article is shown.
LEMMA Later ==
  ASSUME IInv, FInv, NEW i \in Instances, NEW pc, At(i, pc), AtWork(i), shown, pc \notin {"resume", "ask", "hold", "holdMain"}
  PROVE  wf[i].step = "frozen"
BY DEF FInv, Knows, At

-----------------------------------------------------------------------------
(* Every step keeps the frozen article backed.                             *)

LEMMA StateD1Backs ==
  ASSUME IInv, IInv', FInv, NEW i \in Instances, StateD1(i) PROVE FInv'
<1>1. PICK s : s = wf[i].step
  OBVIOUS
<1>2. /\ At(i, "d1") /\ s \in StepNames /\ wf[i].run = "live" /\ "main" \in Pcs \ Committing
  BY <1>1, Here DEF StateD1, Pcs, StatePcs, Committing
<1>3. Project(i, D1Target(s), <<"state", s>>, s \in InRevision, "none", wf[i].d1, "main")
  BY <1>1 DEF StateD1
<1>4. (d1' = d1 \/ d1' = Moved(d1, D1Target(s), <<"state", s>>, "none")) /\ (Goto(i, "main") \/ Retry(i))
  BY <1>3 DEF Project
<1>5. UNCHANGED <<main, calls, kept, verdict, shown>>
  BY DEF StateD1, ledgers
<1>6. Backs(i)
  BY <1>2, <1>4, <1>5, KeysAre, Notes
<1>7. shown /\ AtWork(i) => wf[i].step = "frozen"
  BY <1>2, Later
<1>8. QED
  BY <1>2, <1>4, <1>6, <1>7, FrozenGoto, FrozenRetry

LEMMA StateMainBacks ==
  ASSUME IInv, IInv', FInv, NEW i \in Instances, StateMain(i) PROVE FInv'
<1>1. PICK s : s = wf[i].step
  OBVIOUS
<1>2. /\ At(i, "main") /\ s \in StepNames /\ wf[i].run = "live" /\ wf[i].main + 1 \in Nat /\ wf[i].d1 + 1 \in Nat
      /\ AtWork(i)
  BY <1>1, Here, Early DEF StateMain, AtWork, HoldPcs, FailPcs
<1>3. Record("main", i, MainTarget(s), <<"state", s>>, "none", wf[i].main, Done(i, wf[i].main + 1, wf[i].d1 + 1))
  BY <1>1 DEF StateMain
<1>4. /\ main' = main \/ main' = Moved(main, MainTarget(s), <<"state", s>>, "none")
      /\ Done(i, wf[i].main + 1, wf[i].d1 + 1) \/ Retry(i)
  BY <1>3 DEF Record, RecordOutcome
<1>5. UNCHANGED <<d1, calls, kept, verdict, shown>>
  BY DEF StateMain, ledgers
<1>6. Backs(i)
  BY <1>2, <1>4, <1>5, KeysAre, Notes
<1>7. (shown => wf[i].step = "frozen") /\ (RevisionRequested' <=> RevisionRequested)
  BY <1>2, <1>5, Later DEF RevisionRequested, Projected, Has
<1>8. QED
  BY <1>2, <1>4, <1>5, <1>6, <1>7, FrozenDone, FrozenRetry

LEMMA EndD1Backs ==
  ASSUME IInv, IInv', FInv, NEW i \in Instances, HoldD1(i) \/ FailD1(i) PROVE FInv'
<1>1. PICK s : s = wf[i].step
  OBVIOUS
<1>2. s \in StepNames /\ wf[i].run = "live"
  BY <1>1, Here DEF HoldD1, FailD1
<1>3. UNCHANGED <<main, calls, kept, verdict, shown>>
  BY DEF HoldD1, FailD1, ledgers
<1>4. ASSUME At(i, "hold"), Project(i, "needs_action", <<"hold", Phase(s)>>, FALSE, Unknown, wf[i].d1, "holdMain")
      PROVE  FInv'
  <2>1. (d1' = d1 \/ d1' = Moved(d1, "needs_action", <<"hold", Phase(s)>>, Unknown)) /\ (Goto(i, "holdMain") \/ Retry(i))
    BY <1>4 DEF Project
  <2>2. Backs(i)
    BY <1>2, <1>3, <2>1, KeysAre, Notes
  <2>3. shown /\ AtWork(i) => wf[i].step = "frozen" \/ wf[i].step = "askDraft"
    BY <1>4 DEF FInv, Knows
  <2>4. "holdMain" \in Pcs \ Committing
    BY DEF Pcs, HoldPcs, Committing
  <2>5. QED
    BY <1>2, <2>1, <2>2, <2>3, <2>4, FrozenGoto, FrozenRetry
<1>5. ASSUME At(i, "fail"), NEW code, Project(i, "failed", <<"failed", Phase(s)>>, FALSE, code, wf[i].d1, "failMain")
      PROVE  FInv'
  <2>1. (d1' = d1 \/ d1' = Moved(d1, "failed", <<"failed", Phase(s)>>, code)) /\ (Goto(i, "failMain") \/ Retry(i))
    BY <1>5 DEF Project
  <2>2. Backs(i)
    BY <1>2, <1>3, <2>1, KeysAre, Notes
  <2>3. shown /\ AtWork(i) => wf[i].step = "frozen"
    BY <1>5, Later
  <2>4. "failMain" \in Pcs \ Committing
    BY DEF Pcs, FailPcs, Committing
  <2>5. QED
    BY <1>2, <2>1, <2>2, <2>3, <2>4, FrozenGoto, FrozenRetry
<1>6. QED
  BY <1>1, <1>4, <1>5 DEF HoldD1, FailD1

LEMMA EndMainBacks ==
  ASSUME IInv, IInv', FInv, NEW i \in Instances, HoldMain(i) \/ FailMain(i) PROVE FInv'
<1>1. PICK s : s = wf[i].step
  OBVIOUS
<1>2. s \in StepNames /\ wf[i].run = "live"
  BY <1>1, Here DEF HoldMain, FailMain
<1>3. UNCHANGED <<d1, calls, kept, verdict, shown>>
  BY DEF HoldMain, FailMain, ledgers
<1>4. PICK key \in {<<"hold", Phase(s)>>, <<"failed", Phase(s)>>} : \E target, code :
        /\ main' = main \/ main' = Moved(main, target, key, code)
        /\ Finish(i) \/ Retry(i)
  BY <1>1 DEF HoldMain, FailMain, Record, RecordOutcome
<1>5. PICK target, code :
        /\ main' = main \/ main' = Moved(main, target, key, code)
        /\ Finish(i) \/ Retry(i)
  BY <1>4
<1>6. Backs(i)
  BY <1>2, <1>3, <1>5, KeysAre, Notes
<1>7. QED
  BY <1>2, <1>5, <1>6, FrozenEnds, FrozenRetry

\* What an artifact that is not reconciled does.
LEMMA UnreconciledBacks ==
  ASSUME IInv, IInv', FInv, NEW i \in Instances, wf[i].run = "live", wf[i].step \in CommitSteps, Backs(i),
         shown /\ AtWork(i) => wf[i].step = "frozen", Unreconciled(i)
  PROVE  FInv'
<1>1. "hold" \in Pcs \ Committing /\ "closeHeld" \in Pcs \ Committing
  BY DEF Pcs, HoldPcs, SettlePcs, Committing
<1>2. Retry(i) \/ Goto(i, "hold") \/ Goto(i, "closeHeld")
  BY DEF Unreconciled, CommitSteps
<1>3. QED
  BY <1>1, <1>2, FrozenGoto, FrozenRetry

\* The frozen article is kept already where it is shown.
LEMMA StoreBacks ==
  ASSUME IInv, IInv', FInv, NEW i \in Instances, Store(i) PROVE FInv'
<1>1. PICK s : s = wf[i].step
  OBVIOUS
<1>2. /\ At(i, "store") /\ s \in StepNames /\ s \in CommitSteps /\ wf[i].run = "live" /\ AtWork(i)
  BY <1>1, Here, Early DEF Store, Placed, CommitPcs, HoldPcs, FailPcs, AtWork
<1>3. UNCHANGED <<d1, main, calls, verdict, shown>> /\ kept' \in {kept, kept \cup {Art(i, s)}}
  BY <1>1 DEF Store
<1>4. shown => s = "frozen"
  BY <1>1, <1>2, Later
<1>5. shown => UNCHANGED kept
  <2>1. s = "frozen" => Art(i, s) = "frozen"
    BY DEF Art
  <2>2. shown => "frozen" \in kept
    BY DEF FInv, FrozenIsBacked
  <2>3. QED
    BY <1>3, <1>4, <2>1, <2>2
<1>6. Receipts' = Receipts /\ Projected' = Projected /\ (RevisionRequested' <=> RevisionRequested)
  BY <1>3 DEF Receipts, Projected, RevisionRequested, Has
<1>7. FrozenIsBacked'
  BY <1>3, <1>5, <1>6 DEF FInv, FrozenIsBacked
<1>8. Backs(i)
  BY <1>2, <1>3, <1>6, <1>7 DEF Backs, FInv, ResumeOK
<1>9. "look" \in Pcs \ Committing
  BY DEF Pcs, CommitPcs, Committing
<1>10. Goto(i, "look") \/ Unreconciled(i) \/ Retry(i)
  BY DEF Store
<1>11. QED
  BY <1>1, <1>2, <1>4, <1>8, <1>9, <1>10, FrozenGoto, FrozenRetry, UnreconciledBacks

\* What the exact set of artifacts says where the commit goes on.
LEMMA LookBacks ==
  ASSUME IInv, IInv', FInv, NEW i \in Instances, Look(i) PROVE FInv'
<1>1. PICK s : s = wf[i].step
  OBVIOUS
<1>2. /\ At(i, "look") /\ s \in StepNames /\ s \in CommitSteps /\ wf[i].run = "live" /\ AtWork(i)
      /\ wf \in [Instances -> Position] /\ wf[i] \in Position
  BY <1>1, Here, Early DEF Look, Placed, CommitPcs, HoldPcs, FailPcs, AtWork
<1>3. UNCHANGED <<d1, main, calls, verdict, shown, kept>>
  BY DEF Look, ledgers
<1>4. shown => s = "frozen"
  BY <1>1, <1>2, Later
<1>5. Backs(i) /\ Receipts' = Receipts /\ Projected' = Projected /\ (RevisionRequested' <=> RevisionRequested)
  BY <1>3, Silent
<1>6. ASSUME NEW pc \in {"event", "receipt", "verify"},
             wf' = [wf EXCEPT ![i].pc = pc, ![i].atMain = Len(main.log), ![i].atD1 = Len(d1.log)],
             kept = wf[i].arts \cup {Art(i, s)}, wf[i].arts \subseteq Receipts, Receipts \subseteq kept,
             pc \in {"receipt", "verify"} => Art(i, s) \in Projected,
             pc = "verify" => Art(i, s) \in Receipts
      PROVE  FInv'
  <2> DEFINE x == [wf[i] EXCEPT !.pc = pc, !.atMain = Len(main.log), !.atD1 = Len(d1.log)]
  <2>1. Len(main.log) \in Nat /\ Len(d1.log) \in Nat /\ pc \in Pcs
    BY DEF IInv, FailureOK, Pcs, CommitPcs
  <2>2. wf' = [wf EXCEPT ![i] = x]
    BY <1>2, <1>6
  <2>3. x \in Position /\ x.run = "live" /\ x.step = s /\ x.pc = pc /\ x.arts = wf[i].arts
    BY <1>1, <1>2, <2>1 DEF Position
  <2> HIDE DEF x
  <2>4. PICK y : Moves(i, y) /\ y.run = "live" /\ y.step = s /\ y.pc = pc /\ y.arts = wf[i].arts
    BY <2>2, <2>3 DEF Moves
  <2>5. PICK arts : arts = wf[i].arts
    OBVIOUS
  <2>6. Art(i, s)' = Art(i, s) /\ Passed(arts)' = Passed(arts)
    BY <1>3, <1>5 DEF Art, Passed
  <2>7. Knows(i, wf[i])
    BY <1>2 DEF FInv
  <2>8. /\ RevisionRequested' => s \in Revision \cup {"dispatch", "frozen"}
        /\ s \in {"reviewing2", "askReview2", "review2"} => "draft2" \in arts
        /\ s = "frozen" => Passed(arts)'
    BY <1>1, <1>5, <2>5, <2>6, <2>7 DEF Knows
  <2>9. /\ kept' = arts \cup {Art(i, s)'} /\ arts \subseteq Receipts' /\ Receipts' \subseteq kept'
        /\ pc \in {"receipt", "verify"} => Art(i, s)' \in Projected'
        /\ pc = "verify" => Art(i, s)' \in Receipts'
    BY <1>3, <1>5, <1>6, <2>5, <2>6
  <2>10. y.step = s /\ y.pc = pc /\ y.arts = arts
    BY <2>4, <2>5
  <2>11. Knows(i, y)'
    BY <1>3, <1>4, <2>8, <2>9, <2>10 DEF Knows
  <2>12. QED
    BY <1>2, <1>5, <2>4, <2>11, FrozenStep
<1>7. CASE Unreconciled(i)
  BY <1>1, <1>2, <1>4, <1>5, <1>7, UnreconciledBacks
<1>8. CASE Retry(i)
  BY <1>2, <1>5, <1>8, FrozenRetry
<1>9. CASE LookAt(i) /\ ~ Unreconciled(i)
  <2> DEFINE a == Art(i, s)
  <2>1. \E pc \in {"event", "receipt", "verify"} :
          /\ wf' = [wf EXCEPT ![i].pc = pc, ![i].atMain = Len(main.log), ![i].atD1 = Len(d1.log)]
          /\ Exact(wf[i].arts \cup {a}, wf[i].arts \cup (IF a \in Receipts THEN {a} ELSE {}),
                   wf[i].arts \cup (IF a \in Projected THEN {a} ELSE {}))
          /\ pc = "receipt" => a \in Projected
          /\ pc = "verify" => a \in Receipts
    BY <1>1, <1>9 DEF LookAt
  <2>2. PICK pc \in {"event", "receipt", "verify"} :
          /\ wf' = [wf EXCEPT ![i].pc = pc, ![i].atMain = Len(main.log), ![i].atD1 = Len(d1.log)]
          /\ Exact(wf[i].arts \cup {a}, wf[i].arts \cup (IF a \in Receipts THEN {a} ELSE {}),
                   wf[i].arts \cup (IF a \in Projected THEN {a} ELSE {}))
          /\ pc = "receipt" => a \in Projected
          /\ pc = "verify" => a \in Receipts
    BY <2>1
  <2>3. kept = wf[i].arts \cup {a} /\ wf[i].arts \subseteq Receipts /\ Receipts \subseteq kept
        /\ (a \in Receipts => a \in Projected)
    <3> HIDE DEF a
    <3>1. QED
      BY <2>2 DEF Exact
  <2> HIDE DEF a
  <2>4. QED
    BY <1>6, <2>2, <2>3 DEF a
<1>10. QED
  BY <1>7, <1>8, <1>9 DEF Look

\* The commit of an artifact goes on.
LEMMA CommitGoes ==
  ASSUME IInv, IInv', FInv, NEW i \in Instances, AtWork(i), wf[i].pc \in Committing, Backs(i),
         UNCHANGED <<kept, verdict, shown>>, Receipts \subseteq Receipts', Receipts' \subseteq kept,
         NEW pc \in {"receipt", "verify"}, Goto(i, pc),
         Art(i, wf[i].step) \in Projected', pc = "verify" => Art(i, wf[i].step) \in Receipts'
  PROVE  FInv'
<1>1. Knows(i, wf[i]) /\ wf \in [Instances -> Position] /\ pc \in Pcs /\ wf[i].run = "live"
  BY DEF FInv, IInv, InstancesOK, Pcs, CommitPcs, AtWork
<1>2. PICK x : /\ Moves(i, x) /\ x.run = wf[i].run /\ x.step = wf[i].step /\ x.pc = pc
               /\ x.result = wf[i].result /\ x.arts = wf[i].arts
  BY <1>1, GotoIs
<1>3. PICK s, arts : s = wf[i].step /\ arts = wf[i].arts
  OBVIOUS
<1>4. x.step = s /\ x.arts = arts /\ Art(i, s)' = Art(i, s)
  BY <1>2, <1>3 DEF Art
<1>5. /\ kept' = arts \cup {Art(i, s)'} /\ arts \subseteq Receipts' /\ Receipts' \subseteq kept'
      /\ Art(i, s)' \in Projected' /\ (pc = "verify" => Art(i, s)' \in Receipts')
  BY <1>1, <1>3, <1>4 DEF Knows
<1>6. RevisionRequested' => s \in Revision \cup {"dispatch", "frozen"}
  BY <1>1, <1>3 DEF Knows, Backs
<1>7. s = "frozen" => Passed(arts)'
  <2>1. ASSUME s = "frozen" PROVE (RevisionRequested' <=> RevisionRequested) /\ Passed(arts)
    BY <1>1, <1>3, <2>1 DEF Knows, Backs
  <2>2. QED
    BY <2>1 DEF Passed
<1>8. /\ s \in {"reviewing2", "askReview2", "review2"} => "draft2" \in arts
      /\ shown' => s = "frozen"
  BY <1>1, <1>3 DEF Knows, Committing
<1>9. Knows(i, x)'
  BY <1>2, <1>4, <1>5, <1>6, <1>7, <1>8 DEF Knows
<1>10. QED
  BY <1>1, <1>2, <1>9, FrozenStep

LEMMA CommitD1Backs ==
  ASSUME IInv, IInv', FInv, NEW i \in Instances, CommitD1(i) PROVE FInv'
<1>1. PICK s : s = wf[i].step
  OBVIOUS
<1>2. /\ At(i, "event") /\ s \in StepNames /\ s \in CommitSteps /\ wf[i].run = "live" /\ wf[i].atD1 \in Nat
      /\ AtWork(i) /\ wf[i].pc = "event"
  BY <1>1, Here, Early DEF CommitD1, Placed, CommitPcs, HoldPcs, FailPcs, AtWork
<1>3. UNCHANGED <<main, calls, asks, kept, verdict, shown>>
  BY DEF CommitD1, ledgers
<1> DEFINE key == <<"artifact", Art(i, s)>>
<1>4. key \in LogKeys /\ key # <<"app", "resume">> /\ Blocked(s) # NonRetryable /\ Art(i, s) \in Artifacts
  BY <1>2, KeysAre, ArtIs DEF NonRetryable, Blocked
<1>5. Project(i, D1Target(s), key, s \in InRevision, Blocked(s), wf[i].atD1, "receipt")
  BY <1>1 DEF CommitD1
<1>6. d1' = d1 \/ d1' = Moved(d1, D1Target(s), key, Blocked(s))
  BY <1>5 DEF Project
<1>7. /\ (Goto(i, "receipt") /\ Has(d1'.log, key)) \/ Retry(i)
      /\ RevisionRequested => RevisionRequested'
  <2> HIDE DEF key
  <2>1. QED
    BY <1>2, <1>3, <1>4, <1>5, ProjectWrites
<1>8. /\ Receipts' = Receipts /\ Projected \subseteq Projected'
      /\ \A a \in Projected' : a \in Projected \/ key = <<"artifact", a>>
      /\ (RevisionRequested' <=> RevisionRequested) => ResumeOK'
  <2> HIDE DEF key
  <2>1. QED
    BY <1>3, <1>4, <1>6, D1Adds
<1>9. RevisionRequested' => RevisionRequested \/ s = "dispatch"
  <2>1. Art(i, s) = "dispatch" => s = "dispatch"
    BY <1>2 DEF Art, CommitSteps, Instances
  <2>2. QED
    BY <1>8, <2>1 DEF RevisionRequested
<1>10. shown => s = "frozen" /\ (RevisionRequested' <=> RevisionRequested)
  BY <1>1, <1>2, <1>7, <1>9, Later
<1>11. FrozenIsBacked'
  BY <1>3, <1>8, <1>10 DEF FInv, FrozenIsBacked
<1>12. ResumeOK'
  <2>1. CASE d1' = d1
    BY <1>3, <2>1 DEF FInv, ResumeOK, RevisionRequested, Projected, Has
  <2>2. CASE d1' = Moved(d1, D1Target(s), key, Blocked(s))
    <3>1. d1.log \in Seq(LogKeys) /\ d1'.log = Append(d1.log, key)
      BY <2>2 DEF Moved, IInv, FailureOK
    <3>2. EndOf(d1'.log) = key
      BY <1>4, <3>1, EventAdds
    <3>3. QED
      BY <1>4, <3>2 DEF ResumeOK
  <2>3. QED
    BY <1>6, <2>1, <2>2
<1>13. Backs(i)
  BY <1>1, <1>2, <1>3, <1>7, <1>9, <1>11, <1>12 DEF Backs
<1>14. CASE Goto(i, "receipt") /\ Has(d1'.log, key)
  <2>1. Receipts \subseteq kept
    BY <1>2 DEF FInv, Knows, Committing
  <2>2. Art(i, wf[i].step) \in Projected'
    BY <1>1, <1>4, <1>14 DEF Projected
  <2>3. wf[i].pc \in Committing
    BY <1>2 DEF Committing
  <2>4. QED
    BY <1>2, <1>3, <1>8, <1>13, <1>14, <2>1, <2>2, <2>3, CommitGoes
<1>15. CASE Retry(i)
  BY <1>2, <1>13, <1>15, FrozenRetry
<1>16. QED
  BY <1>7, <1>14, <1>15

\* The receipt that was missing is written, or there already.
LEMMA ReceiptWrites ==
  ASSUME IInv, NEW i \in Instances, NEW key \in LogKeys, NEW target, NEW code, NEW rev \in Nat,
         Record("receipt", i, target, key, code, rev, Goto(i, "verify"))
  PROVE  /\ main' = main \/ main' = Moved(main, target, key, code)
         /\ (Goto(i, "verify") /\ Has(main'.log, key)) \/ Retry(i)
<1>1. main.log \in Seq(LogKeys)
  BY DEF IInv, FailureOK
<1>2. CASE MainReplays(target, key, rev) /\ Goto(i, "verify") /\ UNCHANGED main
  <2>1. rev + 1 \in DOMAIN main.log /\ main.log[rev + 1] = key
    BY <1>1, <1>2 DEF MainReplays
  <2>2. QED
    BY <1>2, <2>1 DEF Has
<1>3. ASSUME NEW o \in Outcomes \cup {"refused"}, RecordOutcome("receipt", target, key, code, rev, o),
             IF o = "done" THEN Goto(i, "verify") ELSE Retry(i)
      PROVE  /\ main' = main \/ main' = Moved(main, target, key, code)
             /\ (Goto(i, "verify") /\ Has(main'.log, key)) \/ Retry(i)
  <2>1. main' = main \/ main' = Moved(main, target, key, code)
    BY <1>3 DEF RecordOutcome
  <2>2. CASE o = "done"
    <3>1. main'.log = Append(main.log, key)
      BY <1>3, <2>2 DEF RecordOutcome, Moved
    <3>2. Has(main'.log, key)
      BY <1>1, <3>1, LogGrows
    <3>3. QED
      BY <1>3, <2>1, <2>2, <3>2
  <2>3. QED
    BY <1>3, <2>1, <2>2
<1>4. QED
  BY <1>2, <1>3 DEF Record

LEMMA CommitReceiptBacks ==
  ASSUME IInv, IInv', FInv, NEW i \in Instances, CommitReceipt(i) PROVE FInv'
<1>1. PICK s : s = wf[i].step
  OBVIOUS
<1>2. /\ At(i, "receipt") /\ s \in StepNames /\ s \in CommitSteps /\ wf[i].run = "live" /\ wf[i].atMain \in Nat
      /\ AtWork(i) /\ wf[i].pc = "receipt"
  BY <1>1, Here, Early DEF CommitReceipt, Placed, CommitPcs, HoldPcs, FailPcs, AtWork
<1>3. UNCHANGED <<d1, calls, kept, verdict, shown>>
  BY DEF CommitReceipt, ledgers
<1> DEFINE key == <<"artifact", Art(i, s)>>
<1>4. key \in LogKeys /\ Art(i, s) \in Artifacts
  BY <1>2, KeysAre, ArtIs
<1>5. Record("receipt", i, MainTarget(s), key, Blocked(s), wf[i].atMain, Goto(i, "verify"))
  BY <1>1 DEF CommitReceipt
<1>6. /\ main' = main \/ main' = Moved(main, MainTarget(s), key, Blocked(s))
      /\ (Goto(i, "verify") /\ Has(main'.log, key)) \/ Retry(i)
  <2> HIDE DEF key
  <2>1. QED
    BY <1>2, <1>4, <1>5, ReceiptWrites
<1>7. /\ Projected' = Projected /\ (RevisionRequested' <=> RevisionRequested) /\ Receipts \subseteq Receipts'
      /\ \A a \in Receipts' : a \in Receipts \/ key = <<"artifact", a>>
      /\ ResumeOK'
  <2> HIDE DEF key
  <2>1. QED
    BY <1>3, <1>4, <1>6, MainAdds
<1>8. /\ kept = wf[i].arts \cup {Art(i, s)} /\ Receipts \subseteq kept /\ Art(i, s) \in Projected
  BY <1>1, <1>2 DEF FInv, Knows, Committing
<1>9. Receipts' \subseteq kept
  BY <1>7, <1>8
<1>10. FrozenIsBacked'
  BY <1>3, <1>7, <1>9 DEF FInv, FrozenIsBacked
<1>11. Backs(i)
  BY <1>2, <1>3, <1>7, <1>10 DEF Backs
<1>12. CASE Goto(i, "verify") /\ Has(main'.log, key)
  <2>1. Art(i, wf[i].step) \in Receipts' /\ Art(i, wf[i].step) \in Projected'
    BY <1>1, <1>4, <1>7, <1>8, <1>12 DEF Receipts
  <2>2. wf[i].pc \in Committing
    BY <1>2 DEF Committing
  <2>3. QED
    BY <1>2, <1>3, <1>7, <1>9, <1>11, <1>12, <2>1, <2>2, CommitGoes
<1>13. CASE Retry(i)
  BY <1>2, <1>11, <1>13, FrozenRetry
<1>14. QED
  BY <1>6, <1>12, <1>13

\* The recording gets the article only of a set that was verified.
LEMMA VerifyBacks ==
  ASSUME IInv, IInv', FInv, NEW i \in Instances, Verify(i) PROVE FInv'
<1>1. PICK s : s = wf[i].step
  OBVIOUS
<1>2. /\ At(i, "verify") /\ s \in StepNames /\ s \in CommitSteps /\ wf[i].run = "live" /\ wf[i].d1 + 1 \in Nat
      /\ AtWork(i) /\ wf[i].pc = "verify" /\ Len(main.log) \in Nat
  BY <1>1, Here, Early DEF Verify, Placed, CommitPcs, HoldPcs, FailPcs, AtWork, IInv, FailureOK
<1>3. UNCHANGED <<d1, main, calls, kept, verdict>> /\ (shown' => shown \/ s = "frozen")
  <2>1. shown' = shown \/ shown' = (shown \/ s = "frozen")
    BY <1>1, Zenon DEF Verify
  <2>2. shown' => shown \/ s = "frozen"
    BY <2>1, Zenon
  <2>3. QED
    BY <2>2 DEF Verify
<1>4. shown => s = "frozen"
  BY <1>1, <1>2, Later
<1>5. Receipts' = Receipts /\ Projected' = Projected /\ (RevisionRequested' <=> RevisionRequested)
  BY <1>3 DEF Receipts, Projected, RevisionRequested, Has
<1>6. Knows(i, wf[i])
  BY <1>2 DEF FInv
<1>7. FrozenIsBacked'
  <2>1. ASSUME s = "frozen"
        PROVE  /\ "frozen" \in Receipts /\ "frozen" \in Projected /\ Receipts = kept
               /\ Passed(Receipts)
    <3>1. Art(i, s) = "frozen"
      BY <2>1 DEF Art
    <3>2. /\ kept = wf[i].arts \cup {"frozen"} /\ wf[i].arts \subseteq Receipts /\ Receipts \subseteq kept
          /\ "frozen" \in Receipts /\ "frozen" \in Projected /\ Passed(wf[i].arts)
      BY <1>1, <1>2, <1>6, <2>1, <3>1 DEF Knows, Committing
    <3>3. QED
      BY <3>2 DEF Passed
  <2>2. QED
    BY <1>3, <1>4, <1>5, <2>1 DEF FrozenIsBacked, Passed
<1>8. Backs(i)
  BY <1>1, <1>2, <1>3, <1>5, <1>7 DEF Backs, FInv, ResumeOK
<1>9. "settle" \in Pcs \ Committing
  BY DEF Pcs, SettlePcs, Committing
<1>10. Goto(i, "settle") \/ Done(i, Len(main.log), wf[i].d1 + 1) \/ Retry(i)
  BY DEF Verify
<1>11. CASE Goto(i, "settle")
  BY <1>1, <1>2, <1>4, <1>8, <1>9, <1>11, FrozenGoto
<1>12. CASE Done(i, Len(main.log), wf[i].d1 + 1)
  BY <1>1, <1>2, <1>3, <1>4, <1>5, <1>8, <1>12, FrozenDone
<1>13. CASE Retry(i)
  BY <1>2, <1>8, <1>13, FrozenRetry
<1>14. QED
  BY <1>10, <1>11, <1>12, <1>13

\* A step at a call, before the article is shown.
LEMMA CallBacks ==
  ASSUME IInv, FInv, NEW i \in Instances, AtWork(i), ~ shown, UNCHANGED <<d1, main, shown>>,
         verdict' = verdict \/ wf[i].step \in {"askReview", "askReview2"}
  PROVE  Backs(i) /\ (RevisionRequested' <=> RevisionRequested)
<1>1. RevisionRequested' <=> RevisionRequested
  BY DEF RevisionRequested, Projected, Has
<1>2. ResumeOK' /\ FrozenIsBacked'
  BY <1>1 DEF FInv, ResumeOK, FrozenIsBacked
<1>3. QED
  BY <1>1, <1>2 DEF Backs

\* A recovery that finds the article shown does not ask for a draft.
LEMMA AskBacks ==
  ASSUME IInv, IInv', FInv, NEW i \in Instances, Ask(i) PROVE FInv'
<1>1. PICK s : s = wf[i].step
  OBVIOUS
<1>2. /\ At(i, "ask") /\ s \in StepNames /\ s \in CallSteps /\ wf[i].run = "live" /\ wf[i].pc = "ask"
      /\ wf[i].main \in Nat /\ wf[i].d1 \in Nat /\ (i = "first" /\ GivenUp => s = "askDraft")
  BY <1>1, Here DEF Ask, Placed, CallPcs, Relies
<1>3. UNCHANGED <<d1, main, kept, verdict, shown>>
  BY DEF Ask
<1>4. "hold" \in Pcs \ Committing /\ "send" \in Pcs \ Committing /\ "fail" \in Pcs \ Committing
  BY DEF Pcs, HoldPcs, CallPcs, FailPcs, Committing
<1>5. ASSUME UNCHANGED calls, Goto(i, "hold") PROVE FInv'
  <2>1. Backs(i)
    BY <1>3, <1>5, Silent
  <2>2. shown /\ AtWork(i) => wf[i].step = "askDraft"
    BY <1>1, <1>2 DEF FInv, Knows, CallSteps
  <2>3. QED
    BY <1>2, <1>4, <1>5, <2>1, <2>2, FrozenGoto
<1>6. ~ AtWork(i) => LastCall(Art(i, s)) = "failed"
  BY <1>2 DEF AtWork, Art, GivenUp
<1>7. ASSUME MayRecover(i), AtWork(i) PROVE ~ shown
  <2>1. ASSUME shown PROVE FALSE
    <3>1. i = "recovery" /\ wf[i].step = "askDraft"
      BY <1>1, <1>2, <1>7, <2>1 DEF FInv, Knows, CallSteps
    <3>2. kept = {"brief"}
      BY <1>7, <3>1 DEF MayRecover, Exact
    <3>3. "frozen" \in kept
      BY <2>1 DEF FInv, FrozenIsBacked
    <3>4. QED
      BY <3>2, <3>3
  <2>2. QED
    BY <2>1
<1>8. ASSUME MayRecover(i), MayOpen(Art(i, s)), Goto(i, "send") \/ Retry(i) PROVE FInv'
  <2>1. AtWork(i)
    BY <1>6, <1>8 DEF MayOpen
  <2>2. ~ shown
    BY <1>7, <1>8, <2>1
  <2>3. Backs(i)
    BY <1>3, <2>1, <2>2, CallBacks
  <2>4. QED
    BY <1>2, <1>4, <1>8, <2>2, <2>3, FrozenGoto, FrozenRetry
<1>9. ASSUME MayRecover(i), UNCHANGED calls,
             CASE LastCall(Art(i, s)) \in {"open", "unknown"} -> Goto(i, "hold")
               [] LastCall(Art(i, s)) = "succeeded" -> Done(i, wf[i].main, wf[i].d1)
               [] OTHER -> Goto(i, "fail")
      PROVE  FInv'
  <2>1. Backs(i) /\ (RevisionRequested' <=> RevisionRequested)
    BY <1>3, <1>9, Silent
  <2>2. CASE LastCall(Art(i, s)) = "succeeded" /\ Done(i, wf[i].main, wf[i].d1)
    <3>1. AtWork(i) /\ ~ shown
      BY <1>6, <1>7, <1>9, <2>2
    <3>2. QED
      BY <1>2, <1>3, <2>1, <2>2, <3>1, FrozenDone
  <2>3. CASE Goto(i, "fail")
    <3>1. ~ (shown /\ AtWork(i))
      BY <1>7, <1>9
    <3>2. QED
      BY <1>2, <1>4, <2>1, <2>3, <3>1, FrozenGoto
  <2>4. QED
    BY <1>5, <1>9, <2>2, <2>3
<1>10. QED
  BY <1>1, <1>5, <1>8, <1>9 DEF Ask

LEMMA SendBacks ==
  ASSUME IInv, IInv', FInv, NEW i \in Instances, Send(i) PROVE FInv'
<1>1. PICK s : s = wf[i].step
  OBVIOUS
<1>2. /\ At(i, "send") /\ s \in StepNames /\ s \in CallSteps /\ wf[i].run = "live" /\ AtWork(i)
  BY <1>1, Here, Early DEF Send, Placed, CallPcs, HoldPcs, FailPcs, AtWork
<1>3. ~ shown
  BY <1>1, <1>2, Later DEF CallSteps
<1>4. UNCHANGED <<d1, main, kept, calls, shown>>
  BY DEF Send
<1>5. verdict' = verdict \/ s \in {"askReview", "askReview2"}
  <2>1. verdict' = verdict \/ Art(i, s) \in {"review", "review2"}
    BY <1>1 DEF Send
  <2>2. Art(i, s) \in {"review", "review2"} => s \in {"askReview", "askReview2"}
    BY <1>2 DEF Art, CallSteps, Instances
  <2>3. QED
    BY <2>1, <2>2
<1>6. Backs(i)
  BY <1>1, <1>2, <1>3, <1>4, <1>5, CallBacks
<1>7. Goto(i, "keep") \/ (\E r \in Closings : Close(i, r)) \/ Retry(i)
  BY DEF Send, Closings
<1>8. "keep" \in Pcs \ Committing
  BY DEF Pcs, CallPcs, Committing
<1>9. QED
  BY <1>2, <1>3, <1>6, <1>7, <1>8, FrozenGoto, FrozenClose, FrozenRetry

LEMMA KeepBacks ==
  ASSUME IInv, IInv', FInv, NEW i \in Instances, Keep(i) PROVE FInv'
<1>1. PICK s : s = wf[i].step
  OBVIOUS
<1>2. /\ At(i, "keep") /\ s \in StepNames /\ s \in CallSteps /\ wf[i].run = "live" /\ AtWork(i)
      /\ wf[i].main \in Nat /\ wf[i].d1 \in Nat
  BY <1>1, Here, Early DEF Keep, Placed, CallPcs, HoldPcs, FailPcs, AtWork
<1>3. ~ shown
  BY <1>1, <1>2, Later DEF CallSteps
<1>4. UNCHANGED <<d1, main, calls, verdict, shown>>
  BY DEF Keep
<1>5. Backs(i) /\ (RevisionRequested' <=> RevisionRequested)
  BY <1>2, <1>3, <1>4, CallBacks
<1>6. Done(i, wf[i].main, wf[i].d1) \/ (\E r \in Closings : Close(i, r)) \/ Retry(i)
  BY DEF Keep, Closings
<1>7. QED
  BY <1>2, <1>3, <1>4, <1>5, <1>6, FrozenDone, FrozenClose, FrozenRetry

LEMMA CloseCallBacks ==
  ASSUME IInv, IInv', FInv, NEW i \in Instances, CloseCall(i) PROVE FInv'
<1>1. /\ At(i, "close") /\ wf[i].step \in CallSteps /\ wf[i].run = "live" /\ AtWork(i)
  BY Here, Early DEF CloseCall, Placed, CallPcs, HoldPcs, FailPcs, AtWork
<1>2. ~ shown
  BY <1>1, Later DEF CallSteps
<1>3. UNCHANGED <<d1, main, kept, verdict, shown>>
  BY DEF CloseCall
<1>4. Backs(i)
  BY <1>1, <1>2, <1>3, CallBacks
<1>5. PICK o \in Outcomes :
        CASE o # "done" \/ wf[i].result = "broken" -> Retry(i)
          [] o = "done" /\ wf[i].result = "unknown" -> Goto(i, "hold")
          [] o = "done" /\ wf[i].result = "retryable" /\ Len(calls[Art(i, wf[i].step)]) < 3 -> Goto(i, "ask")
          [] OTHER -> Goto(i, "fail")
  BY DEF CloseCall
<1>6. Retry(i) \/ \E pc \in {"hold", "ask", "fail"} : Goto(i, pc)
  BY <1>5
<1>7. {"hold", "ask", "fail"} \subseteq Pcs \ Committing
  BY DEF Pcs, HoldPcs, CallPcs, FailPcs, Committing
<1>8. QED
  BY <1>1, <1>2, <1>4, <1>6, <1>7, FrozenGoto, FrozenRetry

LEMMA SettleBacks ==
  ASSUME IInv, IInv', FInv, NEW i \in Instances, SettleCall(i) \/ CloseHeld(i) PROVE FInv'
<1>1. PICK pc \in SettlePcs : At(i, pc)
  BY DEF SettleCall, CloseHeld, SettlePcs
<1>2. /\ wf[i].step \in CalledSteps /\ wf[i].run = "live" /\ AtWork(i) /\ Len(main.log) \in Nat /\ Len(d1.log) \in Nat
  <2>1. wf[i].pc = pc /\ wf[i].run = "live" /\ Placed(wf[i]) /\ ~ (i = "first" /\ GivenUp)
    BY <1>1, Here, Early DEF SettlePcs, HoldPcs, FailPcs
  <2>2. Len(main.log) \in Nat /\ Len(d1.log) \in Nat
    BY DEF IInv, FailureOK
  <2>3. QED
    BY <2>1, <2>2 DEF Placed, AtWork
<1>3. ~ shown
  BY <1>1, <1>2, Later DEF CalledSteps, SettlePcs
<1>4. UNCHANGED <<d1, main, kept, verdict, shown>>
  BY DEF SettleCall, CloseHeld
<1>5. Backs(i) /\ (RevisionRequested' <=> RevisionRequested)
  BY <1>2, <1>3, <1>4, CallBacks
<1>6. Done(i, Len(main.log), Len(d1.log)) \/ Goto(i, "hold") \/ Retry(i)
  BY DEF SettleCall, CloseHeld
<1>7. "hold" \in Pcs \ Committing
  BY DEF Pcs, HoldPcs, Committing
<1>8. QED
  BY <1>2, <1>3, <1>4, <1>5, <1>6, <1>7, FrozenDone, FrozenGoto, FrozenRetry

LEMMA EngineRestartBacks ==
  ASSUME IInv, IInv', FInv, NEW i \in Instances, EngineRestart(i) PROVE FInv'
<1>1. /\ wf \in [Instances -> Position] /\ wf[i] \in Position /\ wf[i].run = "live" /\ Placed(wf[i])
  BY DEF EngineRestart, IInv, InstancesOK
<1>2. Backs(i)
  <2>1. UNCHANGED <<d1, main, kept, verdict, shown, calls>>
    BY DEF EngineRestart, ledgers
  <2>2. QED
    BY <2>1, Silent
<1> DEFINE x == [wf[i] EXCEPT !.run = "errored", !.result = "restarted"]
<1>3. wf' = [wf EXCEPT ![i] = x]
  BY <1>1 DEF EngineRestart
<1>4. x \in Position /\ x.run = "errored" /\ x.step = wf[i].step /\ x.pc = wf[i].pc
  BY <1>1 DEF Position
<1> HIDE DEF x
<1>5. \E y : Over(i, y)
  BY <1>1, <1>3, <1>4 DEF Over, Moves, Placed
<1>6. QED
  BY <1>1, <1>2, <1>5, FrozenOver

-----------------------------------------------------------------------------
(* The App and the recovery.                                               *)

\* No instance moves and no artifact is recorded.
LEMMA Unmoved ==
  ASSUME IInv, FInv, UNCHANGED <<wf, calls, kept, verdict, shown>>, Receipts' = Receipts, Projected' = Projected,
         ResumeOK'
  PROVE  FInv'
<1>1. RevisionRequested' <=> RevisionRequested
  BY DEF RevisionRequested
<1>2. FrozenIsBacked'
  BY <1>1 DEF FInv, FrozenIsBacked
<1>3. ASSUME NEW j \in Instances PROVE (AtWork(j) => Knows(j, wf[j]))'
  <2>1. PICK k : k = wf[j]
    OBVIOUS
  <2>2. (wf[j] = k)' /\ (AtWork(j)' => AtWork(j))
    BY <2>1 DEF AtWork, GivenUp, LastCall
  <2>3. AtWork(j) => Knows(j, k)
    BY <2>1 DEF FInv
  <2>4. Art(j, k.step)' = Art(j, k.step) /\ Passed(k.arts)' = Passed(k.arts)
    BY <1>1 DEF Art, Passed
  <2>5. Knows(j, k) => Knows(j, k)'
    BY <1>1, <2>4 DEF Knows
  <2>6. QED
    BY <2>2, <2>3, <2>5
<1>4. QED
  BY <1>2, <1>3 DEF FInv

\* The App resumes only a run whose article was not sent back.
LEMMA AppBacks ==
  ASSUME IInv, FInv, Cancel \/ RetryRun \/ ResumeRun PROVE FInv'
<1>1. PICK action \in {"cancel", "retry", "resume"} : \E target, code :
        /\ d1' = Moved(d1, target, <<"app", action>>, code)
        /\ action = "resume" => ~ RevisionRequested
  BY DEF Cancel, RetryRun, ResumeRun, App
<1>2. PICK target, code : d1' = Moved(d1, target, <<"app", action>>, code)
  BY <1>1
<1>3. UNCHANGED <<main, wf, calls, kept, verdict, shown>>
  BY DEF Cancel, RetryRun, ResumeRun, ledgers
<1>4. <<"app", action>> \in LogKeys /\ (\A a : <<"app", action>> # <<"artifact", a>>) /\ d1.log \in Seq(LogKeys)
      /\ (<<"app", action>> = <<"app", "resume">> => action = "resume")
  BY DEF LogKeys, IInv, FailureOK
<1>5. Receipts' = Receipts /\ Projected' = Projected
  BY <1>2, <1>3, <1>4, D1Adds
<1>6. ResumeOK'
  <2>1. d1'.log = Append(d1.log, <<"app", action>>)
    BY <1>2 DEF Moved
  <2>2. EndOf(d1'.log) = <<"app", action>>
    BY <1>4, <2>1, EventAdds
  <2>3. QED
    BY <1>1, <1>4, <1>5, <2>2 DEF ResumeOK, RevisionRequested
<1>7. QED
  BY <1>3, <1>5, <1>6, Unmoved

LEMMA StartRecoveryBacks ==
  ASSUME IInv, FInv, StartRecovery PROVE FInv'
<1>1. GivenUp /\ ~ RevisionRequested /\ wf \in [Instances -> Position]
  BY PendingIs DEF StartRecovery, IInv, InstancesOK, RetryPending, FInv, ResumeOK
<1>2. UNCHANGED <<d1, main, calls, asks, kept, verdict, shown>>
  BY DEF StartRecovery, ledgers
<1>3. PICK x : x = [Instance EXCEPT !.run = "live", !.step = "askDraft", !.pc = "resume"]
  OBVIOUS
<1>4. x.step = "askDraft" /\ x.pc = "resume"
  BY <1>3 DEF Instance
<1>5. wf'["recovery"] = x
  BY <1>1, <1>3 DEF StartRecovery, Instances
<1>6. ~ RevisionRequested' /\ GivenUp' /\ FrozenIsBacked' /\ ResumeOK'
  BY <1>1, <1>2 DEF RevisionRequested, Projected, Receipts, Has, GivenUp, LastCall, FInv, FrozenIsBacked, ResumeOK
<1>7. Knows("recovery", x)'
  BY <1>4, <1>6 DEF Knows, Committing
<1>8. (wf["recovery"] = x)'
  BY <1>5
<1>9. ~ AtWork("first")'
  BY <1>6 DEF AtWork
<1>10. \A j \in Instances : j = "first" \/ j = "recovery"
  BY DEF Instances
<1>11. (\A j \in Instances : AtWork(j) => Knows(j, wf[j]))'
  BY <1>7, <1>8, <1>9, <1>10
<1>12. QED
  BY <1>6, <1>11 DEF FInv

LEMMA ResumeBacks ==
  ASSUME IInv, IInv', FInv, Resume PROVE FInv'
<1>1. /\ "recovery" \in Instances /\ At("recovery", "resume") /\ AtWork("recovery")
  BY DEF Resume, Instances, AtWork, At
<1>2. /\ wf \in [Instances -> Position] /\ wf["recovery"] \in Position /\ wf["recovery"].run = "live"
      /\ wf["recovery"].step = "askDraft" /\ Len(main.log) \in Nat /\ Len(d1.log) \in Nat
  BY <1>1, Here DEF Placed, IInv, FailureOK
<1>3. UNCHANGED <<d1, calls, kept, verdict, shown>>
  BY DEF Resume, ledgers
<1>4. main' = main \/ main' = Moved(main, "writing", <<"app", "retry">>, "none")
  BY DEF Resume
<1>5. Backs("recovery")
  <2>1. PICK key : key = <<"app", "retry">>
    OBVIOUS
  <2>2. key \in LogKeys /\ key[1] # "artifact" /\ key # <<"app", "resume">>
    BY <2>1 DEF LogKeys
  <2>3. main' = main \/ main' = Moved(main, "writing", key, "none")
    BY <1>4, <2>1
  <2>4. QED
    BY <1>1, <1>3, <2>2, <2>3, Notes
<1>6. CASE Error("recovery")
  BY <1>1, <1>2, <1>5, <1>6, FrozenEnds
<1>7. ASSUME NEW m \in Nat, Recovered(m), RetryPending PROVE FInv'
  <2> DEFINE x == [wf["recovery"] EXCEPT !.pc = "ask", !.main = m, !.d1 = Len(d1.log), !.arts = {"brief"}]
  <2>1. wf' = [wf EXCEPT !["recovery"] = x]
    BY <1>7 DEF Recovered
  <2>2. x \in Position /\ x.run = "live" /\ x.step = "askDraft" /\ x.pc = "ask"
    BY <1>2, <1>7 DEF Position, Pcs, CallPcs, Artifacts
  <2> HIDE DEF x
  <2>3. PICK y : Moves("recovery", y) /\ y.run = "live" /\ y.step = "askDraft" /\ y.pc = "ask"
    BY <2>1, <2>2 DEF Moves
  <2>4. ~ RevisionRequested'
    BY <1>3, <1>7 DEF FInv, ResumeOK, RetryPending, RevisionRequested, Projected, Has
  <2>5. Knows("recovery", y)'
    BY <2>3, <2>4 DEF Knows, Committing
  <2>6. QED
    BY <1>1, <1>2, <1>5, <2>3, <2>5, FrozenStep
<1>8. QED
  BY <1>2, <1>6, <1>7 DEF Resume

-----------------------------------------------------------------------------
(* The article.                                                            *)

LEMMA InitFrozen ==
  ASSUME Init, IInv PROVE FInv
<1>1. ~ shown /\ d1.log = <<>> /\ main.log = <<>>
  BY DEF Init
<1>2. Projected = {} /\ ~ RevisionRequested
  BY <1>1 DEF Projected, RevisionRequested, Has
<1>3. EndOf(d1.log) = <<"none", "none">>
  BY <1>1 DEF EndOf
<1>4. ResumeOK /\ FrozenIsBacked
  BY <1>1, <1>2 DEF ResumeOK, FrozenIsBacked
<1>5. ASSUME NEW i \in Instances PROVE Knows(i, wf[i])
  <2>1. wf[i].pc = "d1" /\ wf[i].step = "transcribing"
    BY DEF Init, Instance, Instances
  <2>2. QED
    BY <1>1, <1>2, <2>1 DEF Knows, Committing
<1>6. QED
  BY <1>4, <1>5 DEF FInv

LEMMA StepFrozen ==
  ASSUME IInv, IInv', FInv, [Next]_vars PROVE FInv'
<1>1. ASSUME NEW i \in Instances, Step(i) PROVE FInv'
  BY <1>1, StateD1Backs, StateMainBacks, AskBacks, SendBacks, KeepBacks, CloseCallBacks, StoreBacks, LookBacks,
     CommitD1Backs, CommitReceiptBacks, VerifyBacks, SettleBacks, EndD1Backs, EndMainBacks DEF Step
<1>2. ASSUME NEW i \in Instances, EngineRestart(i) PROVE FInv'
  BY <1>2, EngineRestartBacks
<1>3. CASE Resume
  BY <1>3, ResumeBacks
<1>4. CASE AppNext
  BY <1>4, AppBacks, StartRecoveryBacks DEF AppNext
<1>5. CASE UNCHANGED vars
  <2>1. UNCHANGED <<d1, main, wf, calls, kept, verdict, shown>>
    BY <1>5 DEF vars
  <2>2. Receipts' = Receipts /\ Projected' = Projected
    BY <2>1 DEF Receipts, Projected, Has
  <2>3. ResumeOK'
    BY <2>1, <2>2 DEF FInv, ResumeOK, RevisionRequested
  <2>4. QED
    BY <2>1, <2>2, <2>3, Unmoved
<1>6. QED
  BY <1>1, <1>2, <1>3, <1>4, <1>5 DEF Next

\* The recording carries a frozen article only where both ledgers have it, every
\* artifact kept is receipted and the last review passed, whatever step was
\* repeated, failed or was taken up by a recovery (persistArtifact,
\* verifyExactArtifactSet, completeFiveAgentArtifact).
THEOREM FrozenCorrect == Spec => []FrozenIsBacked
<1>1. Init => IInv /\ FInv
  BY InitInv, InitFrozen
<1>2. (IInv /\ FInv) /\ [Next]_vars => (IInv /\ FInv)'
  BY StepInv, StepFrozen
<1>3. IInv /\ FInv => FrozenIsBacked
  BY DEF FInv
<1>4. QED
  BY <1>1, <1>2, <1>3, PTL DEF Spec
=============================================================================
