---------------------------- MODULE WechatOperation ----------------------------
(***************************************************************************)
(* The publishing adapter's operation object of one article, and WeChat    *)
(* behind it. The Worker sends an attempt of an operation once and asks    *)
(* after it as often as it must; several of its requests may be in the     *)
(* object at a time. To reach WeChat a request needs an access token:      *)
(* fetched in up to three attempts per generation, each announced by an    *)
(* intent, settled by a result in R2 and cached. Storage calls do not let  *)
(* other requests in; fetches and R2 calls do.                             *)
(* wechat-publishing-adapter/src/index.ts.                                 *)
(***************************************************************************)
EXTENDS Integers, FiniteSets

CONSTANTS
  Requests,   \* requests the object may be serving at a time
  Reads,      \* operations that only read: get_draft, find_draft
  Writes,     \* operations with an effect: upload_image, write_draft
  MaxFaults   \* bound: refusals, lost answers, deaths, tokens that end, edits

ASSUME WechatOperationOK ==
  /\ Reads \cap Writes = {} /\ MaxFaults \in Nat

VARIABLES
  sent,       \* attempts <<operation, number>> the Worker has sent
  claims,     \* wechat-claim: the attempts that were begun
  stored,     \* R2: the result of an attempt
  told,       \* answers <<attempt, result>> the Worker got
  generation, \* wechat-token-generation
  intents,    \* wechat-token-intent, by <<generation, attempt>>
  evidence,   \* R2: the result of a token attempt
  cache,      \* wechat-token: the attempt whose token is kept, or NoToken
  asks,       \* how often WeChat was asked in a token attempt
  expired, revoked,  \* tokens that ran out by the clock, or that WeChat dropped
  effects,    \* how often an attempt took effect at WeChat
  draft,      \* what a read finds
  req,        \* the requests
  faults

tokens == <<generation, intents, evidence, cache, asks>>
results == <<sent, claims, stored, told>>
wechatSide == <<expired, revoked, effects, draft>>
operationVars == <<results, tokens, wechatSide, req, faults>>

-----------------------------------------------------------------------------
TryNumbers == 1..3
OperationAttempts == (Reads \cup Writes) \X TryNumbers
NoToken == <<0, 0>>
Retryable == {"failed", "busy"}  \* a 503 or no answer; another retryable status

\* What execute stores: read or written, or the error that is the result.
Found == {"draft", "edited"}
Failures == {"again", "refused", "conflict", "exhausted", "credentials"}

\* What is answered without a result: the account's errors, and a result of
\* another attempt than the one asked for.
AccountErrors == {"deferred", "denied"}
MayRepeat == {"again", "deferred"}

Put(f, k, v) == [key \in DOMAIN f \cup {k} |-> IF key = k THEN v ELSE f[key]]
Count(f, k) == IF k \in DOMAIN f THEN f[k] ELSE 0

NoIntent == [state |-> "none", known |-> "none"]
NoRequest == [pc |-> "idle", op |-> NoToken, at |-> NoToken, forced |-> FALSE, again |-> FALSE,
              seen |-> NoIntent, value |-> "none"]

OperationInit ==
  /\ sent = {} /\ claims = {} /\ stored = [k \in {} |-> "none"] /\ told = {}
  /\ generation = 1 /\ intents = [t \in {} |-> NoIntent] /\ evidence = [t \in {} |-> "none"]
  /\ cache = NoToken /\ asks = [t \in {} |-> 0]
  /\ expired = {} /\ revoked = {} /\ effects = [k \in {} |-> 0] /\ draft = "draft"
  /\ req = [r \in Requests |-> NoRequest] /\ faults = 0

Fault == faults < MaxFaults /\ faults' = faults + 1
MoveTo(r, x) == req' = [req EXCEPT ![r] = x]
\* external_side_effect_unknown is thrown past everything and kept nowhere.
Unknown(r) == MoveTo(r, NoRequest)
Tell(r, v) == told' = told \cup {<<req[r].op, v>>} /\ MoveTo(r, NoRequest)
Save(r, x, v) == MoveTo(r, [NoRequest EXCEPT !.pc = "save", !.op = x.op, !.value = v])
Use(r, x, t) == MoveTo(r, [NoRequest EXCEPT !.pc = "use", !.op = x.op, !.again = x.again, !.at = t])
\* A position of token, at the token attempt t.
Seek(x, pc, t) == [NoRequest EXCEPT !.pc = pc, !.op = x.op, !.forced = x.forced, !.again = x.again, !.at = t]

-----------------------------------------------------------------------------
(* token: ints stands for the intents as this step has left them so far.   *)

Attempt(r, x, t, ints) ==
  IF t \in DOMAIN ints
  THEN /\ MoveTo(r, [Seek(x, "replay", t) EXCEPT !.seen = ints[t]])
       /\ intents' = ints /\ UNCHANGED asks
  ELSE /\ MoveTo(r, Seek(x, "asked", t))
       /\ intents' = Put(ints, t, [state |-> "intent", known |-> "none"])
       /\ asks' = Put(asks, t, Count(asks, t) + 1)

Fresh(t) == t # NoToken /\ t \notin expired
token(r, x, cached, ints) ==
  IF ~ x.forced /\ Fresh(cached)
  THEN Use(r, x, cached) /\ intents' = ints /\ UNCHANGED <<generation, asks>>
  ELSE /\ generation' = IF x.forced THEN generation + 1 ELSE generation
       /\ Attempt(r, x, <<generation', 1>>, ints)

\* A forced refresh is followed by the request again, which takes its token
\* from the cache.
Granted(r, x, ints) ==
  /\ cache' = x.at
  /\ IF x.forced THEN token(r, [x EXCEPT !.forced = FALSE, !.again = TRUE], x.at, ints)
     ELSE Use(r, x, x.at) /\ intents' = ints /\ UNCHANGED <<generation, asks>>

TokenSettled(r, x, v, ints) ==
  IF v = "token" THEN Granted(r, x, ints)
  ELSE /\ UNCHANGED <<generation, cache>>
       /\ IF v \in Retryable /\ x.at[2] < 3 THEN Attempt(r, x, <<x.at[1], x.at[2] + 1>>, ints)
          ELSE /\ Save(r, x, IF v \in Retryable THEN "exhausted" ELSE "credentials")
               /\ intents' = ints /\ UNCHANGED asks

\* An intent is met. Its result counts, whoever got it; without one it is
\* either young, and its owner may be at work, or it is given up as failed.
Replay(r) ==
  LET x == req[r]
      t == x.at
      v == evidence[t]
  IN
  /\ x.pc = "replay"
  /\ IF t \notin DOMAIN evidence
     THEN /\ \/ Unknown(r)
             \/ x.seen.state = "intent" /\ MoveTo(r, [Seek(x, "keep", t) EXCEPT !.value = "failed"])
          /\ UNCHANGED tokens
     ELSE /\ IF x.seen.known \notin {"none", v} THEN Unknown(r) /\ UNCHANGED <<generation, intents, cache, asks>>
             ELSE TokenSettled(r, x, v, IF x.seen.known = v THEN intents ELSE Put(intents, t, [x.seen EXCEPT !.known = v]))
          /\ UNCHANGED evidence
  /\ UNCHANGED <<results, wechatSide, faults>>

\* WeChat answers the request for a token, or it or the way to it fails.
TokenAnswered(r) ==
  /\ req[r].pc = "asked"
  /\ \/ MoveTo(r, [req[r] EXCEPT !.pc = "keep", !.value = "token"]) /\ UNCHANGED faults
     \/ Fault /\ \E v \in Retryable \cup {"rejected"} : MoveTo(r, [req[r] EXCEPT !.pc = "keep", !.value = v])
  /\ UNCHANGED <<results, tokens, wechatSide>>

KeptToken(r, v) ==
  TokenSettled(r, req[r], v,
    Put(intents, req[r].at, [state |-> IF v = "token" THEN "completed" ELSE "failed", known |-> v]))

\* Seeded fault: results are put without looking and without onlyIf.
NothingThere(f, k) == FALSE
Exists(f, k) == k \in DOMAIN f

\* writeTokenAttemptResult: look first, then put where nothing is, then look.
LookForToken(r) ==
  LET x == req[r] IN
  /\ x.pc = "keep"
  /\ IF ~ Exists(evidence, x.at) THEN MoveTo(r, [x EXCEPT !.pc = "put"]) /\ UNCHANGED tokens
     ELSE /\ IF evidence[x.at] = x.value THEN KeptToken(r, x.value)
             ELSE Save(r, x, "conflict") /\ UNCHANGED <<generation, intents, cache, asks>>
          /\ UNCHANGED evidence
  /\ UNCHANGED <<results, wechatSide, faults>>

PutToken(r) ==
  LET x == req[r]
      there == Exists(evidence, x.at)
  IN
  /\ x.pc = "put"
  /\ \/ ~ there /\ evidence' = Put(evidence, x.at, x.value) /\ KeptToken(r, x.value) /\ UNCHANGED faults
     \/ ~ there /\ Fault /\ Unknown(r) /\ evidence' \in {evidence, Put(evidence, x.at, x.value)}
        /\ UNCHANGED <<generation, intents, cache, asks>>
     \/ there /\ UNCHANGED <<evidence, faults>>
        /\ IF evidence[x.at] = x.value THEN KeptToken(r, x.value)
           ELSE Unknown(r) /\ UNCHANGED <<generation, intents, cache, asks>>
  /\ UNCHANGED <<results, wechatSide>>

-----------------------------------------------------------------------------
(* execute *)

Begin(r, k) == token(r, [NoRequest EXCEPT !.op = k], cache, intents) /\ UNCHANGED <<evidence, cache>>

\* loadAccount comes before the claim; when it fails, nothing is kept, and the
\* Worker is told that it may try again, or not, or hears nothing.
NoAccount(k) == Fault /\ told' \in {told} \cup {told \cup {<<k, v>>} : v \in AccountErrors}

\* callWechatOperation sends the first attempt, and the next one after an
\* answer that allows it. An attempt is begun when those before it failed and
\* may be repeated; the result of an earlier one is no answer the Worker takes.
Failed(k) == k \in claims /\ k \in DOMAIN stored /\ stored[k] = "again"
Made(k) == k \in claims /\ k \in DOMAIN stored /\ stored[k] \in Found \cup {"made"}
Earlier(k) == {<<k[1], n>> : n \in 1..(k[2] - 1)}

Send(r, k) ==
  /\ req[r].pc = "idle" /\ k \notin sent
  /\ k[2] > 1 => \E v \in MayRepeat : <<<<k[1], k[2] - 1>>, v>> \in told
  /\ sent' = sent \cup {k}
  /\ \/ NoAccount(k) /\ UNCHANGED <<claims, tokens, req>>
     \/ \E e \in Earlier(k) :
          /\ ~ Failed(e) /\ \A d \in Earlier(e) : Failed(d)
          /\ told' = IF Made(e) THEN told \cup {<<k, "invalid">>} ELSE told
          /\ UNCHANGED <<claims, tokens, req, faults>>
     \/ (\A e \in Earlier(k) : Failed(e)) /\ claims' = claims \cup {k} /\ Begin(r, k) /\ UNCHANGED <<told, faults>>
  /\ UNCHANGED <<stored, wechatSide>>

\* Asked again, an attempt that was begun is looked up; a read that has no
\* result is done over.
Ask(r, k) ==
  /\ req[r].pc = "idle" /\ k \in sent
  /\ \/ NoAccount(k) /\ UNCHANGED req
     \/ k \in claims /\ MoveTo(r, [NoRequest EXCEPT !.pc = "look", !.op = k]) /\ UNCHANGED <<told, faults>>
  /\ UNCHANGED <<sent, claims, stored, tokens, wechatSide>>

\* Seeded fault: what has no result is done over, whatever it is.
ReplaysAll(k) == TRUE
Replays(k) == k[1] \in Reads
Look(r) ==
  LET k == req[r].op IN
  /\ req[r].pc = "look"
  /\ \/ k \in DOMAIN stored /\ Tell(r, stored[k]) /\ UNCHANGED tokens
     \/ k \notin DOMAIN stored /\ UNCHANGED told
        /\ IF Replays(k) THEN Begin(r, k) ELSE Unknown(r) /\ UNCHANGED tokens
  /\ UNCHANGED <<sent, claims, stored, wechatSide, faults>>

Happens(k) == effects' = IF k[1] \in Writes THEN Put(effects, k, Count(effects, k) + 1) ELSE effects

\* wechatRequest. A token WeChat no longer takes is refreshed once. A read that
\* broke off may be repeated; a write may be only when it is proven not to
\* have arrived.
Provider(r) ==
  LET x == req[r] IN
  /\ x.pc = "use"
  /\ \/ /\ x.at \notin expired \cup revoked
        /\ UNCHANGED tokens
        /\ \/ Happens(x.op) /\ Save(r, x, IF x.op[1] \in Reads THEN draft ELSE "made") /\ UNCHANGED faults
           \/ Fault /\ UNCHANGED effects /\ \E v \in {"again", "refused"} : Save(r, x, v)
           \/ Fault /\ Unknown(r) /\ (Happens(x.op) \/ UNCHANGED effects)
     \/ /\ x.at \in expired \cup revoked /\ UNCHANGED <<effects, faults>>
        /\ IF x.again THEN Save(r, x, "credentials") /\ UNCHANGED tokens
           ELSE token(r, [x EXCEPT !.forced = TRUE], cache, intents) /\ UNCHANGED <<evidence, cache>>
  /\ UNCHANGED <<results, expired, revoked, draft>>

\* writeResult, in the same three steps.
LookForResult(r) ==
  LET x == req[r] IN
  /\ x.pc = "save"
  /\ IF ~ Exists(stored, x.op) THEN MoveTo(r, [x EXCEPT !.pc = "store"]) /\ UNCHANGED told
     ELSE Tell(r, IF stored[x.op] = x.value THEN x.value ELSE "conflict")
  /\ UNCHANGED <<sent, claims, stored, tokens, wechatSide, faults>>

StoreResult(r) ==
  LET x == req[r]
      there == Exists(stored, x.op)
  IN
  /\ x.pc = "store"
  /\ \/ ~ there /\ stored' = Put(stored, x.op, x.value) /\ Tell(r, x.value) /\ UNCHANGED faults
     \/ ~ there /\ Fault /\ Unknown(r) /\ stored' \in {stored, Put(stored, x.op, x.value)} /\ UNCHANGED told
     \/ there /\ UNCHANGED <<stored, faults>>
        /\ IF stored[x.op] = x.value THEN Tell(r, x.value) ELSE Unknown(r) /\ UNCHANGED told
  /\ UNCHANGED <<sent, claims, tokens, wechatSide>>

-----------------------------------------------------------------------------
\* A request ends unanswered: an R2 read fails, or the object goes down.
Die(r) ==
  /\ req[r].pc # "idle" /\ Fault /\ Unknown(r)
  /\ UNCHANGED <<results, tokens, wechatSide>>

\* Two hours pass, or WeChat has issued another token to somebody.
TokenEnds ==
  /\ Fault
  /\ \E t \in {u \in DOMAIN evidence : evidence[u] = "token"} \ (expired \cup revoked) :
       (expired' = expired \cup {t} /\ UNCHANGED revoked) \/ (revoked' = revoked \cup {t} /\ UNCHANGED expired)
  /\ UNCHANGED <<results, tokens, effects, draft, req>>

EditDraft ==
  /\ draft = "draft" /\ Fault /\ draft' = "edited"
  /\ UNCHANGED <<results, tokens, expired, revoked, effects, req>>

Serve(r) ==
  \/ Replay(r) \/ TokenAnswered(r) \/ LookForToken(r) \/ PutToken(r)
  \/ Look(r) \/ Provider(r) \/ LookForResult(r) \/ StoreResult(r)

OperationNext ==
  \/ \E r \in Requests, k \in OperationAttempts : Send(r, k) \/ Ask(r, k)
  \/ \E r \in Requests : Serve(r) \/ Die(r)
  \/ TokenEnds \/ EditDraft

OperationSpec == OperationInit /\ [][OperationNext]_operationVars

-----------------------------------------------------------------------------
(* Properties *)

TokenResults == {"token", "rejected"} \cup Retryable
Values == Found \cup Failures \cup {"made"}
TokenKeys == (Nat \ {0}) \X TryNumbers
Intents == [state : {"none", "intent", "completed", "failed"}, known : TokenResults \cup {"none"}]
Places == {"idle", "look", "replay", "asked", "keep", "put", "use", "save", "store"}

OperationTypeOK ==
  /\ sent \subseteq OperationAttempts /\ claims \subseteq sent
  /\ told \subseteq OperationAttempts \X (Values \cup AccountErrors \cup {"invalid"})
  /\ DOMAIN stored \subseteq claims /\ \A k \in DOMAIN stored : stored[k] \in Values
  /\ generation \in Nat \ {0} /\ cache \in TokenKeys \cup {NoToken}
  /\ DOMAIN intents \subseteq TokenKeys /\ \A t \in DOMAIN intents : intents[t] \in Intents
  /\ DOMAIN evidence \subseteq TokenKeys /\ \A t \in DOMAIN evidence : evidence[t] \in TokenResults
  /\ expired \subseteq TokenKeys /\ revoked \subseteq TokenKeys
  /\ \A k \in DOMAIN effects : k \in OperationAttempts /\ effects[k] \in Nat
  /\ draft \in Found
  /\ req \in [Requests -> [pc : Places, op : OperationAttempts \cup {NoToken}, at : TokenKeys \cup {NoToken},
                           forced : BOOLEAN, again : BOOLEAN, seen : Intents, value : Values \cup TokenResults \cup {"none"}]]
  /\ faults \in 0..MaxFaults

\* WeChat is asked for a token at most once per attempt, whoever asks.
AskedOnce == \A t \in DOMAIN asks : asks[t] <= 1

\* A further attempt is announced only after the one before it is known to
\* have failed in a way that may be tried again.
TokenAttemptsInOrder ==
  \A t \in DOMAIN intents : t[2] > 1 =>
    /\ <<t[1], t[2] - 1>> \in DOMAIN evidence
    /\ evidence[<<t[1], t[2] - 1>>] \in Retryable

\* What an intent says of its result is what R2 holds, although a result
\* can arrive after another request gave the attempt up.
IntentsAgree ==
  \A t \in DOMAIN intents :
    /\ intents[t].known # "none" => t \in DOMAIN evidence /\ evidence[t] = intents[t].known
    /\ intents[t].state = "completed" => intents[t].known = "token"

\* A token that is kept or used is one WeChat gave and R2 holds.
IsToken(t) == t \in DOMAIN evidence /\ evidence[t] = "token"
TokensStored ==
  /\ cache # NoToken => IsToken(cache)
  /\ \A r \in Requests : req[r].pc = "use" => IsToken(req[r].at)

TokensSound == OperationTypeOK /\ AskedOnce /\ TokenAttemptsInOrder /\ IntentsAgree /\ TokensStored

\* All requests about one attempt are told the same result, the one R2 holds;
\* a read that comes late with another one is told so.
AnswersAgree ==
  \A a \in told : a[2] \notin AccountErrors \cup {"conflict", "invalid"} => a[1] \in DOMAIN stored /\ stored[a[1]] = a[2]

\* An operation takes effect at most once over all its attempts and requests,
\* refreshed tokens included, and an attempt that is called failed had none.
WrittenOnce ==
  /\ \A k \in DOMAIN effects : effects[k] <= 1 /\ (k \in DOMAIN stored => stored[k] = "made")
  /\ \A j, k \in DOMAIN effects : j[1] = k[1] => j = k

\* The account is called refused only when WeChat answered a request for a token
\* with an error code or refused two different tokens, and an operation gives up on tokens
\* only when a generation has failed three times.
BlamedForCause ==
  \A k \in DOMAIN stored :
    /\ stored[k] = "credentials" =>
         (\E t \in DOMAIN evidence : evidence[t] = "rejected") \/ Cardinality(expired \cup revoked) > 1
    /\ stored[k] = "exhausted" =>
         \E g \in 1..generation : \A n \in TryNumbers : <<g, n>> \in DOMAIN evidence /\ evidence[<<g, n>>] \in Retryable

\* What an operation comes to is the same for all who ask, happened at most
\* once, and is blamed on the account or on WeChat's tokens for cause only.
ResultsSound == AnswersAgree /\ WrittenOnce /\ BlamedForCause
=============================================================================
