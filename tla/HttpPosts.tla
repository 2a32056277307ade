------------------------------ MODULE HttpPosts ------------------------------
(***************************************************************************)
(* The sending side of HttpClientTransport: the dispatch task takes the    *)
(* messages of the connection in order and posts each in a task of its own *)
(* (send_outbound), with a bearer token of OAuthTokens.  A request keeps a *)
(* permit until its POST is answered; a POST that the server refuses with  *)
(* 401 is sent once more with another token.                               *)
(***************************************************************************)
EXTENDS OAuthTokens, Sequences, FiniteSets

CONSTANTS Request,    \* the messages that expect a response
          Note,       \* notifications and responses
          Permits,    \* MAX_CONCURRENT_REQUESTS
          UseOAuth    \* the transport has an OAuth client

ASSUME PostAssumption ==
  /\ Permits \in Nat \ {0}
  /\ UseOAuth \in BOOLEAN
  /\ UseOAuth => Request \cup Note \subseteq Caller

Message == Request \cup Note
Others == Caller \ Message   \* what else uses the OAuth clients

VARIABLES
  outbox,    \* http_rx
  taken,     \* the request the dispatch task holds while it waits for a permit
  stage,     \* how far the POST of each message is
  sent,      \* the tokens that the first and the second POST carried
  revoked    \* the tokens up to this one are refused by the server

postVars == <<outbox, taken, stage, sent, revoked>>
vars == <<tokenVars, postVars>>

Stages == {"unsent", "queued", "token", "post", "slow", "refresh", "retoken", "repost",
           "done", "failed"}
\* The second attempt of send_outbound.
Again(m) == stage[m] \in {"refresh", "retoken", "repost"}

TypeOK ==
  /\ TokenTypeOK
  /\ outbox \in Seq(Message)
  /\ taken \in {{}} \cup {{m} : m \in Request}
  /\ stage \in [Message -> Stages]
  /\ sent \in [Message -> [first : 0..MaxToken, second : 0..MaxToken]]
  /\ revoked \in 0..MaxToken

Init ==
  /\ TokenInit
  /\ outbox = <<>> /\ taken = {}
  /\ stage = [m \in Message |-> "unsent"]
  /\ sent = [m \in Message |-> [first |-> 0, second |-> 0]]
  /\ revoked = 0

Moves(m, s) == stage' = [stage EXCEPT ![m] = s]

-----------------------------------------------------------------------------
(* The dispatch task.                                                      *)

\* The connection hands a message to the sink.
Send(m) ==
  /\ stage[m] = "unsent"
  /\ outbox' = Append(outbox, m)
  /\ Moves(m, "queued")
  /\ UNCHANGED <<tokenVars, taken, sent, revoked>>

\* The requests whose task runs: each keeps its permit to the end.
Running == {m \in Request : stage[m] \notin {"unsent", "queued", "done", "failed"}}

PermitFree == Cardinality(Running) < Permits

\* What a task that starts does first: attach a token, when there is OAuth.
FirstStage == IF UseOAuth THEN "token" ELSE "post"

NoteNeedsPermit(m) == TRUE  \* ExpectsResponse: every message waits for a permit

ExpectsResponse(m) == m \in Request

\* The dispatch task takes the next message.  One that expects a response
\* waits for a permit, and the dispatch task with it.
Take ==
  /\ taken = {} /\ outbox # <<>>
  /\ outbox' = Tail(outbox)
  /\ LET m == Head(outbox)
     IN  IF ExpectsResponse(m) THEN taken' = {m} /\ UNCHANGED stage
                               ELSE Moves(m, FirstStage) /\ UNCHANGED taken
  /\ UNCHANGED <<tokenVars, sent, revoked>>

\* A permit is free, and the task of the request starts.
Spawn ==
  /\ PermitFree
  /\ \E m \in taken : Moves(m, FirstStage)
  /\ taken' = {}
  /\ UNCHANGED <<tokenVars, outbox, sent, revoked>>

-----------------------------------------------------------------------------
(* send_outbound, in the task of the message.                              *)

\* outbound_post_request calls get_valid_token, before the first POST and
\* again before the second, and retry_unauthorized has the token replaced.
Asks(m) ==
  /\ \/ stage[m] \in {"token", "retoken"} /\ Start(m, "get", 0)
     \/ stage[m] = "refresh" /\ Start(m, "ifCurrent", sent[m].first)
  /\ UNCHANGED postVars

\* What becomes of a message whose call to the OAuth client failed: without a
\* first token it is not sent; later the response to the first POST stands.
AnswerTo(m) ==
  IF call[m].result = 0 THEN "failed"
  ELSE CASE stage[m] = "token"   -> "post"
         [] stage[m] = "refresh" -> "retoken"
         [] stage[m] = "retoken" -> "repost"

\* The call to the OAuth client returned.
HasToken(m) ==
  /\ stage[m] \in {"token", "refresh", "retoken"}
  /\ Collect(m)
  /\ Moves(m, AnswerTo(m))
  /\ sent' = [sent EXCEPT ![m] = CASE stage[m] = "token"   -> [@ EXCEPT !.first = call[m].result]
                                   [] stage[m] = "retoken" -> [@ EXCEPT !.second = call[m].result]
                                   [] OTHER                -> @]
  /\ UNCHANGED <<outbox, taken, revoked>>

\* The token that the POST of m carries.
Carries(m) == IF stage[m] = "post" THEN sent[m].first ELSE sent[m].second

\* The response is a 401: the message is sent again once.
Refused(m) == IF stage[m] = "post" THEN "refresh" ELSE "failed"

\* The server gets the POST.
Post(m) ==
  /\ stage[m] \in {"post", "repost"}
  /\ \/ UseOAuth /\ Carries(m) <= revoked /\ Moves(m, Refused(m))
     \/ ~(UseOAuth /\ Carries(m) <= revoked)
        /\ Moves(m, IF m \in Request THEN "slow" ELSE "done")
     \/ Moves(m, "failed")     \* the request cannot be sent
  /\ UNCHANGED <<tokenVars, outbox, taken, sent, revoked>>

\* The server answers a request: dispatch_response, and the permit is free.
Answer(m) ==
  /\ stage[m] = "slow"
  /\ Moves(m, "done")
  /\ UNCHANGED <<tokenVars, outbox, taken, sent, revoked>>

\* The server stops accepting a token that is still fresh.
Revoke ==
  /\ revoked < issued
  /\ revoked' = revoked + 1
  /\ UNCHANGED <<tokenVars, outbox, taken, stage, sent>>

\* Another task, of this process or another, uses its client directly.
Calls(t) ==
  /\ Start(t, "refresh", 0) \/ Start(t, "get", 0)
  /\ UNCHANGED postVars
Takes(t) ==
  /\ Collect(t)
  /\ UNCHANGED postVars

PostStep(m) == Asks(m) \/ HasToken(m) \/ Post(m)
OAuthStep(t) == TokenStep(t) /\ UNCHANGED postVars

Next ==
  \/ Take \/ Spawn \/ Revoke
  \/ \E m \in Message : Send(m) \/ PostStep(m) \/ Answer(m)
  \/ \E t \in Caller : OAuthStep(t)
  \/ \E t \in Others : Calls(t) \/ Takes(t) \/ (Drop(t) /\ UNCHANGED postVars)
                       \/ (NewGrant(t) /\ UNCHANGED postVars)
  \/ (Expire \/ RemoveCredential) /\ UNCHANGED postVars

Spec == Init /\ [][Next]_vars

\* Tokio polls what is ready, so the dispatch task and the tasks of messages
\* go on.  Nothing says that the server ever answers a request.
Fairness ==
  /\ WF_vars(Take) /\ WF_vars(Spawn)
  /\ \A m \in Message : WF_vars(PostStep(m))
FairSpec == Spec /\ Fairness

-----------------------------------------------------------------------------
(* Properties.                                                             *)

\* A message that is sent again after a 401 does not carry the token that was
\* refused, unless an answer of the provider or a save of the store was lost.
RetryHasNewToken ==
  \A m \in Message : stage[m] = "repost" /\ ~lost => sent[m].second # sent[m].first

\* "Notifications and responses bypass the request limit so cancellations are
\* never stuck behind slow calls."  They are, behind a request that waits for
\* a permit, for as long as the slow calls are kept alive: READ_TIMEOUT, which
\* fails a call that is silent for 120 s, is left out.  (Without OAuth, where
\* sending a message takes no other task.)
NeverStuck == \A m \in Note : stage[m] = "queued" ~> stage[m] \in {"done", "failed"}
=============================================================================
