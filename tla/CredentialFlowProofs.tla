------------------------ MODULE CredentialFlowProofs ------------------------
(***************************************************************************)
(* Proofs about CredentialFlow, for every set of users and every bound:    *)
(* what GetToken() answers belongs to the user it names, a stream is open  *)
(* only for the user of the SyncEngine, and no stream that waits for its   *)
(* token has been forgotten.                                               *)
(*                                                                         *)
(* FlowInv says where requests are and in which states of the client, and  *)
(* carries the last of the three properties.  ProviderInv and ClientInv    *)
(* are about the order of what is on the main queue and on the worker      *)
(* queue, and carry the other two.                                         *)
(***************************************************************************)
EXTENDS CredentialFlow, SequenceFacts

-----------------------------------------------------------------------------
(* The invariant of requests                                               *)

User == Users \cup {Nobody}
Result == AccessToken \cup {Failure}

MainBlock ==
    [kind : {"notify"}, user : User]
      \cup [kind : {"callback"}, request : Request, result : Result]

Operation ==
    [kind : {"change"}, user : User]
      \cup [kind : {"token"}, closes : Nat, result : Result, user : User]
      \cup [kind : {"terminate"}]

StreamState == [state : {"Initial", "Starting", "Open", "Error"}, closes : Nat,
                token : AccessToken]

\* Every variable has the type its declaration says; this says more of the
\* queues than CredentialTypeOK does.
FlowTypes ==
    /\ auth \in [user : User, notified : AccessToken]
    /\ token \in [Users -> Nat]
    /\ work \in Seq(Request) /\ service \in [Users -> Seq(Request)]
    /\ main \in Seq(MainBlock)
    /\ block \in MainBlock \cup {NoBlock} \cup [kind : {"reset"}, forced : BOOLEAN]
    /\ provider \in {"absent", "constructing", "live", "removed", "destroyed"}
    /\ contents \in [user : User, counter : Nat, force : BOOLEAN]
    /\ listening \in BOOLEAN /\ restricted \in BOOLEAN
    /\ queue \in Seq(Operation)
    /\ pc \in {"idle", "count", "dispatch", "reset", "shutdown", "stopped"}
    /\ request \in Request
    /\ engine \in User \cup {Failure}
    /\ stream \in StreamState

\* A callback for the request r is on the main queue s.
CallbackIn(r, s) == \E x \in MainBlock : InSeq(x, s) /\ x.kind = "callback" /\ x.request = r

\* An answer for the stream as it was after c closes is on the worker queue s.
TokenIn(c, s) == \E x \in Operation : InSeq(x, s) /\ x.kind = "token" /\ x.closes = c

\* The request r is under way.
Pending(r) ==
    \/ InSeq(r, work)
    \/ \E u \in Users : InSeq(r, service[u])
    \/ CallbackIn(r, main)
    \/ block.kind = "callback" /\ block.request = r
    \/ pc = "dispatch" /\ request = r

\* A request of the stream as it was after c closes may be under way.
Live(c) == c < stream.closes \/ (c = stream.closes /\ IsStarted(stream))

\* Requests are not newer than token_counter, nor of a stream that is not started.
RequestInv ==
    /\ \A r \in Request : Pending(r) => r.count <= contents.counter /\ Live(r.closes)
    /\ \A c \in Nat : TokenIn(c, queue) => Live(c)
    /\ pc \in {"count", "dispatch"} => stream.state = "Starting"
    /\ pc = "dispatch" => request.closes = stream.closes

\* Before it is created and after it is terminated, the client does nothing.
LifeInv ==
    /\ provider \in {"absent", "constructing"} => ~listening /\ ~restricted
    /\ provider \in {"removed", "destroyed"} => restricted
    /\ InSeq([kind |-> "terminate"], queue) => restricted
    /\ pc = "shutdown" => restricted /\ queue # <<>>
    /\ ~listening /\ ~restricted =>
          /\ queue = <<>> /\ pc = "idle" /\ engine = Failure
          /\ stream.state = "Initial"
          /\ \A r \in Request : ~Pending(r)

\* A stream that waits for its token has its request or its answer under way.
StartingInv ==
    stream.state = "Starting" /\ ~restricted =>
        \/ pc = "count"
        \/ \E r \in Request : Pending(r) /\ r.closes = stream.closes
        \/ TokenIn(stream.closes, queue)

FlowInv == FlowTypes /\ RequestInv /\ LifeInv /\ StartingInv

\* The requests on the main queue after a block was appended or taken.
LEMMA MainCallbacks ==
    ASSUME NEW s \in Seq(MainBlock)
    PROVE  /\ \A e \in MainBlock : \A r :
                  CallbackIn(r, Append(s, e)) <=>
                      (CallbackIn(r, s) \/ (e.kind = "callback" /\ e.request = r))
           /\ s # <<>> => \A r :
                  CallbackIn(r, s) <=>
                      (CallbackIn(r, Tail(s)) \/ (Head(s).kind = "callback" /\ Head(s).request = r))
  <1>1. ASSUME NEW e \in MainBlock, NEW r
        PROVE  CallbackIn(r, Append(s, e)) <=>
                   (CallbackIn(r, s) \/ (e.kind = "callback" /\ e.request = r))
    <2>1. \A x : InSeq(x, Append(s, e)) <=> (InSeq(x, s) \/ x = e)
      BY AppendFacts
    <2> QED
      BY <2>1, Zenon DEF CallbackIn
  <1>2. ASSUME s # <<>>, NEW r
        PROVE  CallbackIn(r, s) <=>
                   (CallbackIn(r, Tail(s)) \/ (Head(s).kind = "callback" /\ Head(s).request = r))
    <2>1. Head(s) \in MainBlock /\ \A x : InSeq(x, s) <=> (x = Head(s) \/ InSeq(x, Tail(s)))
      BY <1>2, TailFacts
    <2> QED
      BY <2>1, Zenon DEF CallbackIn
  <1> QED
    BY <1>1, <1>2

\* The answers on the worker queue after an operation was appended or taken.
LEMMA QueueTokens ==
    ASSUME NEW s \in Seq(Operation)
    PROVE  /\ \A e \in Operation : \A c :
                  TokenIn(c, Append(s, e)) <=>
                      (TokenIn(c, s) \/ (e.kind = "token" /\ e.closes = c))
           /\ s # <<>> => \A c :
                  TokenIn(c, s) <=>
                      (TokenIn(c, Tail(s)) \/ (Head(s).kind = "token" /\ Head(s).closes = c))
  <1>1. ASSUME NEW e \in Operation, NEW c
        PROVE  TokenIn(c, Append(s, e)) <=>
                   (TokenIn(c, s) \/ (e.kind = "token" /\ e.closes = c))
    <2>1. \A x : InSeq(x, Append(s, e)) <=> (InSeq(x, s) \/ x = e)
      BY AppendFacts
    <2> QED
      BY <2>1, Zenon DEF TokenIn
  <1>2. ASSUME s # <<>>, NEW c
        PROVE  TokenIn(c, s) <=>
                   (TokenIn(c, Tail(s)) \/ (Head(s).kind = "token" /\ Head(s).closes = c))
    <2>1. Head(s) \in Operation /\ \A x : InSeq(x, s) <=> (x = Head(s) \/ InSeq(x, Tail(s)))
      BY <1>2, TailFacts
    <2> QED
      BY <2>1, Zenon DEF TokenIn
  <1> QED
    BY <1>1, <1>2

\* FlowInv has the type invariant and StartingStreamHasRequest as consequences.
LEMMA FlowConsequences == FlowInv => CredentialTypeOK /\ StartingStreamHasRequest
  <1> SUFFICES ASSUME FlowInv PROVE CredentialTypeOK /\ StartingStreamHasRequest
    OBVIOUS
  <1> USE DEF FlowInv, FlowTypes
  <1>1. \A i \in DOMAIN main : main[i].kind \in {"notify", "callback"}
    BY DEF MainBlock
  <1>2. \A i \in DOMAIN queue : queue[i].kind \in {"change", "token", "terminate"}
    BY DEF Operation
  <1>3. CredentialTypeOK
    BY <1>1, <1>2 DEF CredentialTypeOK, User, StreamState
  <1>4. ASSUME stream.state = "Starting", ~restricted, NEW r \in Request, Pending(r),
               r.closes = stream.closes
        PROVE  StartingStreamHasRequest
    BY <1>4, Zenon DEF StartingStreamHasRequest, Pending, InSeq, CallbackIn
  <1>5. ASSUME stream.state = "Starting", ~restricted, TokenIn(stream.closes, queue)
        PROVE  StartingStreamHasRequest
    BY <1>5, Zenon DEF StartingStreamHasRequest, TokenIn, InSeq
  <1>6. pc = "count" => StartingStreamHasRequest
    BY DEF StartingStreamHasRequest
  <1> QED
    BY <1>3, <1>4, <1>5, <1>6 DEF StartingInv, StartingStreamHasRequest

-----------------------------------------------------------------------------
(* The steps of Firebase Auth move requests on.                            *)

\* The tokens of a user.
LEMMA TokenFacts ==
    ASSUME NEW u \in Users, NEW n \in Nat
    PROVE  /\ Token(u, n) \in AccessToken /\ Token(u, n) # Nobody
           /\ UserOf(Token(u, n)) = u
           /\ Nobody \in AccessToken /\ UserOf(Nobody) = Nobody
  BY CredentialAssumption DEF Token, UserOf, AccessToken

\* A notification on the main queue is no callback.
LEMMA NotificationFacts ==
    ASSUME main \in Seq(MainBlock), NEW u \in User, NEW t
    PROVE  /\ main \o Notification(u, t) \in Seq(MainBlock)
           /\ \A r : CallbackIn(r, main \o Notification(u, t)) <=> CallbackIn(r, main)
           /\ t # auth.notified =>
                  main \o Notification(u, t) = Append(main, [kind |-> "notify", user |-> u])
           /\ t = auth.notified => main \o Notification(u, t) = main
  <1>1. PICK n \in MainBlock : n = [kind |-> "notify", user |-> u]
    BY DEF MainBlock
  <1>2. CASE t = auth.notified
    BY <1>2 DEF Notification
  <1>3. CASE t # auth.notified
    <2>1. main \o Notification(u, t) = Append(main, n)
      BY <1>1, <1>3, AppendFacts DEF Notification
    <2>2. Append(main, n) \in Seq(MainBlock)
      BY AppendFacts
    <2>3. \A r : CallbackIn(r, Append(main, n)) <=>
                     (CallbackIn(r, main) \/ (n.kind = "callback" /\ n.request = r))
      BY MainCallbacks
    <2>4. n.kind # "callback"
      BY <1>1
    <2> QED
      BY <1>1, <1>3, <2>1, <2>2, <2>3, <2>4, Zenon
  <1> QED
    BY <1>2, <1>3

\* The callback of a request on the main queue.
LEMMA CallbackFacts ==
    ASSUME NEW s \in Seq(MainBlock), NEW q \in Request, NEW v \in Result
    PROVE  /\ s \o Callback(q, v) \in Seq(MainBlock)
           /\ \A r : CallbackIn(r, s \o Callback(q, v)) <=> (CallbackIn(r, s) \/ r = q)
           /\ s \o Callback(q, v) =
                  Append(s, [kind |-> "callback", request |-> q, result |-> v])
  <1>1. PICK c \in MainBlock : c = [kind |-> "callback", request |-> q, result |-> v]
    BY DEF MainBlock
  <1>2. s \o Callback(q, v) = Append(s, c) /\ Append(s, c) \in Seq(MainBlock)
    BY <1>1, AppendFacts DEF Callback
  <1>3. \A r : CallbackIn(r, Append(s, c)) <=>
                   (CallbackIn(r, s) \/ (c.kind = "callback" /\ c.request = r))
    BY MainCallbacks
  <1>4. c.kind = "callback" /\ c.request = q
    BY <1>1
  <1> QED
    BY <1>1, <1>2, <1>3, <1>4, Zenon

\* The service of the user u takes the request it holds longest.
LEMMA ServiceTail ==
    ASSUME FlowTypes, NEW u \in Users, service[u] # <<>>,
           service' = [service EXCEPT ![u] = Tail(@)]
    PROVE  /\ Head(service[u]) \in Request /\ service' \in [Users -> Seq(Request)]
           /\ \A r, v : v \in Users /\ InSeq(r, service'[v]) => InSeq(r, service[v])
           /\ \A r : (\E v \in Users : InSeq(r, service[v])) <=>
                         ((\E v \in Users : InSeq(r, service'[v])) \/ r = Head(service[u]))
  <1>1. service[u] \in Seq(Request) /\ service \in [Users -> Seq(Request)]
    BY DEF FlowTypes
  <1>2. /\ Head(service[u]) \in Request /\ Tail(service[u]) \in Seq(Request)
        /\ \A r : InSeq(r, service[u]) <=> (r = Head(service[u]) \/ InSeq(r, Tail(service[u])))
    BY <1>1, TailFacts
  <1>3. service' \in [Users -> Seq(Request)] /\ service'[u] = Tail(service[u])
        /\ \A v \in Users : v # u => service'[v] = service[v]
    BY <1>1, <1>2
  <1>4. \A r, v : v \in Users /\ InSeq(r, service'[v]) => InSeq(r, service[v])
    BY <1>2, <1>3, Zenon
  <1> QED
    BY <1>2, <1>3, <1>4, Zenon

\* If only the place of the requests changes, FlowInv goes on to hold; in
\* restricted mode they may also get lost.
LEMMA RequestsMove ==
    ASSUME FlowInv, FlowTypes', \A r \in Request : Pending(r)' => Pending(r),
           restricted \/ \A r \in Request : Pending(r) => Pending(r)',
           contents'.counter = contents.counter,
           UNCHANGED <<provider, listening, queue, restricted, pc, request, engine, stream>>
    PROVE  FlowInv'
  <1>1. RequestInv'
    BY Zenon DEF FlowInv, RequestInv, Live, IsStarted, TokenIn
  <1>2. LifeInv'
    BY Zenon DEF FlowInv, LifeInv, InSeq
  <1>3. StartingInv'
    BY Zenon DEF FlowInv, StartingInv, TokenIn
  <1> QED
    BY <1>1, <1>2, <1>3 DEF FlowInv

\* updateCurrentUser: only notifies.
LEMMA UpdateCurrentUserFlow ==
    ASSUME FlowInv, NEW u \in User, UpdateCurrentUser(u)
    PROVE  FlowInv'
  <1>1. PICK t \in AccessToken : auth' = [user |-> u, notified |-> t]
                                 /\ main' = main \o Notification(u, t)
    BY TokenFacts, CredentialAssumption DEF UpdateCurrentUser, FlowInv, FlowTypes, User, AccessToken
  <1>2. main' \in Seq(MainBlock) /\ \A r : CallbackIn(r, main') <=> CallbackIn(r, main)
    BY <1>1, NotificationFacts, Zenon DEF FlowInv, FlowTypes
  <1>3. FlowTypes'
    BY <1>1, <1>2 DEF FlowInv, FlowTypes, UpdateCurrentUser, providerVars, clientVars
  <1>4. \A r \in Request : Pending(r)' <=> Pending(r)
    BY <1>2 DEF Pending, UpdateCurrentUser, providerVars, clientVars
  <1> QED
    BY <1>3, <1>4, RequestsMove DEF UpdateCurrentUser, providerVars, clientVars

\* getTokenForcingRefresh: takes a request to its user, or back to the main queue.
LEMMA GetTokenForcingRefreshFlow ==
    ASSUME FlowInv, GetTokenForcingRefresh
    PROVE  FlowInv'
  <1> DEFINE q == Head(work)
  <1>1. /\ q \in Request /\ work' \in Seq(Request)
        /\ \A r : InSeq(r, work) <=> (r = q \/ InSeq(r, work'))
    BY TailFacts DEF GetTokenForcingRefresh, FlowInv, FlowTypes
  <1>2. CASE auth.user = Nobody
    <2>1. main' \in Seq(MainBlock)
          /\ \A r : CallbackIn(r, main') <=> (CallbackIn(r, main) \/ r = q)
      <3>1. Nobody \in Result /\ main \in Seq(MainBlock) /\ main' = main \o Callback(q, Nobody)
        BY <1>2 DEF GetTokenForcingRefresh, FlowInv, FlowTypes, Result, AccessToken
      <3> QED
        BY <1>1, <3>1, CallbackFacts, Zenon
    <2>2. FlowTypes'
      BY <1>1, <1>2, <2>1
         DEF FlowInv, FlowTypes, GetTokenForcingRefresh, providerVars, clientVars
    <2>3. \A r \in Request : Pending(r)' <=> Pending(r)
      BY <1>1, <1>2, <2>1 DEF Pending, GetTokenForcingRefresh, providerVars, clientVars
    <2> QED
      BY <2>2, <2>3, RequestsMove DEF GetTokenForcingRefresh, providerVars, clientVars
  <1>3. CASE auth.user # Nobody
    <2>1. PICK u \in Users : u = auth.user
      BY <1>3 DEF FlowInv, FlowTypes, User
    <2>2. service[u] \in Seq(Request) /\ service \in [Users -> Seq(Request)]
      BY DEF FlowInv, FlowTypes
    <2>3. Append(service[u], q) \in Seq(Request)
          /\ \A r : InSeq(r, Append(service[u], q)) <=> (InSeq(r, service[u]) \/ r = q)
      BY <1>1, <2>2, AppendFacts
    <2>4. /\ service' \in [Users -> Seq(Request)]
          /\ service'[u] = Append(service[u], q)
          /\ \A v \in Users : v # u => service'[v] = service[v]
          /\ UNCHANGED main
      BY <1>1, <1>3, <2>1, <2>2, <2>3 DEF GetTokenForcingRefresh
    <2>5. FlowTypes'
      BY <1>1, <2>4 DEF FlowInv, FlowTypes, GetTokenForcingRefresh, providerVars, clientVars
    <2>6. \A r \in Request : Pending(r)' <=> Pending(r)
      <3>1. \A r : (\E v \in Users : InSeq(r, service'[v])) <=>
                       ((\E v \in Users : InSeq(r, service[v])) \/ r = q)
        BY <2>3, <2>4, Zenon
      <3> QED
        BY <1>1, <2>4, <3>1 DEF Pending, GetTokenForcingRefresh, providerVars, clientVars
    <2> QED
      BY <2>4, <2>5, <2>6, RequestsMove DEF GetTokenForcingRefresh, providerVars, clientVars
  <1> QED
    BY <1>2, <1>3

\* A token service answers a request: with the callback, maybe after a notification.
LEMMA AnswerFlow ==
    ASSUME FlowInv, NEW u \in Users, service[u] # <<>>,
           service' = [service EXCEPT ![u] = Tail(@)],
           NEW s \in Seq(MainBlock), \A r : CallbackIn(r, s) <=> CallbackIn(r, main),
           NEW v \in Result, main' = s \o Callback(Head(service[u]), v),
           auth' \in [user : User, notified : AccessToken], token' \in [Users -> Nat],
           UNCHANGED <<work, providerVars, clientVars, queue>>
    PROVE  FlowInv'
  <1> DEFINE q == Head(service[u])
  <1>1. /\ q \in Request /\ service' \in [Users -> Seq(Request)]
        /\ \A r : (\E w \in Users : InSeq(r, service[w])) <=>
                      ((\E w \in Users : InSeq(r, service'[w])) \/ r = q)
    BY ServiceTail DEF FlowInv
  <1>2. main' \in Seq(MainBlock) /\ \A r : CallbackIn(r, main') <=> (CallbackIn(r, main) \/ r = q)
    BY <1>1, CallbackFacts
  <1>3. FlowTypes'
    BY <1>1, <1>2 DEF FlowInv, FlowTypes, providerVars, clientVars
  <1>4. \A r \in Request : Pending(r)' <=> Pending(r)
    BY <1>1, <1>2 DEF Pending, providerVars, clientVars
  <1> QED
    BY <1>3, <1>4, RequestsMove DEF providerVars, clientVars

\* fetchAccessTokenForcingRefresh: answers with the token it has.
LEMMA FetchCachedFlow ==
    ASSUME FlowInv, NEW u \in Users, FetchCached(u)
    PROVE  FlowInv'
  <1>1. Token(u, token[u]) \in Result
    BY TokenFacts DEF FlowInv, FlowTypes, Result
  <1> QED
    BY <1>1, AnswerFlow DEF FetchCached, FlowInv, FlowTypes

\* What a new access token does to FIRAuth and to the main queue.
LEMMA RefreshedFacts ==
    ASSUME FlowInv, NEW u \in Users, NEW callback, Refreshed(u, callback)
    PROVE  /\ token' \in [Users -> Nat]
           /\ auth' \in [user : User, notified : AccessToken] /\ auth'.user = auth.user
           /\ \E s \in Seq(MainBlock) :
                  /\ \A r : CallbackIn(r, s) <=> CallbackIn(r, main)
                  /\ main' = s \o callback
  <1>1. token[u] + 1 \in Nat /\ token' \in [Users -> Nat]
    BY DEF Refreshed, FlowInv, FlowTypes
  <1>2. Token(u, token[u] + 1) \in AccessToken
    BY <1>1, TokenFacts
  <1>3. CASE u = auth.user
    <2>1. auth' \in [user : User, notified : AccessToken] /\ auth'.user = auth.user
      BY <1>2, <1>3 DEF Refreshed, FlowInv, FlowTypes, User
    <2>2. PICK s : s = main \o Notification(u, Token(u, token[u] + 1))
      OBVIOUS
    <2>3. s \in Seq(MainBlock) /\ \A r : CallbackIn(r, s) <=> CallbackIn(r, main)
      BY <2>2, NotificationFacts, Zenon DEF FlowInv, FlowTypes, User
    <2>4. main' = s \o callback
      BY <1>3, <2>2, Zenon DEF Refreshed
    <2> QED
      BY <1>1, <2>1, <2>3, <2>4
  <1>4. CASE u # auth.user
    BY <1>1, <1>4, Zenon DEF Refreshed, FlowInv, FlowTypes
  <1> QED
    BY <1>3, <1>4

\* fetchAccessTokenForcingRefresh: answers with a new token.
LEMMA FetchRefreshedFlow ==
    ASSUME FlowInv, NEW u \in Users, FetchRefreshed(u)
    PROVE  FlowInv'
  <1> DEFINE q == Head(service[u])
             v == Token(u, token[u] + 1)
  <1>1. v \in Result
    BY TokenFacts DEF FlowInv, FlowTypes, Result
  <1>2. Refreshed(u, Callback(q, v))
    BY DEF FetchRefreshed
  <1>3. /\ token' \in [Users -> Nat] /\ auth' \in [user : User, notified : AccessToken]
        /\ \E s \in Seq(MainBlock) :
               (\A r : CallbackIn(r, s) <=> CallbackIn(r, main)) /\ main' = s \o Callback(q, v)
    BY <1>2, RefreshedFacts
  <1> HIDE DEF v
  <1>4. PICK s \in Seq(MainBlock) :
               (\A r : CallbackIn(r, s) <=> CallbackIn(r, main)) /\ main' = s \o Callback(q, v)
    BY <1>3
  <1> QED
    BY <1>1, <1>3, <1>4, AnswerFlow DEF FetchRefreshed

\* The request for a token fails, and the user may be signed out.
LEMMA FetchFailedFlow ==
    ASSUME FlowInv, NEW u \in Users, NEW signOut \in BOOLEAN, FetchFailed(u, signOut)
    PROVE  FlowInv'
  <1>1. Failure \in Result /\ Nobody \in User /\ Nobody \in AccessToken
    BY DEF Result, User, AccessToken
  <1>2. CASE signOut /\ u = auth.user
    <2>1. PICK s : s = main \o Notification(Nobody, Nobody)
      OBVIOUS
    <2>2. s \in Seq(MainBlock) /\ \A r : CallbackIn(r, s) <=> CallbackIn(r, main)
      BY <1>1, <2>1, NotificationFacts, Zenon DEF FlowInv, FlowTypes
    <2>3. main' = s \o Callback(Head(service[u]), Failure)
          /\ auth' = [user |-> Nobody, notified |-> Nobody]
      BY <1>2, <2>1, Zenon DEF FetchFailed
    <2>4. auth' \in [user : User, notified : AccessToken] /\ token' \in [Users -> Nat]
      BY <1>1, <2>3 DEF FetchFailed, FlowInv, FlowTypes
    <2> QED
      BY <1>1, <2>2, <2>3, <2>4, AnswerFlow DEF FetchFailed
  <1>3. CASE ~(signOut /\ u = auth.user)
    <2>1. main' = main \o Callback(Head(service[u]), Failure) /\ auth' = auth
      BY <1>3, Zenon DEF FetchFailed
    <2> QED
      BY <1>1, <2>1, AnswerFlow DEF FetchFailed, FlowInv, FlowTypes
  <1> QED
    BY <1>2, <1>3

\* scheduleAutoTokenRefreshWithDelay: only notifies.
LEMMA AutoRefreshFlow ==
    ASSUME FlowInv, AutoRefresh
    PROVE  FlowInv'
  <1>1. PICK u \in Users : u = auth.user
    BY DEF AutoRefresh, FlowInv, FlowTypes, User
  <1>2. Refreshed(u, <<>>)
    BY <1>1 DEF AutoRefresh
  <1>3. /\ token' \in [Users -> Nat] /\ auth' \in [user : User, notified : AccessToken]
        /\ \E s \in Seq(MainBlock) :
               (\A r : CallbackIn(r, s) <=> CallbackIn(r, main)) /\ main' = s \o <<>>
    BY <1>2, RefreshedFacts
  <1>4. PICK s \in Seq(MainBlock) :
               (\A r : CallbackIn(r, s) <=> CallbackIn(r, main)) /\ main' = s \o <<>>
    BY <1>3
  <1>5. main' = s
    BY <1>4
  <1>6. FlowTypes'
    BY <1>3, <1>5 DEF FlowInv, FlowTypes, AutoRefresh, providerVars, clientVars
  <1>7. \A r \in Request : Pending(r)' <=> Pending(r)
    BY <1>4, <1>5 DEF Pending, AutoRefresh, providerVars, clientVars
  <1> QED
    BY <1>6, <1>7, RequestsMove DEF AutoRefresh, providerVars, clientVars

-----------------------------------------------------------------------------
(* The steps of the credentials provider on the main queue                 *)

\* What the listener or the completion of RequestCredentials() enqueues.
LEMMA EnqueueFacts ==
    ASSUME FlowTypes, NEW op \in Operation, op.kind # "terminate", MayEnqueue(op)
    PROVE  /\ queue' \in Seq(Operation)
           /\ restricted => queue' = queue
           /\ ~restricted => queue' = Append(queue, op)
           /\ \A c : TokenIn(c, queue') <=>
                  (TokenIn(c, queue) \/ (~restricted /\ op.kind = "token" /\ op.closes = c))
           /\ InSeq([kind |-> "terminate"], queue') => InSeq([kind |-> "terminate"], queue)
  <1>0. queue \in Seq(Operation)
    BY DEF FlowTypes
  <1>1. CASE restricted
    BY <1>0, <1>1, Zenon DEF MayEnqueue
  <1>2. CASE ~restricted
    <2>1. queue' = Append(queue, op)
      BY <1>2 DEF MayEnqueue
    <2>2. /\ Append(queue, op) \in Seq(Operation)
          /\ \A x : InSeq(x, Append(queue, op)) <=> (InSeq(x, queue) \/ x = op)
      BY <1>0, AppendFacts
    <2>3. \A c : TokenIn(c, Append(queue, op)) <=>
                     (TokenIn(c, queue) \/ (op.kind = "token" /\ op.closes = c))
      BY <1>0, QueueTokens
    <2>4. [kind |-> "terminate"] # op
      OBVIOUS
    <2> QED
      BY <1>2, <2>1, <2>2, <2>3, <2>4, Zenon
  <1> QED
    BY <1>1, <1>2

\* A block begins, or finds neither an observer nor the contents.
LEMMA EnterBlockFlow ==
    ASSUME FlowInv, EnterBlock
    PROVE  FlowInv'
  <1>1. main \in Seq(MainBlock) /\ main # <<>> /\ main' = Tail(main)
    BY DEF EnterBlock, FlowInv, FlowTypes
  <1>2. /\ Head(main) \in MainBlock /\ main' \in Seq(MainBlock)
        /\ \A r : CallbackIn(r, main) <=>
               (CallbackIn(r, main') \/ (Head(main).kind = "callback" /\ Head(main).request = r))
    BY <1>1, TailFacts, MainCallbacks, Zenon
  <1>3. NoBlock.kind = "none"
    BY DEF NoBlock
  <1>4. block' = Head(main) \/ (block' = NoBlock /\ (Head(main).kind # "callback" \/ restricted))
    BY <1>2 DEF EnterBlock, FlowInv, LifeInv
  <1>5. FlowTypes'
    BY <1>2, <1>4 DEF EnterBlock, FlowInv, FlowTypes, authVars, clientVars
  <1>6. \A r \in Request : Pending(r)' => Pending(r)
    BY <1>2, <1>3, <1>4 DEF Pending, EnterBlock, authVars, clientVars
  <1>7. ~restricted => \A r \in Request : Pending(r) => Pending(r)'
    BY <1>2, <1>3, <1>4 DEF Pending, EnterBlock, authVars, clientVars
  <1> QED
    BY <1>5, <1>6, <1>7, RequestsMove DEF EnterBlock, authVars, clientVars

\* The observer makes all requests that are under way out of date.
LEMMA AuthStateDidChangeFlow ==
    ASSUME FlowInv, AuthStateDidChange
    PROVE  FlowInv'
  <1>1. PICK op : op = [kind |-> "change", user |-> block.user]
    OBVIOUS
  <1>2. block \in MainBlock /\ block.user \in User
    BY DEF AuthStateDidChange, FlowInv, FlowTypes, MainBlock, NoBlock
  <1>3. op \in Operation /\ op.kind = "change"
    BY <1>1, <1>2 DEF Operation
  <1>4. /\ queue' \in Seq(Operation)
        /\ \A c : TokenIn(c, queue') <=> TokenIn(c, queue)
        /\ InSeq([kind |-> "terminate"], queue') => InSeq([kind |-> "terminate"], queue)
        /\ ~listening \/ restricted => queue' = queue
    <2>1. CASE listening
      <3>1. MayEnqueue(op) /\ FlowTypes /\ op.kind # "terminate" /\ op.kind # "token"
        BY <1>1, <1>3, <2>1 DEF AuthStateDidChange, FlowInv
      <3> QED
        BY <1>3, <2>1, <3>1, EnqueueFacts
    <2>2. CASE ~listening
      BY <2>2, Zenon DEF AuthStateDidChange, FlowInv, FlowTypes
    <2> QED
      BY <2>1, <2>2
  <1>5. /\ contents' \in [user : User, counter : Nat, force : BOOLEAN]
        /\ contents'.counter = contents.counter + 1 /\ contents.counter \in Nat
    <2>1. PICK u \in User : u = block.user
      BY <1>2
    <2>2. contents' = [contents EXCEPT !.user = u, !.counter = @ + 1]
      BY <2>1 DEF AuthStateDidChange
    <2>3. contents \in [user : User, counter : Nat, force : BOOLEAN]
      BY DEF FlowInv, FlowTypes
    <2>4. PICK c : c = [contents EXCEPT !.user = u]
      OBVIOUS
    <2>5. c \in [user : User, counter : Nat, force : BOOLEAN] /\ c.counter = contents.counter
      BY <2>3, <2>4
    <2>6. contents' = [c EXCEPT !.counter = @ + 1]
      BY <2>2, <2>3, <2>4
    <2> QED
      BY <2>5, <2>6
  <1>6. FlowTypes'
    BY <1>4, <1>5 DEF AuthStateDidChange, FlowInv, FlowTypes, authVars, clientVars
  <1>7. \A r \in Request : Pending(r)' <=> Pending(r)
    BY DEF Pending, AuthStateDidChange, authVars, clientVars, NoBlock
  <1>8. RequestInv'
    <2>1. \A r \in Request : Pending(r)' => r.count <= contents'.counter /\ Live(r.closes)'
      BY <1>5, <1>7 DEF AuthStateDidChange, FlowInv, RequestInv, Live, IsStarted, Request, clientVars
    <2> QED
      BY <1>4, <2>1, Zenon DEF AuthStateDidChange, FlowInv, RequestInv, Live, IsStarted, clientVars
  <1>9. LifeInv'
    BY <1>4, <1>7, Zenon DEF AuthStateDidChange, FlowInv, LifeInv, clientVars
  <1>10. StartingInv'
    BY <1>4, <1>7, Zenon DEF AuthStateDidChange, FlowInv, StartingInv, clientVars
  <1> QED
    BY <1>6, <1>8, <1>9, <1>10 DEF FlowInv

\* What a callback knows of its request.
LEMMA CallbackBlock ==
    ASSUME FlowInv, block.kind = "callback"
    PROVE  /\ block.request \in Request /\ block.result \in Result
           /\ Pending(block.request)
           /\ block.request.count <= contents.counter /\ Live(block.request.closes)
           /\ listening \/ restricted
  <1>1. block.request \in Request /\ block.result \in Result
    BY DEF FlowInv, FlowTypes, MainBlock, NoBlock
  <1>2. Pending(block.request)
    BY DEF Pending
  <1> QED
    BY <1>1, <1>2, Zenon DEF FlowInv, RequestInv, LifeInv

\* get_token_callback answers the request, unless the client is terminated.
LEMMA GetTokenCallbackFlow ==
    ASSUME FlowInv, GetTokenCallback
    PROVE  FlowInv'
  <1>1. PICK op : op = [kind |-> "token", closes |-> block.request.closes,
                        result |-> block.result, user |-> contents.user]
    OBVIOUS
  <1>2. /\ block.request \in Request /\ block.result \in Result /\ Pending(block.request)
        /\ Live(block.request.closes) /\ (listening \/ restricted)
    BY CallbackBlock DEF GetTokenCallback
  <1>3. op \in Operation /\ op.kind = "token" /\ op.closes = block.request.closes
    BY <1>1, <1>2 DEF Operation, FlowInv, FlowTypes, Request
  <1>4. MayEnqueue(op) /\ FlowTypes /\ op.kind # "terminate"
    BY <1>1, <1>3 DEF GetTokenCallback, FlowInv
  <1>5. /\ queue' \in Seq(Operation)
        /\ \A c : TokenIn(c, queue') <=>
               (TokenIn(c, queue) \/ (~restricted /\ c = block.request.closes))
        /\ InSeq([kind |-> "terminate"], queue') => InSeq([kind |-> "terminate"], queue)
        /\ restricted => queue' = queue
    BY <1>3, <1>4, EnqueueFacts
  <1>6. FlowTypes'
    BY <1>5 DEF GetTokenCallback, FlowInv, FlowTypes, authVars, clientVars
  <1>7. \A r \in Request : /\ Pending(r)' => Pending(r)
                           /\ Pending(r) => Pending(r)' \/ r = block.request
    BY DEF Pending, GetTokenCallback, authVars, clientVars, NoBlock
  <1>8. RequestInv'
    BY <1>2, <1>5, <1>7, Zenon
       DEF GetTokenCallback, FlowInv, RequestInv, Live, IsStarted, clientVars
  <1>9. LifeInv'
    BY <1>2, <1>5, Zenon DEF GetTokenCallback, FlowInv, LifeInv, clientVars
  <1>10. StartingInv'
    BY <1>5, <1>7, Zenon DEF GetTokenCallback, FlowInv, StartingInv, clientVars
  <1> QED
    BY <1>6, <1>8, <1>9, <1>10 DEF FlowInv

\* get_token_callback asks again, or finds the client terminated.
LEMMA GetTokenAgainFlow ==
    ASSUME FlowInv, GetTokenAgain
    PROVE  FlowInv'
  <1>1. /\ block.request \in Request /\ Pending(block.request)
        /\ Live(block.request.closes) /\ (listening \/ restricted)
    BY CallbackBlock DEF GetTokenAgain
  <1>2. CASE provider = "live"
    <2>1. PICK q : q = [block.request EXCEPT !.count = contents.counter,
                                             !.force = contents.force]
      OBVIOUS
    <2>2. /\ q \in Request /\ q.count = contents.counter /\ q.closes = block.request.closes
          /\ contents.counter <= contents.counter
      <3>1. PICK b \in Request : b = block.request
        BY <1>1
      <3>2. PICK n \in Nat, fr \in BOOLEAN : n = contents.counter /\ fr = contents.force
        BY DEF FlowInv, FlowTypes
      <3>3. q = [b EXCEPT !.count = n, !.force = fr]
        BY <2>1, <3>1, <3>2
      <3>4. PICK p : p = [b EXCEPT !.count = n]
        OBVIOUS
      <3>5. p \in Request /\ p.count = n /\ p.closes = b.closes
        BY <3>4 DEF Request
      <3>6. q = [p EXCEPT !.force = fr]
        BY <3>3, <3>4, Zenon
      <3>7. q \in Request /\ q.count = n /\ q.closes = b.closes /\ n <= n
        BY <3>5, <3>6 DEF Request
      <3> QED
        BY <3>1, <3>2, <3>7
    <2>3. work' = Append(work, q) /\ block' = [kind |-> "reset", forced |-> contents.force]
      BY <1>2, <2>1 DEF GetTokenAgain
    <2>4. work' \in Seq(Request) /\ \A r : InSeq(r, work') <=> (InSeq(r, work) \/ r = q)
      BY <2>2, <2>3, AppendFacts DEF FlowInv, FlowTypes
    <2>5. FlowTypes'
      BY <2>3, <2>4 DEF GetTokenAgain, FlowInv, FlowTypes, clientVars
    <2>6. \A r \in Request : /\ Pending(r)' => Pending(r) \/ r = q
                             /\ Pending(r) => Pending(r)' \/ r = block.request
                             /\ r = q => Pending(r)'
      BY <2>3, <2>4 DEF Pending, GetTokenAgain, clientVars
    <2>7. RequestInv'
      BY <1>1, <2>2, <2>6, Zenon
         DEF GetTokenAgain, FlowInv, RequestInv, Live, IsStarted, clientVars
    <2>8. LifeInv'
      BY <1>1, Zenon DEF GetTokenAgain, FlowInv, LifeInv, clientVars
    <2>9. StartingInv'
      BY <2>2, <2>6, Zenon DEF GetTokenAgain, FlowInv, StartingInv, clientVars
    <2> QED
      BY <2>5, <2>7, <2>8, <2>9 DEF FlowInv
  <1>3. CASE provider # "live"
    <2>1. restricted
      BY <1>1, <1>3 DEF FlowInv, FlowTypes, LifeInv
    <2>2. block' = NoBlock /\ UNCHANGED work
      BY <1>3 DEF GetTokenAgain
    <2>3. FlowTypes'
      BY <2>2 DEF GetTokenAgain, FlowInv, FlowTypes, clientVars
    <2>4. \A r \in Request : Pending(r)' => Pending(r)
      BY <2>2 DEF Pending, GetTokenAgain, clientVars, NoBlock
    <2> QED
      BY <2>1, <2>3, <2>4, RequestsMove DEF GetTokenAgain, clientVars
  <1> QED
    BY <1>2, <1>3

\* get_token_callback resets force_refresh.
LEMMA GetTokenAgainResetFlow ==
    ASSUME FlowInv, GetTokenAgainReset
    PROVE  FlowInv'
  <1>1. contents' \in [user : User, counter : Nat, force : BOOLEAN]
        /\ contents'.counter = contents.counter
    BY DEF GetTokenAgainReset, FlowInv, FlowTypes
  <1>2. FlowTypes'
    BY <1>1 DEF GetTokenAgainReset, FlowInv, FlowTypes, authVars, clientVars
  <1>3. \A r \in Request : Pending(r)' <=> Pending(r)
    BY DEF Pending, GetTokenAgainReset, authVars, clientVars, NoBlock
  <1> QED
    BY <1>1, <1>2, <1>3, RequestsMove DEF GetTokenAgainReset, authVars, clientVars

-----------------------------------------------------------------------------
(* The life of the client                                                  *)

\* The constructor reads the user.
LEMMA ConstructFlow ==
    ASSUME FlowInv, Construct
    PROVE  FlowInv'
  <1>1. contents' \in [user : User, counter : Nat, force : BOOLEAN]
        /\ contents'.counter = contents.counter
    BY DEF Construct, FlowInv, FlowTypes
  <1>2. FlowTypes'
    BY <1>1 DEF Construct, FlowInv, FlowTypes, authVars, clientVars
  <1>3. \A r \in Request : Pending(r)' <=> Pending(r)
    BY DEF Pending, Construct, authVars, clientVars
  <1>4. RequestInv'
    BY <1>1, <1>3, Zenon DEF Construct, FlowInv, RequestInv, Live, IsStarted, TokenIn, clientVars
  <1>5. LifeInv'
    BY <1>3 DEF Construct, FlowInv, LifeInv, InSeq, clientVars
  <1>6. StartingInv'
    BY <1>3, Zenon DEF Construct, FlowInv, StartingInv, TokenIn, clientVars
  <1> QED
    BY <1>2, <1>4, <1>5, <1>6 DEF FlowInv

\* The constructor adds the observer.
LEMMA AddObserverFlow ==
    ASSUME FlowInv, AddObserver
    PROVE  FlowInv'
  <1>1. FlowTypes'
    BY DEF AddObserver, FlowInv, FlowTypes, authVars, clientVars
  <1>2. \A r \in Request : Pending(r)' <=> Pending(r)
    BY DEF Pending, AddObserver, authVars, clientVars
  <1>3. RequestInv'
    BY <1>2, Zenon DEF AddObserver, FlowInv, RequestInv, Live, IsStarted, TokenIn, clientVars
  <1>4. LifeInv'
    BY <1>2 DEF AddObserver, FlowInv, LifeInv, InSeq, clientVars
  <1>5. StartingInv'
    BY <1>2, Zenon DEF AddObserver, FlowInv, StartingInv, TokenIn, clientVars
  <1> QED
    BY <1>1, <1>3, <1>4, <1>5 DEF FlowInv

\* FirestoreClient::Create() enqueues Initialize().
LEMMA CreateClientFlow ==
    ASSUME FlowInv, CreateClient
    PROVE  FlowInv'
  <1>1. PICK op : op = [kind |-> "change", user |-> contents.user]
    OBVIOUS
  <1>2. op \in Operation /\ op.kind = "change" /\ op # [kind |-> "terminate"]
    BY <1>1 DEF Operation, FlowInv, FlowTypes
  <1>3. queue \in Seq(Operation) /\ queue = <<>> /\ queue' = Append(queue, op)
    BY <1>1 DEF CreateClient, FlowInv, FlowTypes
  <1>4. queue' \in Seq(Operation) /\ \A x : InSeq(x, queue') <=> (InSeq(x, queue) \/ x = op)
    BY <1>2, <1>3, AppendFacts
  <1>5. \A c : TokenIn(c, queue') <=> (TokenIn(c, queue) \/ (op.kind = "token" /\ op.closes = c))
    BY <1>2, <1>3, QueueTokens
  <1>6. \A c : TokenIn(c, queue') <=> TokenIn(c, queue)
    BY <1>2, <1>5
  <1>7. FlowTypes'
    BY <1>4 DEF CreateClient, FlowInv, FlowTypes, authVars, clientVars
  <1>8. \A r \in Request : Pending(r)' <=> Pending(r)
    BY DEF Pending, CreateClient, authVars, clientVars
  <1>9. RequestInv'
    BY <1>6, <1>8, Zenon DEF CreateClient, FlowInv, RequestInv, Live, IsStarted, clientVars
  <1>10. LifeInv'
    BY <1>2, <1>4 DEF CreateClient, FlowInv, LifeInv, clientVars
  <1>11. StartingInv'
    BY <1>6, <1>8, Zenon DEF CreateClient, FlowInv, StartingInv, clientVars
  <1> QED
    BY <1>7, <1>9, <1>10, <1>11 DEF FlowInv

\* TerminateAsync() puts the worker queue into restricted mode.
LEMMA TerminateAsyncFlow ==
    ASSUME FlowInv, TerminateAsync
    PROVE  FlowInv'
  <1>1. PICK op : op = [kind |-> "terminate"]
    OBVIOUS
  <1>2. op \in Operation /\ op.kind # "token"
    BY <1>1 DEF Operation
  <1>3. queue \in Seq(Operation) /\ queue' = Append(queue, op)
    BY <1>1 DEF TerminateAsync, FlowInv, FlowTypes
  <1>4. queue' \in Seq(Operation)
    BY <1>2, <1>3, AppendFacts
  <1>5. \A c : TokenIn(c, queue') <=> (TokenIn(c, queue) \/ (op.kind = "token" /\ op.closes = c))
    BY <1>2, <1>3, QueueTokens
  <1>6. FlowTypes'
    BY <1>4 DEF TerminateAsync, FlowInv, FlowTypes, authVars, providerVars
  <1>7. \A r \in Request : Pending(r)' <=> Pending(r)
    BY DEF Pending, TerminateAsync, authVars, providerVars
  <1>8. RequestInv'
    BY <1>2, <1>5, <1>7, Zenon
       DEF TerminateAsync, FlowInv, RequestInv, Live, IsStarted, providerVars
  <1>9. LifeInv'
    BY DEF TerminateAsync, FlowInv, LifeInv, providerVars
  <1>10. StartingInv'
    BY DEF TerminateAsync, StartingInv
  <1> QED
    BY <1>6, <1>8, <1>9, <1>10 DEF FlowInv

-----------------------------------------------------------------------------
(* The worker queue                                                        *)

\* The worker takes an operation.
LEMMA QueueTail ==
    ASSUME FlowTypes, queue # <<>>, queue' = Tail(queue)
    PROVE  /\ Head(queue) \in Operation /\ queue' \in Seq(Operation)
           /\ \A c : TokenIn(c, queue) <=>
                  (TokenIn(c, queue') \/ (Head(queue).kind = "token" /\ Head(queue).closes = c))
           /\ InSeq([kind |-> "terminate"], queue') => InSeq([kind |-> "terminate"], queue)
  <1>1. queue \in Seq(Operation)
    BY DEF FlowTypes
  <1>2. /\ Head(queue) \in Operation /\ Tail(queue) \in Seq(Operation)
        /\ \A x : InSeq(x, queue) <=> (x = Head(queue) \/ InSeq(x, Tail(queue)))
    BY <1>1, TailFacts
  <1>3. \A c : TokenIn(c, queue) <=>
            (TokenIn(c, Tail(queue)) \/ (Head(queue).kind = "token" /\ Head(queue).closes = c))
    BY <1>1, QueueTokens
  <1> QED
    BY <1>2, <1>3, Zenon

\* What may be under way stays so when the stream is closed or goes on.
LEMMA StreamGoesOn ==
    ASSUME stream \in StreamState, stream' \in StreamState,
           \/ stream'.closes = stream.closes + 1
           \/ stream'.closes = stream.closes /\ (IsStarted(stream) => IsStarted(stream'))
    PROVE  \A c \in Nat : Live(c) => Live(c)'
  BY DEF Live, StreamState

\* Stream::Close() and Stream::Start().
LEMMA StreamChanges ==
    ASSUME NEW s \in StreamState, NEW state \in {"Initial", "Error"}
    PROVE  /\ Close(s, state) \in StreamState /\ Close(s, state).state = state
           /\ Close(s, state).closes = s.closes + 1
           /\ Starting(s) \in StreamState /\ Starting(s).state = "Starting"
           /\ Starting(s).closes = s.closes
           /\ [s EXCEPT !.state = state] \in StreamState
           /\ [s EXCEPT !.state = state].state = state
           /\ [s EXCEPT !.state = state].closes = s.closes
  BY DEF Close, Starting, StreamState, AccessToken

\* If the requests stay, RequestInv follows from what may be under way.
LEMMA RequestsStay ==
    ASSUME FlowInv, FlowTypes', \A c \in Nat : Live(c) => Live(c)',
           \A r \in Request : Pending(r)' => Pending(r),
           \A c : TokenIn(c, queue') => TokenIn(c, queue),
           contents'.counter = contents.counter,
           pc' \in {"count", "dispatch"} => stream'.state = "Starting",
           pc' = "dispatch" => request'.closes = stream'.closes
    PROVE  RequestInv'
  <1>1. \A r \in Request : r.closes \in Nat
    BY DEF Request
  <1> QED
    BY <1>1, Zenon DEF FlowInv, RequestInv

\* Initialize() and HandleCredentialChange(): the stream is closed, and its
\* requests with it.
LEMMA RunCredentialChangeFlow ==
    ASSUME FlowInv, NEW start \in BOOLEAN, RunCredentialChange(start)
    PROVE  FlowInv' /\ (\A c \in Nat : TokenIn(c, queue') => c # stream'.closes)
                    /\ stream'.state # "Open"
  <1>1. /\ queue # <<>> /\ pc = "idle" /\ Head(queue).kind = "change" /\ queue' = Tail(queue)
        /\ FlowTypes /\ (listening \/ restricted)
    BY DEF RunCredentialChange, Next1, FlowInv, LifeInv
  <1>2. /\ Head(queue) \in Operation /\ queue' \in Seq(Operation)
        /\ \A c : TokenIn(c, queue') <=> TokenIn(c, queue)
        /\ InSeq([kind |-> "terminate"], queue') => InSeq([kind |-> "terminate"], queue)
    BY <1>1, QueueTail
  <1>3. Head(queue).user \in User
    BY <1>1, <1>2 DEF Operation
  <1>4. stream \in StreamState
    BY <1>1 DEF FlowTypes
  <1>5. PICK stopped \in StreamState :
            /\ stopped.state = "Initial"
            /\ stream' = IF start THEN Starting(stopped) ELSE stopped
            /\ stopped.closes = IF IsStarted(stream) THEN stream.closes + 1 ELSE stream.closes
    <2>1. CASE IsStarted(stream)
      BY <1>4, <2>1, StreamChanges DEF RunCredentialChange
    <2>2. CASE ~IsStarted(stream)
      <3>1. PICK s : s = [stream EXCEPT !.state = "Initial"]
        OBVIOUS
      <3>2. s \in StreamState /\ s.state = "Initial" /\ s.closes = stream.closes
        BY <1>4, <3>1, StreamChanges
      <3>3. stream' = IF start THEN Starting(s) ELSE s
        BY <2>2, <3>1, Zenon DEF RunCredentialChange
      <3> QED
        BY <2>2, <3>2, <3>3
    <2> QED
      BY <2>1, <2>2
  <1>6. /\ stream' \in StreamState /\ stream'.closes = stopped.closes
        /\ stream'.state = IF start THEN "Starting" ELSE "Initial"
    BY <1>5, StreamChanges
  <1>7. FlowTypes'
    BY <1>2, <1>3, <1>6 DEF FlowInv, FlowTypes, RunCredentialChange, authVars, providerVars
  <1>8. \A r \in Request : Pending(r)' <=> Pending(r)
    BY <1>1 DEF Pending, RunCredentialChange, authVars, providerVars
  <1>9. \A c \in Nat : Live(c) => Live(c)'
    BY <1>4, <1>5, <1>6, StreamGoesOn
  <1>10. pc' = IF start THEN "count" ELSE "idle"
    BY DEF RunCredentialChange
  <1>11. RequestInv'
    BY <1>2, <1>6, <1>7, <1>8, <1>9, <1>10, RequestsStay DEF RunCredentialChange, providerVars
  <1>12. LifeInv'
    BY <1>1, <1>2, <1>10 DEF RunCredentialChange, FlowInv, LifeInv, providerVars
  <1>13. StartingInv'
    BY <1>6, <1>10 DEF StartingInv
  <1>14. ASSUME NEW c \in Nat, TokenIn(c, queue') PROVE c # stream'.closes
    <2>1. Live(c)
      BY <1>2, <1>14 DEF FlowInv, RequestInv
    <2> QED
      BY <1>4, <1>5, <1>6, <2>1 DEF Live, StreamState
  <1> QED
    BY <1>6, <1>7, <1>11, <1>12, <1>13, <1>14 DEF FlowInv

\* Stream::Start().
LEMMA StartStreamFlow ==
    ASSUME FlowInv, StartStream
    PROVE  FlowInv' /\ stream'.state = "Starting" /\ (\A c \in Nat : TokenIn(c, queue') => c # stream'.closes)
  <1>1. stream \in StreamState /\ (listening \/ restricted)
    BY DEF StartStream, FlowInv, FlowTypes, LifeInv
  <1>2. stream' \in StreamState /\ stream'.closes = stream.closes /\ stream'.state = "Starting"
    BY <1>1, StreamChanges DEF StartStream
  <1>3. FlowTypes'
    BY <1>2 DEF FlowInv, FlowTypes, StartStream, authVars, providerVars
  <1>4. \A r \in Request : Pending(r)' <=> Pending(r)
    BY DEF Pending, StartStream, authVars, providerVars
  <1>5. \A c \in Nat : Live(c) => Live(c)'
    BY <1>1, <1>2, StreamGoesOn DEF IsStarted
  <1>6. RequestInv'
    BY <1>2, <1>3, <1>4, <1>5, RequestsStay DEF StartStream, providerVars, TokenIn
  <1>7. LifeInv'
    BY <1>1 DEF StartStream, FlowInv, LifeInv, providerVars, InSeq
  <1>8. StartingInv'
    BY DEF StartStream, StartingInv
  <1>9. ASSUME NEW c \in Nat, TokenIn(c, queue') PROVE c # stream'.closes
    <2>1. TokenIn(c, queue)
      BY <1>9 DEF StartStream
    <2>2. Live(c)
      BY <2>1 DEF FlowInv, RequestInv
    <2> QED
      BY <1>1, <1>2, <2>2 DEF Live, StreamState, StartStream
  <1> QED
    BY <1>2, <1>3, <1>6, <1>7, <1>8, <1>9 DEF FlowInv

\* GetToken() on the worker reads token_counter.
LEMMA GetTokenCountFlow ==
    ASSUME FlowInv, GetTokenCount
    PROVE  FlowInv'
  <1>1. stream.state = "Starting" /\ stream \in StreamState
        /\ contents.counter \in Nat /\ contents.counter <= contents.counter
        /\ (listening \/ restricted)
    BY DEF GetTokenCount, FlowInv, FlowTypes, RequestInv, LifeInv
  <1>2. /\ request' \in Request /\ request'.count = contents.counter
        /\ request'.closes = stream.closes
    BY <1>1 DEF GetTokenCount, Request, StreamState
  <1>3. FlowTypes'
    BY <1>2 DEF FlowInv, FlowTypes, GetTokenCount, authVars, providerVars
  <1>4. \A r \in Request : /\ Pending(r)' <=> Pending(r) \/ r = request'
    BY DEF Pending, GetTokenCount, authVars, providerVars
  <1>5. Live(stream.closes)
    BY <1>1 DEF Live, IsStarted
  <1>6. RequestInv'
    <2>1. \A r \in Request : Pending(r)' => r.count <= contents.counter /\ Live(r.closes)
      BY <1>1, <1>2, <1>4, <1>5 DEF FlowInv, RequestInv
    <2> QED
      BY <1>1, <1>2, <2>1, Zenon
         DEF GetTokenCount, FlowInv, RequestInv, Live, IsStarted, providerVars
  <1>7. LifeInv'
    BY <1>1 DEF GetTokenCount, FlowInv, LifeInv, providerVars, InSeq
  <1>8. StartingInv'
    BY <1>2, <1>4, Zenon DEF GetTokenCount, StartingInv
  <1> QED
    BY <1>3, <1>6, <1>7, <1>8 DEF FlowInv

\* GetToken() on the worker passes its request on.
LEMMA GetTokenDispatchFlow ==
    ASSUME FlowInv, GetTokenDispatch
    PROVE  FlowInv'
  <1>1. /\ stream.state = "Starting" /\ request \in Request /\ request.closes = stream.closes
        /\ contents.force \in BOOLEAN /\ (listening \/ restricted) /\ pc = "dispatch"
    BY DEF GetTokenDispatch, FlowInv, FlowTypes, RequestInv, LifeInv
  <1>2. PICK q : q = [request EXCEPT !.force = contents.force]
    OBVIOUS
  <1>3. q \in Request /\ q.count = request.count /\ q.closes = request.closes
    BY <1>1, <1>2 DEF Request
  <1>4. work' \in Seq(Request) /\ \A r : InSeq(r, work') <=> (InSeq(r, work) \/ r = q)
    <2>1. work \in Seq(Request) /\ work' = Append(work, q)
      BY <1>2 DEF GetTokenDispatch, FlowInv, FlowTypes
    <2> QED
      BY <1>3, <2>1, AppendFacts
  <1>5. FlowTypes'
    BY <1>4 DEF FlowInv, FlowTypes, GetTokenDispatch, providerVars, Request, NoRequest
  <1>6. \A r \in Request : /\ Pending(r)' => Pending(r) \/ r = q
                           /\ r = q => Pending(r)'
    BY <1>4 DEF Pending, GetTokenDispatch, providerVars
  <1>7. Pending(request)
    BY <1>1 DEF Pending
  <1>8. \A r \in Request : Pending(r)' => r.count <= contents.counter /\ Live(r.closes)
    BY <1>1, <1>3, <1>6, <1>7, Zenon DEF FlowInv, RequestInv
  <1>9. RequestInv'
    BY <1>8, Zenon DEF GetTokenDispatch, FlowInv, RequestInv, Live, IsStarted, providerVars
  <1>10. LifeInv'
    BY <1>1 DEF GetTokenDispatch, FlowInv, LifeInv, providerVars, InSeq
  <1>11. StartingInv'
    BY <1>1, <1>3, <1>6, Zenon DEF GetTokenDispatch, StartingInv
  <1> QED
    BY <1>5, <1>9, <1>10, <1>11 DEF FlowInv

\* GetToken() on the worker resets force_refresh.
LEMMA GetTokenResetFlow ==
    ASSUME FlowInv, GetTokenReset
    PROVE  FlowInv'
  <1>1. contents' \in [user : User, counter : Nat, force : BOOLEAN]
        /\ contents'.counter = contents.counter
    BY DEF GetTokenReset, FlowInv, FlowTypes
  <1>2. FlowTypes'
    BY <1>1 DEF FlowInv, FlowTypes, GetTokenReset, authVars
  <1>3. \A r \in Request : Pending(r)' <=> Pending(r)
    BY DEF Pending, GetTokenReset, authVars
  <1>4. RequestInv'
    BY <1>1, <1>3, Zenon DEF GetTokenReset, FlowInv, RequestInv, Live, IsStarted, TokenIn
  <1>5. LifeInv'
    BY DEF GetTokenReset, FlowInv, LifeInv, InSeq
  <1>6. StartingInv'
    BY <1>3, Zenon DEF GetTokenReset, FlowInv, StartingInv, TokenIn
  <1> QED
    BY <1>2, <1>4, <1>5, <1>6 DEF FlowInv

\* What a token does to the stream it was requested for.
LEMMA RunTokenFacts ==
    ASSUME FlowInv, RunToken, NEW op, op = Head(queue)
    PROVE  /\ op \in Operation /\ op.kind = "token" /\ op.closes \in Nat
           /\ op.result \in Result /\ op.user \in User
           /\ \/ op.closes # stream.closes /\ stream' = stream
              \/ /\ op.closes = stream.closes /\ op.result = Failure
                 /\ stream' = Close(stream, "Error")
              \/ /\ op.closes = stream.closes /\ op.result # Failure
                 /\ stream' \in StreamState /\ stream'.state = "Open"
                 /\ stream'.token = op.result /\ stream'.closes = stream.closes
  <1>1. op = Head(queue)
    OBVIOUS
  <1>2. op \in Operation /\ op.kind = "token"
    BY <1>1, QueueTail DEF RunToken, Next1, FlowInv
  <1>3. op.closes \in Nat /\ op.result \in Result /\ op.user \in User
    BY <1>2 DEF Operation
  <1>4. stream \in StreamState
    BY DEF FlowInv, FlowTypes
  <1>5. CASE op.closes = stream.closes /\ op.result # Failure
    <2>1. PICK t \in AccessToken : t = op.result
      BY <1>3, <1>5 DEF Result
    <2>2. stream' = [stream EXCEPT !.state = "Open", !.token = t]
      BY <1>1, <1>5, <2>1 DEF RunToken
    <2>3. PICK s : s = [stream EXCEPT !.state = "Open"]
      OBVIOUS
    <2>4. s \in StreamState /\ s.state = "Open" /\ s.closes = stream.closes
      BY <1>4, <2>3 DEF StreamState
    <2>5. stream' = [s EXCEPT !.token = t]
      BY <2>2, <2>3, Zenon
    <2>6. /\ stream' \in StreamState /\ stream'.state = "Open"
          /\ stream'.token = t /\ stream'.closes = stream.closes
      BY <2>4, <2>5 DEF StreamState
    <2> QED
      BY <1>1, <1>2, <1>3, <1>5, <2>1, <2>6
  <1>6. CASE op.closes # stream.closes
    <2>1. stream' = stream
      BY <1>1, <1>6 DEF RunToken
    <2> QED
      BY <1>2, <1>3, <1>6, <2>1, Zenon
  <1>7. CASE op.closes = stream.closes /\ op.result = Failure
    <2>1. stream' = Close(stream, "Error")
      BY <1>1, <1>7 DEF RunToken
    <2> QED
      BY <1>1, <1>2, <1>3, <1>7, <2>1
  <1> QED
    BY <1>5, <1>6, <1>7

\* ResumeStartWithCredentials(), if the stream still wants the token.
LEMMA RunTokenFlow ==
    ASSUME FlowInv, RunToken
    PROVE  FlowInv'
  <1>1. PICK op : op = Head(queue)
    OBVIOUS
  <1>2. /\ op.closes \in Nat
        /\ \/ op.closes # stream.closes /\ stream' = stream
           \/ op.closes = stream.closes /\ stream' = Close(stream, "Error")
           \/ /\ op.closes = stream.closes
              /\ stream' \in StreamState /\ stream'.state = "Open"
              /\ stream'.closes = stream.closes
    BY <1>1, RunTokenFacts
  <1>3. /\ queue # <<>> /\ queue' = Tail(queue) /\ pc = "idle" /\ op.kind = "token"
        /\ (listening \/ restricted) /\ FlowTypes /\ stream \in StreamState
    BY <1>1 DEF RunToken, Next1, FlowInv, LifeInv, FlowTypes
  <1>4. /\ queue' \in Seq(Operation)
        /\ \A c : TokenIn(c, queue) <=> (TokenIn(c, queue') \/ op.closes = c)
        /\ InSeq([kind |-> "terminate"], queue') => InSeq([kind |-> "terminate"], queue)
    BY <1>1, <1>3, QueueTail
  <1>5. /\ stream' \in StreamState
        /\ \/ stream'.closes = stream.closes + 1 /\ stream'.state = "Error"
           \/ stream'.closes = stream.closes /\ stream'.state = "Open"
           \/ stream' = stream
    <2>1. Close(stream, "Error") \in StreamState /\ Close(stream, "Error").state = "Error"
          /\ Close(stream, "Error").closes = stream.closes + 1
      BY <1>3, StreamChanges
    <2> QED
      BY <1>2, <1>3, <2>1
  <1>6. FlowTypes'
    BY <1>4, <1>5 DEF FlowInv, FlowTypes, RunToken, authVars, providerVars
  <1>7. \A r \in Request : Pending(r)' <=> Pending(r)
    BY DEF Pending, RunToken, authVars, providerVars
  <1>8. \A c \in Nat : Live(c) => Live(c)'
    BY <1>3, <1>5, StreamGoesOn DEF IsStarted
  <1>9. RequestInv'
    BY <1>3, <1>4, <1>6, <1>7, <1>8, RequestsStay DEF RunToken, providerVars
  <1>10. LifeInv'
    BY <1>3, <1>4 DEF RunToken, FlowInv, LifeInv, providerVars
  <1>11. StartingInv'
    <2>1. CASE op.closes # stream.closes /\ stream' = stream
      BY <1>4, <1>7, <2>1, Zenon DEF RunToken, FlowInv, StartingInv
    <2>2. CASE stream'.state # "Starting"
      BY <2>2 DEF StartingInv
    <2> QED
      BY <1>2, <1>3, <2>1, <2>2, StreamChanges
  <1> QED
    BY <1>6, <1>9, <1>10, <1>11 DEF FlowInv

\* The stream is closed while the worker is not in GetToken().
LEMMA CloseFlow ==
    ASSUME FlowInv, pc = "idle", stream.state # "Initial",
           NEW state \in {"Initial", "Error"}, stream' = Close(stream, state),
           contents' \in [user : User, counter : Nat, force : BOOLEAN],
           contents'.counter = contents.counter,
           UNCHANGED <<authVars, provider, listening, block, restricted, pc, request, engine,
                       main, queue>>
    PROVE  FlowInv' /\ stream'.state # "Open" /\ (\A c \in Nat : TokenIn(c, queue') => c # stream'.closes)
  <1>1. stream \in StreamState /\ (listening \/ restricted)
    BY DEF FlowInv, FlowTypes, LifeInv
  <1>2. stream' \in StreamState /\ stream'.closes = stream.closes + 1 /\ stream'.state = state
    BY <1>1, StreamChanges
  <1>3. FlowTypes'
    BY <1>2 DEF FlowInv, FlowTypes, authVars
  <1>4. \A r \in Request : Pending(r)' <=> Pending(r)
    BY DEF Pending, authVars
  <1>5. \A c \in Nat : Live(c) => Live(c)'
    BY <1>1, <1>2, StreamGoesOn
  <1>6. RequestInv'
    BY <1>3, <1>4, <1>5, RequestsStay DEF TokenIn
  <1>7. LifeInv'
    BY <1>1 DEF FlowInv, LifeInv, InSeq
  <1>8. StartingInv'
    BY <1>2 DEF StartingInv
  <1>9. ASSUME NEW c \in Nat, TokenIn(c, queue') PROVE c # stream'.closes
    <2>1. Live(c)
      BY <1>9 DEF FlowInv, RequestInv
    <2> QED
      BY <1>1, <1>2, <2>1 DEF Live, StreamState
  <1> QED
    BY <1>2, <1>3, <1>6, <1>7, <1>8, <1>9 DEF FlowInv

\* Stream::Stop().
LEMMA StopStreamFlow ==
    ASSUME FlowInv, StopStream
    PROVE  FlowInv' /\ stream'.state # "Open" /\ (\A c \in Nat : TokenIn(c, queue') => c # stream'.closes)
  <1>1. /\ pc = "idle" /\ stream.state # "Initial" /\ stream' = Close(stream, "Initial")
        /\ contents' = contents
    BY DEF StopStream, IsStarted, providerVars
  <1>2. contents' \in [user : User, counter : Nat, force : BOOLEAN]
    BY <1>1 DEF FlowInv, FlowTypes
  <1> QED
    BY <1>1, <1>2, CloseFlow DEF StopStream, providerVars

\* OnStreamFinish() with an error.
LEMMA StreamFinishFlow ==
    ASSUME FlowInv, NEW unauthenticated \in BOOLEAN, StreamFinish(unauthenticated)
    PROVE  FlowInv' /\ stream'.state # "Open" /\ (\A c \in Nat : TokenIn(c, queue') => c # stream'.closes)
  <1>1. pc = "idle" /\ stream.state # "Initial" /\ stream' = Close(stream, "Error")
    BY DEF StreamFinish
  <1>2. contents' \in [user : User, counter : Nat, force : BOOLEAN]
        /\ contents'.counter = contents.counter
    BY DEF FlowInv, FlowTypes, StreamFinish
  <1> QED
    BY <1>1, <1>2, CloseFlow DEF StreamFinish

\* SetCredentialChangeListener(nullptr).
LEMMA RemoveListenerFlow ==
    ASSUME FlowInv, RemoveListener
    PROVE  FlowInv' /\ restricted
  <1>1. queue # <<>> /\ Head(queue).kind = "terminate" /\ pc = "idle"
    BY DEF RemoveListener, Next1
  <1>2. /\ queue \in Seq(Operation)
        /\ Head(queue) \in Operation
        /\ \A x : InSeq(x, queue) <=> (x = Head(queue) \/ InSeq(x, Tail(queue)))
    BY <1>1, TailFacts DEF FlowInv, FlowTypes
  <1>3. Head(queue) = [kind |-> "terminate"]
    BY <1>1, <1>2 DEF Operation
  <1>4. InSeq([kind |-> "terminate"], queue)
    BY <1>2, <1>3, Zenon
  <1>5. restricted
    BY <1>4 DEF FlowInv, LifeInv
  <1>6. FlowTypes'
    BY DEF FlowInv, FlowTypes, RemoveListener, authVars
  <1>7. \A r \in Request : Pending(r)' <=> Pending(r)
    BY <1>1 DEF Pending, RemoveListener, authVars
  <1>8. RequestInv'
    BY <1>7 DEF RemoveListener, FlowInv, RequestInv, Live, IsStarted, TokenIn
  <1>9. LifeInv'
    BY <1>1, <1>5 DEF RemoveListener, FlowInv, LifeInv
  <1>10. StartingInv'
    BY <1>5 DEF RemoveListener, StartingInv
  <1> QED
    BY <1>5, <1>6, <1>8, <1>9, <1>10 DEF FlowInv

\* RemoteStore::Shutdown().
LEMMA ShutdownFlow ==
    ASSUME FlowInv, Shutdown
    PROVE  FlowInv' /\ restricted /\ stream'.state # "Open"
                    /\ (\A c \in Nat : TokenIn(c, queue') => c # stream'.closes)
  <1>1. /\ queue # <<>> /\ restricted /\ queue' = Tail(queue) /\ FlowTypes
        /\ stream \in StreamState
    BY DEF Shutdown, FlowInv, LifeInv, FlowTypes
  <1>2. /\ queue' \in Seq(Operation) /\ \A c : TokenIn(c, queue') => TokenIn(c, queue)
    BY <1>1, QueueTail
  <1>3. /\ stream' \in StreamState /\ ~IsStarted(stream')
        /\ stream'.closes = IF IsStarted(stream) THEN stream.closes + 1 ELSE stream.closes
    BY <1>1, StreamChanges DEF Shutdown, IsStarted
  <1>4. FlowTypes'
    BY <1>2, <1>3 DEF FlowInv, FlowTypes, Shutdown, authVars
  <1>5. \A r \in Request : Pending(r)' <=> Pending(r)
    BY DEF Pending, Shutdown, authVars
  <1>6. \A c \in Nat : Live(c) => Live(c)'
    BY <1>1, <1>3, StreamGoesOn
  <1>7. RequestInv'
    BY <1>2, <1>4, <1>5, <1>6, RequestsStay DEF Shutdown
  <1>8. LifeInv'
    BY <1>1 DEF Shutdown, LifeInv
  <1>9. StartingInv'
    BY <1>1 DEF Shutdown, StartingInv
  <1>10. ASSUME NEW c \in Nat, TokenIn(c, queue') PROVE c # stream'.closes
    <2>1. Live(c)
      BY <1>2, <1>10 DEF FlowInv, RequestInv
    <2> QED
      BY <1>1, <1>3, <2>1 DEF Live, StreamState
  <1> QED
    BY <1>1, <1>3, <1>4, <1>7, <1>8, <1>9, <1>10 DEF FlowInv, IsStarted

-----------------------------------------------------------------------------
\* FlowInv holds in the initial states.
LEMMA InitFlow == Init => FlowInv
  <1> SUFFICES ASSUME Init PROVE FlowInv
    OBVIOUS
  <1>1. PICK u \in User : auth = [user |-> u, notified |-> Token(u, 1)]
    BY DEF Init, User
  <1>2. Token(u, 1) \in AccessToken
    BY TokenFacts DEF Token, User, AccessToken
  <1>3. \A x : ~InSeq(x, <<>>)
    BY EmptyFacts
  <1>4. service = [v \in Users |-> <<>>] /\ main = <<>> /\ work = <<>> /\ queue = <<>>
        /\ block = NoBlock /\ pc = "idle"
    BY DEF Init
  <1>5. FlowTypes
    <2>1. auth \in [user : User, notified : AccessToken] /\ token \in [Users -> Nat]
      BY <1>1, <1>2 DEF Init
    <2>2. /\ work \in Seq(Request) /\ service \in [Users -> Seq(Request)]
          /\ main \in Seq(MainBlock) /\ queue \in Seq(Operation)
      BY <1>4, EmptyFacts
    <2>3. /\ contents \in [user : User, counter : Nat, force : BOOLEAN]
          /\ request \in Request /\ stream \in StreamState
      BY DEF Init, NoRequest, Request, StreamState, AccessToken, User
    <2> QED
      BY <1>4, <2>1, <2>2, <2>3 DEF Init, FlowTypes
  <1>6. \A r \in Request : ~Pending(r)
    BY <1>3, <1>4 DEF Pending, CallbackIn, NoBlock
  <1>7. \A c : ~TokenIn(c, queue)
    BY <1>3, <1>4 DEF TokenIn
  <1>8. RequestInv
    BY <1>4, <1>6, <1>7, Zenon DEF RequestInv
  <1>9. LifeInv
    BY <1>3, <1>4, <1>6 DEF LifeInv, Init
  <1>10. StartingInv
    BY DEF StartingInv, Init
  <1> QED
    BY <1>5, <1>8, <1>9, <1>10 DEF FlowInv

\* Every step preserves FlowInv.
LEMMA NextFlow == FlowInv /\ [Next]_vars => FlowInv'
  <1> SUFFICES ASSUME FlowInv, [Next]_vars PROVE FlowInv'
    OBVIOUS
  <1>1. CASE AuthStep
    BY <1>1, GetTokenForcingRefreshFlow, FetchCachedFlow, FetchRefreshedFlow, FetchFailedFlow
       DEF AuthStep
  <1>2. CASE MainStep
    BY <1>2, EnterBlockFlow, AuthStateDidChangeFlow, GetTokenCallbackFlow, GetTokenAgainFlow,
       GetTokenAgainResetFlow DEF MainStep
  <1>3. CASE WorkerStep
    BY <1>3, RunCredentialChangeFlow, GetTokenCountFlow, GetTokenDispatchFlow, GetTokenResetFlow,
       RunTokenFlow, RemoveListenerFlow, ShutdownFlow DEF WorkerStep
  <1>4. CASE Environment
    BY <1>4, UpdateCurrentUserFlow, AutoRefreshFlow, ConstructFlow, AddObserverFlow,
       CreateClientFlow, TerminateAsyncFlow, StartStreamFlow, StopStreamFlow, StreamFinishFlow
       DEF Environment, User
  <1>5. CASE UNCHANGED vars
    <2>1. FlowTypes'
      BY <1>5 DEF FlowInv, FlowTypes, vars, authVars, providerVars, clientVars
    <2>2. \A r \in Request : Pending(r)' <=> Pending(r)
      BY <1>5 DEF Pending, vars, authVars, providerVars, clientVars
    <2> QED
      BY <1>5, <2>1, <2>2, RequestsMove DEF vars, authVars, providerVars, clientVars
  <1> QED
    BY <1>1, <1>2, <1>3, <1>4, <1>5 DEF Next

\* The requests of GetToken() are always where FlowInv says.
LEMMA FlowInvariant == Spec => []FlowInv
  BY InitFlow, NextFlow, PTL DEF Spec

\* Every variable always has its type.
THEOREM CredentialTypes == Spec => []CredentialTypeOK
  BY FlowInvariant, FlowConsequences, PTL

\* A stream that waits for its token has not been forgotten: whatever Auth, the
\* main queue and the worker do, its request or the answer is in one of the queues.
THEOREM StartingStreams == Spec => []StartingStreamHasRequest
  BY FlowInvariant, FlowConsequences, PTL

-----------------------------------------------------------------------------
(* The invariant of users                                                  *)

\* The provider has read the user and not been told to forget about him.
Watching == provider \in {"constructing", "live"}

\* With the main queue m, the observer is to learn of a change.
NotifyDue(m) == block.kind = "notify" \/ Has(m, "notify")

\* The last notification is for the current user of FIRAuth, a; if there is none
\* left, the provider knows him.
NotifyInv(m, a) ==
    /\ UserOf(a.notified) = a.user
    /\ \A x \in LastOf(m, "notify") : x.user = a.user
    /\ block.kind = "notify" /\ ~Has(m, "notify") => block.user = a.user
    /\ Watching /\ ~NotifyDue(m) => contents.user = a.user

\* The answer to r for the user u is out of date or fits the provider.
Fits(r, u) == r.count < contents.counter \/ u = contents.user

\* An answer on the main queue m, or of the token services s, that no notification
\* will overtake is out of date, or fits.
AnswerInv(m, s) ==
    Watching =>
        /\ ~NotifyDue(m) => \A u \in Users, r \in Request :
               InSeq(r, s[u]) => Fits(r, u)
        /\ block.kind # "notify" => \A x \in Ahead(m, "notify") :
               x.kind = "callback" /\ x.result # Failure => Fits(x.request, UserOf(x.result))
        /\ block.kind = "callback" /\ block.result # Failure =>
               Fits(block.request, UserOf(block.result))

ProviderInv == NotifyInv(main, auth) /\ AnswerInv(main, service)

\* The last change on the worker queue makes the user of the provider that of
\* the engine.
EngineInv ==
    listening /\ ~restricted =>
        /\ \A x \in LastOf(queue, "change") : x.user = contents.user
        /\ ~Has(queue, "change") => engine = contents.user

\* A token that the stream will accept has the user of the engine, unless the
\* stream is restarted before.
TokenInv ==
    \A x \in Ahead(queue, "change") :
        x.kind = "token" /\ x.closes = stream.closes /\ x.result # Failure => x.user = engine

\* A token on the worker queue is for the user it names.
PairInv ==
    \A x \in Operation : InSeq(x, queue) /\ x.kind = "token" /\ x.result # Failure =>
        UserOf(x.result) = x.user

ClientInv == EngineInv /\ TokenInv /\ PairInv /\ StreamActsForEngineUser

-----------------------------------------------------------------------------
(* What the provider knows                                                 *)

\* A notification for the user of a leaves the answers before it behind.
LEMMA NotifyOrder ==
    ASSUME FlowTypes, NEW s, AnswerInv(main, service), NEW a, UserOf(a.notified) = a.user, a.user \in User,
           NEW m, m = Append(main, [kind |-> "notify", user |-> a.user])
    PROVE  m \in Seq(MainBlock) /\ NotifyInv(m, a) /\ AnswerInv(m, s)
  <1>1. PICK n \in MainBlock : n = [kind |-> "notify", user |-> a.user]
    BY DEF MainBlock
  <1>2. main \in Seq(MainBlock) /\ m = Append(main, n) /\ n.kind = "notify" /\ n.user = a.user
    BY <1>1 DEF FlowTypes
  <1>3. m \in Seq(MainBlock) /\ Has(m, "notify")
    BY <1>2, AppendFacts
  <1>4. /\ \A x \in Ahead(m, "notify") : x \in Ahead(main, "notify") \/ x = n
        /\ \A x \in LastOf(m, "notify") : x = n
    BY <1>2, AppendOrder
  <1>5. NotifyInv(m, a)
    BY <1>2, <1>3, <1>4 DEF NotifyInv, NotifyDue
  <1>6. AnswerInv(m, s)
    BY <1>2, <1>3, <1>4 DEF AnswerInv, NotifyDue
  <1> QED
    BY <1>3, <1>5, <1>6

\* The callback of q with the answer v goes behind what is on the main queue.
LEMMA CallbackOrder ==
    ASSUME NEW m \in Seq(MainBlock), NEW a, NEW s, NEW t, NotifyInv(m, a), AnswerInv(m, s),
           NEW q \in Request, NEW v \in Result,
           Watching /\ ~NotifyDue(m) /\ v # Failure => Fits(q, UserOf(v)),
           \A u \in Users, r \in Request : InSeq(r, t[u]) => InSeq(r, s[u]),
           NEW k, k = m \o Callback(q, v)
    PROVE  NotifyInv(k, a) /\ AnswerInv(k, t)
  <1>1. PICK c \in MainBlock : c = [kind |-> "callback", request |-> q, result |-> v]
    BY DEF MainBlock
  <1>2. k = Append(m, c)
    BY <1>1, CallbackFacts
  <1>3. c.kind = "callback" /\ c.request = q /\ c.result = v /\ c.kind # "notify"
    BY <1>1
  <1>4. Has(k, "notify") <=> Has(m, "notify")
    BY <1>2, <1>3, AppendFacts
  <1>5. /\ \A x \in Ahead(k, "notify") : x \in Ahead(m, "notify") \/ (x = c /\ ~Has(m, "notify"))
        /\ \A x \in LastOf(k, "notify") : x \in LastOf(m, "notify")
    BY <1>2, <1>3, AppendOrder
  <1>6. NotifyInv(k, a)
    BY <1>4, <1>5 DEF NotifyInv, NotifyDue
  <1>7. AnswerInv(k, t)
    BY <1>3, <1>4, <1>5 DEF AnswerInv, NotifyDue
  <1> QED
    BY <1>6, <1>7

\* Else, the invariant of the provider depends on block, provider and contents.
LEMMA ProviderStep ==
    ASSUME NotifyInv(main', auth'), AnswerInv(main', service'),
           UNCHANGED <<block, provider>>,
           contents'.user = contents.user, contents'.counter = contents.counter
    PROVE  ProviderInv'
  BY Zenon DEF ProviderInv, NotifyInv, AnswerInv, NotifyDue, Watching, Fits

\* A change of the user is always notified.
LEMMA UpdateCurrentUserProvider ==
    ASSUME FlowInv, ProviderInv, NEW u \in User, UpdateCurrentUser(u)
    PROVE  ProviderInv'
  <1>1. PICK t \in AccessToken : /\ auth' = [user |-> u, notified |-> t] /\ UserOf(t) = u
                                 /\ main' = main \o Notification(u, t)
    BY TokenFacts, CredentialAssumption
       DEF UpdateCurrentUser, FlowInv, FlowTypes, User, AccessToken, UserOf
  <1>2. auth'.user = u /\ UserOf(auth'.notified) = auth'.user
    BY <1>1
  <1>3. t # auth.notified
    BY <1>1 DEF UpdateCurrentUser, ProviderInv, NotifyInv
  <1>4. main' = Append(main, [kind |-> "notify", user |-> u])
    BY <1>1, <1>3, NotificationFacts DEF FlowInv, FlowTypes
  <1>5. NotifyInv(main', auth') /\ AnswerInv(main', service')
    BY <1>2, <1>4, NotifyOrder DEF FlowInv, ProviderInv
  <1> QED
    BY <1>5, ProviderStep DEF UpdateCurrentUser, providerVars

\* A request gets the token of the user that FIRAuth has now.
LEMMA GetTokenForcingRefreshProvider ==
    ASSUME FlowInv, ProviderInv, GetTokenForcingRefresh
    PROVE  ProviderInv'
  <1> DEFINE q == Head(work)
  <1>1. q \in Request
    BY TailFacts DEF GetTokenForcingRefresh, FlowInv, FlowTypes
  <1>2. Watching /\ ~NotifyDue(main) => Fits(q, auth.user)
    BY DEF ProviderInv, NotifyInv, Fits
  <1>3. main \in Seq(MainBlock) /\ NotifyInv(main, auth) /\ AnswerInv(main, service)
    BY DEF FlowInv, FlowTypes, ProviderInv
  <1>4. CASE auth.user = Nobody
    <2>1. main' = main \o Callback(q, Nobody) /\ service' = service /\ auth' = auth
      BY <1>4 DEF GetTokenForcingRefresh
    <2>2. Nobody \in Result /\ UserOf(Nobody) = auth.user
      BY <1>4 DEF Result, AccessToken, UserOf
    <2>3. NotifyInv(main', auth) /\ AnswerInv(main', service)
      BY <1>1, <1>2, <1>3, <2>1, <2>2, CallbackOrder
    <2>4. NotifyInv(main', auth') /\ AnswerInv(main', service')
      BY <2>1, <2>3
    <2> QED
      BY <2>4, ProviderStep DEF GetTokenForcingRefresh, providerVars
  <1>5. CASE auth.user # Nobody
    <2>1. PICK u \in Users : u = auth.user
      BY <1>5 DEF FlowInv, FlowTypes, User
    <2>2. service \in [Users -> Seq(Request)] /\ service[u] \in Seq(Request)
      BY DEF FlowInv, FlowTypes
    <2>3. service' = [service EXCEPT ![u] = Append(@, q)] /\ main' = main /\ auth' = auth
      BY <1>5, <2>1 DEF GetTokenForcingRefresh
    <2>4. \A r : InSeq(r, Append(service[u], q)) <=> (InSeq(r, service[u]) \/ r = q)
      BY <1>1, <2>2, AppendFacts
    <2>5. service'[u] = Append(service[u], q) /\ \A v \in Users : v # u => service'[v] = service[v]
      BY <2>2, <2>3
    <2>6. \A v \in Users, r \in Request :
              InSeq(r, service'[v]) => InSeq(r, service[v]) \/ (v = u /\ r = q)
      BY <2>4, <2>5, Zenon
    <2>7. AnswerInv(main, service')
      BY <1>2, <1>3, <2>1, <2>6 DEF AnswerInv
    <2>8. NotifyInv(main', auth') /\ AnswerInv(main', service')
      BY <1>3, <2>3, <2>7
    <2> QED
      BY <2>8, ProviderStep DEF GetTokenForcingRefresh, providerVars
  <1> QED
    BY <1>4, <1>5

\* A token service answers for its user, behind the notifications.
LEMMA AnswerProvider ==
    ASSUME FlowInv, NEW u \in Users, service[u] # <<>>, AnswerInv(main, service),
           service' = [service EXCEPT ![u] = Tail(@)],
           NEW m \in Seq(MainBlock), NotifyInv(m, auth'), AnswerInv(m, service),
           NEW v \in Result, v # Failure => UserOf(v) = u,
           main' = m \o Callback(Head(service[u]), v),
           UNCHANGED <<block, provider, contents>>
    PROVE  ProviderInv'
  <1> DEFINE q == Head(service[u])
  <1>1. /\ q \in Request
        /\ \A r, w : w \in Users /\ InSeq(r, service'[w]) => InSeq(r, service[w])
    BY ServiceTail DEF FlowInv
  <1>2. InSeq(q, service[u])
    BY TailFacts DEF FlowInv, FlowTypes
  <1>3. Watching /\ ~NotifyDue(m) /\ v # Failure => Fits(q, UserOf(v))
    BY <1>1, <1>2 DEF AnswerInv
  <1>4. NotifyInv(main', auth') /\ AnswerInv(main', service')
    <2>1. \A w \in Users, r \in Request : InSeq(r, service'[w]) => InSeq(r, service[w])
      BY <1>1
    <2>2. main' = m \o Callback(q, v)
      OBVIOUS
    <2> HIDE DEF q
    <2> QED
      BY <1>1, <1>3, <2>1, <2>2, CallbackOrder
  <1> QED
    BY <1>4, ProviderStep

\* The cached token is that of the user.
LEMMA FetchCachedProvider ==
    ASSUME FlowInv, ProviderInv, NEW u \in Users, FetchCached(u)
    PROVE  ProviderInv'
  <1>1. Token(u, token[u]) \in Result /\ UserOf(Token(u, token[u])) = u
    BY TokenFacts DEF FlowInv, FlowTypes, Result
  <1>2. main \in Seq(MainBlock) /\ NotifyInv(main, auth') /\ AnswerInv(main, service)
    BY DEF FlowInv, FlowTypes, ProviderInv, FetchCached
  <1> QED
    BY <1>1, <1>2, AnswerProvider DEF FetchCached, providerVars

\* A new access token of the current user may be notified.
LEMMA RefreshedProvider ==
    ASSUME FlowInv, ProviderInv, NEW u \in Users, NEW callback, Refreshed(u, callback)
    PROVE  \E m \in Seq(MainBlock) :
               /\ NotifyInv(m, auth') /\ AnswerInv(m, service)
               /\ main' = m \o callback
  <1> DEFINE t == Token(u, token[u] + 1)
  <1>1. UserOf(t) = u
    BY TokenFacts DEF FlowInv, FlowTypes
  <1>2. main \in Seq(MainBlock) /\ NotifyInv(main, auth) /\ AnswerInv(main, service) /\ FlowTypes
    BY DEF FlowInv, FlowTypes, ProviderInv
  <1>3. CASE u = auth.user
    <2>1. auth' = [auth EXCEPT !.notified = t] /\ main' = main \o Notification(u, t) \o callback
      BY <1>3 DEF Refreshed
    <2> HIDE DEF t
    <2>2. auth'.user = u /\ auth'.notified = t /\ u \in User
      BY <1>2, <1>3, <2>1 DEF FlowTypes, User
    <2>3. CASE t = auth.notified
      <3>1. main' = main \o callback
        BY <1>2, <2>1, <2>2, <2>3, NotificationFacts
      <3>2. NotifyInv(main, auth')
        BY <1>1, <1>2, <1>3, <2>2 DEF NotifyInv
      <3> QED
        BY <1>2, <3>1, <3>2
    <2>4. CASE t # auth.notified
      <3>1. PICK m : m = main \o Notification(u, t)
        OBVIOUS
      <3>2. m = Append(main, [kind |-> "notify", user |-> auth'.user])
        BY <1>2, <2>2, <2>4, <3>1, NotificationFacts
      <3>3. m \in Seq(MainBlock) /\ NotifyInv(m, auth') /\ AnswerInv(m, service)
        BY <1>1, <1>2, <2>2, <3>2, NotifyOrder
      <3>4. main' = m \o callback
        BY <2>1, <3>1, Zenon
      <3> QED
        BY <3>3, <3>4
    <2> QED
      BY <2>3, <2>4
  <1>4. CASE u # auth.user
    <2>1. main' = main \o callback /\ auth' = auth
      BY <1>4 DEF Refreshed
    <2> QED
      BY <1>2, <2>1
  <1> QED
    BY <1>3, <1>4

\* The new token is that of the user.
LEMMA FetchRefreshedProvider ==
    ASSUME FlowInv, ProviderInv, NEW u \in Users, FetchRefreshed(u)
    PROVE  ProviderInv'
  <1> DEFINE v == Token(u, token[u] + 1)
             c == Callback(Head(service[u]), v)
  <1>1. v \in Result /\ UserOf(v) = u
    BY TokenFacts DEF FlowInv, FlowTypes, Result
  <1>2. Refreshed(u, c)
    BY DEF FetchRefreshed
  <1> HIDE DEF v
  <1>3. PICK m \in Seq(MainBlock) :
            NotifyInv(m, auth') /\ AnswerInv(m, service) /\ main' = m \o c
    BY <1>2, RefreshedProvider
  <1>4. /\ service[u] # <<>> /\ service' = [service EXCEPT ![u] = Tail(@)]
        /\ AnswerInv(main, service) /\ UNCHANGED <<block, provider, contents>>
    BY DEF FetchRefreshed, providerVars, ProviderInv
  <1> QED
    BY <1>1, <1>3, <1>4, AnswerProvider

\* Signing out is notified before the failure is answered.
LEMMA FetchFailedProvider ==
    ASSUME FlowInv, ProviderInv, NEW u \in Users, NEW signOut \in BOOLEAN, FetchFailed(u, signOut)
    PROVE  ProviderInv'
  <1>1. Failure \in Result /\ Nobody \in User /\ UserOf(Nobody) = Nobody
    BY DEF Result, User, UserOf
  <1>2. main \in Seq(MainBlock) /\ NotifyInv(main, auth) /\ AnswerInv(main, service) /\ FlowTypes
    BY DEF FlowInv, FlowTypes, ProviderInv
  <1>3. \E m \in Seq(MainBlock) :
            /\ NotifyInv(m, auth') /\ AnswerInv(m, service)
            /\ main' = m \o Callback(Head(service[u]), Failure)
    <2>1. CASE signOut /\ u = auth.user
      <3>1. PICK m : m = main \o Notification(Nobody, Nobody)
        OBVIOUS
      <3>2. auth' = [user |-> Nobody, notified |-> Nobody]
            /\ main' = m \o Callback(Head(service[u]), Failure)
        BY <2>1, <3>1, Zenon DEF FetchFailed
      <3>3. auth'.user = Nobody /\ auth'.notified = Nobody
        BY <3>2
      <3>4. auth.notified # Nobody
        BY <1>1, <1>2, <2>1, CredentialAssumption DEF NotifyInv
      <3>5. m = Append(main, [kind |-> "notify", user |-> auth'.user])
        BY <1>1, <1>2, <3>1, <3>3, <3>4, NotificationFacts
      <3>6. m \in Seq(MainBlock) /\ NotifyInv(m, auth') /\ AnswerInv(m, service)
        BY <1>1, <1>2, <3>3, <3>5, NotifyOrder
      <3> QED
        BY <3>2, <3>6
    <2>2. CASE ~(signOut /\ u = auth.user)
      <3>1. main' = main \o Callback(Head(service[u]), Failure) /\ auth' = auth
        BY <2>2, Zenon DEF FetchFailed
      <3> QED
        BY <1>2, <3>1
    <2> QED
      BY <2>1, <2>2
  <1>4. PICK m \in Seq(MainBlock) :
            /\ NotifyInv(m, auth') /\ AnswerInv(m, service)
            /\ main' = m \o Callback(Head(service[u]), Failure)
    BY <1>3
  <1>5. /\ service[u] # <<>> /\ service' = [service EXCEPT ![u] = Tail(@)]
        /\ UNCHANGED <<block, provider, contents>>
    BY DEF FetchFailed, providerVars
  <1> QED
    BY <1>1, <1>2, <1>4, <1>5, AnswerProvider

\* A refresh does not change the user.
LEMMA AutoRefreshProvider ==
    ASSUME FlowInv, ProviderInv, AutoRefresh
    PROVE  ProviderInv'
  <1>1. PICK u \in Users : u = auth.user
    BY DEF AutoRefresh, FlowInv, FlowTypes, User
  <1>2. PICK m \in Seq(MainBlock) :
            NotifyInv(m, auth') /\ AnswerInv(m, service) /\ main' = m \o <<>>
    <2>1. Refreshed(u, <<>>)
      BY <1>1 DEF AutoRefresh
    <2> QED
      BY <2>1, RefreshedProvider
  <1>3. main' = m
    BY <1>2
  <1>4. NotifyInv(main', auth') /\ AnswerInv(main', service')
    BY <1>2, <1>3 DEF AutoRefresh
  <1> QED
    BY <1>4, ProviderStep DEF AutoRefresh, providerVars

\* The main thread takes blocks in order.  CreatedOnMain: the constructor is such
\* a block, so that no notification is posted before the observer is there.
LEMMA EnterBlockProvider ==
    ASSUME FlowInv, ProviderInv, CreatedOnMain, EnterBlock
    PROVE  ProviderInv'
  <1>1. /\ main \in Seq(MainBlock) /\ main # <<>> /\ main' = Tail(main) /\ block.kind = "none"
        /\ UNCHANGED <<auth, service, provider, contents>>
    BY DEF EnterBlock, FlowInv, FlowTypes, NoBlock, authVars
  <1>2. PICK h : h = Head(main)
    OBVIOUS
  <1>3. /\ h \in MainBlock /\ main' \in Seq(MainBlock)
        /\ Has(main, "notify") <=> (h.kind = "notify" \/ Has(main', "notify"))
    BY <1>1, <1>2, TailFacts
  <1>4. /\ h \in Ahead(main, "notify")
        /\ h.kind # "notify" => \A x \in Ahead(main', "notify") : x \in Ahead(main, "notify")
        /\ \A x \in LastOf(main', "notify") : x \in LastOf(main, "notify")
        /\ h.kind = "notify" /\ ~Has(main', "notify") => h \in LastOf(main, "notify")
    BY <1>1, <1>2, TailOrder
  <1>5. Watching => provider = "live"
    BY DEF Watching, EnterBlock
  <1>6. /\ block' = h \/ block'.kind = "none"
        /\ Watching /\ h.kind = "notify" => block' = h
    BY <1>2, <1>5 DEF EnterBlock, NoBlock
  <1>7. NotifyInv(main, auth)'
    BY <1>1, <1>3, <1>4, <1>6 DEF ProviderInv, NotifyInv, NotifyDue, Watching
  <1>8. AnswerInv(main, service)'
    BY <1>1, <1>3, <1>4, <1>6 DEF ProviderInv, AnswerInv, NotifyDue, Watching, Fits
  <1> QED
    BY <1>7, <1>8 DEF ProviderInv

\* After a notification, every answer that is under way is out of date.
LEMMA AuthStateDidChangeProvider ==
    ASSUME FlowInv, ProviderInv, AuthStateDidChange
    PROVE  ProviderInv'
  <1>1. /\ block.kind = "notify" /\ block'.kind = "none"
        /\ UNCHANGED <<auth, service, main, provider>>
    BY DEF AuthStateDidChange, NoBlock, authVars
  <1>2. /\ contents'.user = block.user
        /\ contents'.counter = contents.counter + 1 /\ contents.counter \in Nat
    <2>1. PICK u : u = block.user
      OBVIOUS
    <2>2. contents' = [contents EXCEPT !.user = u, !.counter = @ + 1]
      BY <2>1 DEF AuthStateDidChange
    <2>3. contents \in [user : User, counter : Nat, force : BOOLEAN]
      BY DEF FlowInv, FlowTypes
    <2> QED
      BY <2>1, <2>2, <2>3
  <1>3. NotifyInv(main, auth)'
    BY <1>1, <1>2 DEF ProviderInv, NotifyInv, NotifyDue
  <1>4. \A r \in Request : Pending(r) => r.count < contents'.counter
    <2>1. \A r \in Request : r.count \in Nat /\ (Pending(r) => r.count <= contents.counter)
      BY DEF FlowInv, RequestInv, Request
    <2> QED
      BY <1>2, <2>1
  <1>5. \A u \in Users, r \in Request : InSeq(r, service[u]) => r.count < contents'.counter
    BY <1>4 DEF Pending
  <1>6. \A x \in Ahead(main, "notify") : x.kind = "callback" => x.request.count < contents'.counter
    <2>1. SUFFICES ASSUME NEW x \in Ahead(main, "notify"), x.kind = "callback"
                   PROVE  x.request.count < contents'.counter
      OBVIOUS
    <2>2. main \in Seq(MainBlock)
      BY DEF FlowInv, FlowTypes
    <2>3. InSeq(x, main) /\ x \in MainBlock
      BY <2>2 DEF Ahead, InSeq
    <2>4. x.request \in Request
      BY <2>1, <2>3 DEF MainBlock
    <2>5. Pending(x.request)
      BY <2>1, <2>3 DEF Pending, CallbackIn
    <2> QED
      BY <1>4, <2>4, <2>5
  <1>7. AnswerInv(main, service)'
    BY <1>1, <1>5, <1>6 DEF AnswerInv, Fits
  <1> QED
    BY <1>3, <1>7 DEF ProviderInv

\* A callback ends.
LEMMA BlockEnds ==
    ASSUME ProviderInv, block.kind # "notify", block'.kind \notin {"notify", "callback"},
           UNCHANGED <<auth, service, main, provider>>,
           contents'.user = contents.user, contents'.counter = contents.counter
    PROVE  ProviderInv'
  BY DEF ProviderInv, NotifyInv, AnswerInv, NotifyDue, Watching, Fits

\* get_token_callback ends with an answer.
LEMMA GetTokenCallbackProvider ==
    ASSUME ProviderInv, GetTokenCallback
    PROVE  ProviderInv'
  BY BlockEnds DEF GetTokenCallback, NoBlock, authVars

\* get_token_callback ends with another request.
LEMMA GetTokenAgainProvider ==
    ASSUME ProviderInv, GetTokenAgain
    PROVE  ProviderInv'
  <1>1. block'.kind \in {"none", "reset"} /\ block.kind = "callback"
    BY DEF GetTokenAgain, NoBlock
  <1> QED
    BY <1>1, BlockEnds DEF GetTokenAgain

\* get_token_callback ends after that.
LEMMA GetTokenAgainResetProvider ==
    ASSUME FlowInv, ProviderInv, GetTokenAgainReset
    PROVE  ProviderInv'
  <1>1. contents'.user = contents.user /\ contents'.counter = contents.counter
    BY DEF GetTokenAgainReset, FlowInv, FlowTypes
  <1> QED
    BY <1>1, BlockEnds DEF GetTokenAgainReset, NoBlock, authVars

\* The constructor knows the user, and nobody has asked for a token before it.
LEMMA ConstructProvider ==
    ASSUME FlowInv, ProviderInv, Construct
    PROVE  ProviderInv'
  <1>1. /\ contents'.user = auth.user
        /\ UNCHANGED <<auth, service, main, block>>
    BY DEF Construct, FlowInv, FlowTypes, authVars
  <1>2. NotifyInv(main, auth)'
    BY <1>1 DEF ProviderInv, NotifyInv, NotifyDue
  <1>3. \A r \in Request : ~Pending(r)
    BY DEF Construct, FlowInv, LifeInv
  <1>4. \A u \in Users, r \in Request : ~InSeq(r, service[u])
    BY <1>3 DEF Pending
  <1>5. \A x \in Ahead(main, "notify") : x.kind # "callback"
    <2>1. SUFFICES ASSUME NEW x \in Ahead(main, "notify"), x.kind = "callback" PROVE FALSE
      OBVIOUS
    <2>2. main \in Seq(MainBlock)
      BY DEF FlowInv, FlowTypes
    <2>3. InSeq(x, main) /\ x \in MainBlock
      BY <2>2 DEF Ahead, InSeq
    <2>4. x.request \in Request
      BY <2>1, <2>3 DEF MainBlock
    <2> QED
      BY <1>3, <2>1, <2>3, <2>4 DEF Pending, CallbackIn
  <1>6. block.kind # "callback"
    BY <1>3, CallbackBlock
  <1>7. AnswerInv(main, service)'
    BY <1>1, <1>4, <1>5, <1>6 DEF AnswerInv
  <1> QED
    BY <1>2, <1>7 DEF ProviderInv

\* The other steps do not concern what the provider knows.
LEMMA ProviderStays ==
    ASSUME ProviderInv, UNCHANGED <<auth, service, main, block>>,
           contents'.user = contents.user, contents'.counter = contents.counter,
           Watching' => Watching
    PROVE  ProviderInv'
  BY DEF ProviderInv, NotifyInv, AnswerInv, NotifyDue, Fits

-----------------------------------------------------------------------------
(* What the client knows                                                   *)

\* The steps that do not concern it.
LEMMA ClientStays ==
    ASSUME ClientInv, UNCHANGED <<listening, restricted, queue, engine, stream>>,
           contents'.user = contents.user
    PROVE  ClientInv'
  BY DEF ClientInv, EngineInv, TokenInv, PairInv, StreamActsForEngineUser

\* The front of the worker queue is part of it.
LEMMA FrontOfQueue ==
    ASSUME NEW s \in Seq(Operation), NEW x \in Ahead(s, "change")
    PROVE  x \in Operation /\ InSeq(x, s)
  BY DEF Ahead, InSeq

\* The engine is told of every change that the provider learns of.
LEMMA AuthStateDidChangeClient ==
    ASSUME FlowInv, ClientInv, AuthStateDidChange
    PROVE  ClientInv'
  <1>1. PICK op : op = [kind |-> "change", user |-> block.user]
    OBVIOUS
  <1>2. block \in MainBlock /\ block.user \in User
    BY DEF AuthStateDidChange, FlowInv, FlowTypes, MainBlock, NoBlock
  <1>3. op \in Operation /\ op.kind = "change" /\ op.user = block.user
    BY <1>1, <1>2 DEF Operation
  <1>4. queue \in Seq(Operation) /\ UNCHANGED <<listening, restricted, engine, stream>>
    BY DEF AuthStateDidChange, FlowInv, FlowTypes, clientVars
  <1>5. CASE listening /\ ~restricted
    <2>1. queue' = Append(queue, op)
      BY <1>1, <1>5 DEF AuthStateDidChange, MayEnqueue
    <2>2. /\ \A x : InSeq(x, queue') <=> (InSeq(x, queue) \/ x = op)
          /\ Has(queue', "change")
      BY <1>3, <1>4, <2>1, AppendFacts
    <2>3. /\ \A x \in Ahead(queue', "change") : x \in Ahead(queue, "change") \/ x = op
          /\ \A x \in LastOf(queue', "change") : x = op
      BY <1>3, <1>4, <2>1, AppendOrder
    <2>4. contents'.user = block.user
      <3>1. PICK u : u = block.user
        OBVIOUS
      <3>2. contents' = [contents EXCEPT !.user = u, !.counter = @ + 1]
        BY <3>1 DEF AuthStateDidChange
      <3> QED
        BY <3>1, <3>2 DEF FlowInv, FlowTypes
    <2>5. EngineInv'
      BY <1>3, <2>2, <2>3, <2>4 DEF EngineInv
    <2>6. TokenInv' /\ PairInv'
      BY <1>3, <1>4, <2>2, <2>3 DEF ClientInv, TokenInv, PairInv
    <2> QED
      BY <1>4, <2>5, <2>6 DEF ClientInv, StreamActsForEngineUser
  <1>6. CASE ~listening \/ restricted
    <2>1. queue' = queue
      BY <1>6 DEF AuthStateDidChange, MayEnqueue
    <2>2. EngineInv'
      BY <1>4, <1>6 DEF EngineInv
    <2> QED
      BY <1>4, <2>1, <2>2 DEF ClientInv, TokenInv, PairInv, StreamActsForEngineUser
  <1> QED
    BY <1>4, <1>5, <1>6 DEF FlowInv, FlowTypes

\* An answer that is not out of date is for the user that the provider knows.
LEMMA GetTokenCallbackClient ==
    ASSUME FlowInv, ProviderInv, ClientInv, GetTokenCallback
    PROVE  ClientInv'
  <1>1. PICK op : op = [kind |-> "token", closes |-> block.request.closes,
                        result |-> block.result, user |-> contents.user]
    OBVIOUS
  <1>2. /\ block.request \in Request /\ block.result \in Result /\ (listening \/ restricted)
    BY CallbackBlock DEF GetTokenCallback
  <1>3. /\ op \in Operation /\ op.kind = "token" /\ op.result = block.result
        /\ op.user = contents.user
    BY <1>1, <1>2 DEF Operation, FlowInv, FlowTypes, Request
  <1>4. queue \in Seq(Operation) /\ UNCHANGED <<listening, restricted, engine, stream, contents>>
    BY DEF GetTokenCallback, FlowInv, FlowTypes, clientVars
  <1>5. CASE restricted
    <2>1. queue' = queue
      BY <1>5 DEF GetTokenCallback, MayEnqueue
    <2> QED
      BY <1>4, <2>1, ClientStays
  <1>6. CASE ~restricted
    <2>1. queue' = Append(queue, op)
      BY <1>1, <1>6 DEF GetTokenCallback, MayEnqueue
    <2>2. /\ \A x : InSeq(x, queue') <=> (InSeq(x, queue) \/ x = op)
          /\ Has(queue', "change") <=> Has(queue, "change")
      BY <1>3, <1>4, <2>1, AppendFacts
    <2>3. /\ \A x \in Ahead(queue', "change") :
                 x \in Ahead(queue, "change") \/ (x = op /\ ~Has(queue, "change"))
          /\ \A x \in LastOf(queue', "change") : x \in LastOf(queue, "change")
      BY <1>3, <1>4, <2>1, AppendOrder
    <2>4. EngineInv'
      BY <1>4, <2>2, <2>3 DEF ClientInv, EngineInv
    <2>5. TokenInv'
      <3>1. ~Has(queue, "change") => op.user = engine
        BY <1>2, <1>3, <1>6 DEF ClientInv, EngineInv
      <3> QED
        BY <1>4, <2>3, <3>1 DEF ClientInv, TokenInv
    <2>6. op.result # Failure => UserOf(op.result) = op.user
      <3>1. provider = "live" /\ block.kind = "callback"
            /\ block.request.count = contents.counter /\ contents.counter \in Nat
        BY <1>2, <1>6 DEF GetTokenCallback, FlowInv, FlowTypes, LifeInv
      <3>2. block.result # Failure => Fits(block.request, UserOf(block.result))
        BY <3>1 DEF ProviderInv, AnswerInv, Watching
      <3>3. ~(block.request.count < contents.counter)
        BY <3>1
      <3> QED
        BY <1>3, <3>2, <3>3 DEF Fits
    <2>7. PairInv'
      BY <2>2, <2>6 DEF ClientInv, PairInv
    <2> QED
      BY <1>4, <2>4, <2>5, <2>7 DEF ClientInv, StreamActsForEngineUser
  <1> QED
    BY <1>5, <1>6

\* The first change has the user that the provider knows.
LEMMA CreateClientClient ==
    ASSUME FlowInv, ClientInv, CreateClient
    PROVE  ClientInv'
  <1>1. PICK op : op = [kind |-> "change", user |-> contents.user]
    OBVIOUS
  <1>2. op \in Operation /\ op.kind = "change" /\ op.user = contents.user
    BY <1>1 DEF Operation, FlowInv, FlowTypes
  <1>3. /\ queue \in Seq(Operation) /\ queue' = Append(queue, op)
        /\ UNCHANGED <<contents, engine, stream>>
    BY <1>1 DEF CreateClient, FlowInv, FlowTypes, clientVars
  <1>4. /\ \A x : InSeq(x, queue') <=> (InSeq(x, queue) \/ x = op)
        /\ Has(queue', "change")
    BY <1>2, <1>3, AppendFacts
  <1>5. /\ \A x \in Ahead(queue', "change") : x \in Ahead(queue, "change") \/ x = op
        /\ \A x \in LastOf(queue', "change") : x = op
    BY <1>2, <1>3, AppendOrder
  <1>6. EngineInv'
    BY <1>2, <1>3, <1>4, <1>5 DEF EngineInv
  <1>7. TokenInv' /\ PairInv'
    BY <1>2, <1>3, <1>4, <1>5 DEF ClientInv, TokenInv, PairInv
  <1> QED
    BY <1>3, <1>6, <1>7 DEF ClientInv, StreamActsForEngineUser

\* Restricted mode lets the client be.
LEMMA TerminateAsyncClient ==
    ASSUME FlowInv, ClientInv, TerminateAsync
    PROVE  ClientInv'
  <1>1. PICK op : op = [kind |-> "terminate"]
    OBVIOUS
  <1>2. op \in Operation /\ op.kind = "terminate"
    BY <1>1 DEF Operation
  <1>3. queue \in Seq(Operation) /\ queue' = Append(queue, op) /\ UNCHANGED <<engine, stream>>
    BY <1>1 DEF TerminateAsync, FlowInv, FlowTypes
  <1>4. \A x : InSeq(x, queue') <=> (InSeq(x, queue) \/ x = op)
    BY <1>2, <1>3, AppendFacts
  <1>5. \A x \in Ahead(queue', "change") : x \in Ahead(queue, "change") \/ x = op
    BY <1>2, <1>3, AppendOrder
  <1>6. TokenInv' /\ PairInv'
    BY <1>2, <1>3, <1>4, <1>5 DEF ClientInv, TokenInv, PairInv
  <1> QED
    BY <1>3, <1>6 DEF ClientInv, EngineInv, TerminateAsync, StreamActsForEngineUser

\* A stream that has just been started or closed is not open, and has no token on
\* the worker queue.
LEMMA FreshStream ==
    ASSUME FlowTypes', stream'.state # "Open",
           \A c \in Nat : TokenIn(c, queue') => c # stream'.closes
    PROVE  TokenInv' /\ StreamActsForEngineUser'
  <1>1. ASSUME NEW x \in Ahead(queue', "change"), x.kind = "token"
        PROVE  x.closes # stream'.closes
    <2>1. x \in Operation /\ InSeq(x, queue')
      BY <1>1, FrontOfQueue DEF FlowTypes
    <2>2. x.closes \in Nat
      BY <1>1, <2>1 DEF Operation
    <2>3. TokenIn(x.closes, queue')
      BY <1>1, <2>1 DEF TokenIn
    <2> QED
      BY <2>2, <2>3
  <1>2. TokenInv'
    BY <1>1 DEF TokenInv
  <1> QED
    BY <1>2 DEF StreamActsForEngineUser

\* A change of the engine's user comes with a new stream.
LEMMA RunCredentialChangeClient ==
    ASSUME FlowInv, ClientInv, NEW start \in BOOLEAN, RunCredentialChange(start)
    PROVE  ClientInv'
  <1>1. /\ queue \in Seq(Operation) /\ queue # <<>> /\ queue' = Tail(queue)
        /\ Head(queue).kind = "change" /\ engine' = Head(queue).user
        /\ UNCHANGED <<contents, listening, restricted>>
    BY DEF RunCredentialChange, Next1, FlowInv, FlowTypes, providerVars
  <1>2. TokenInv' /\ StreamActsForEngineUser'
    BY RunCredentialChangeFlow, FreshStream DEF FlowInv
  <1>3. \A x : InSeq(x, queue') => InSeq(x, queue)
    BY <1>1, TailFacts
  <1>4. /\ \A x \in LastOf(queue', "change") : x \in LastOf(queue, "change")
        /\ ~Has(queue', "change") => Head(queue) \in LastOf(queue, "change")
    BY <1>1, TailOrder
  <1>5. EngineInv'
    BY <1>1, <1>4 DEF ClientInv, EngineInv
  <1>6. PairInv'
    BY <1>3 DEF ClientInv, PairInv
  <1> QED
    BY <1>2, <1>5, <1>6 DEF ClientInv

\* Starting or closing the stream leaves the worker queue and the user alone.
LEMMA StreamClient ==
    ASSUME ClientInv, FlowTypes', stream'.state # "Open",
           \A c \in Nat : TokenIn(c, queue') => c # stream'.closes,
           UNCHANGED <<listening, restricted, queue, engine>>, contents'.user = contents.user
    PROVE  ClientInv'
  <1>1. TokenInv' /\ StreamActsForEngineUser'
    BY FreshStream
  <1> QED
    BY <1>1 DEF ClientInv, EngineInv, PairInv

\* A stream is opened with the token that it requested, for the engine's user.
LEMMA RunTokenClient ==
    ASSUME FlowInv, ClientInv, RunToken
    PROVE  ClientInv'
  <1>1. PICK op : op = Head(queue)
    OBVIOUS
  <1>2. /\ queue \in Seq(Operation) /\ queue # <<>> /\ queue' = Tail(queue)
        /\ op.kind = "token" /\ op.kind # "change" /\ stream \in StreamState
        /\ UNCHANGED <<contents, listening, restricted, engine>>
    BY <1>1 DEF RunToken, Next1, FlowInv, FlowTypes, providerVars
  <1>3. /\ op \in Operation
        /\ \/ stream' = stream
           \/ stream' = Close(stream, "Error")
           \/ /\ op.closes = stream.closes /\ op.result # Failure
              /\ stream'.token = op.result /\ stream'.closes = stream.closes
    BY <1>1, RunTokenFacts
  <1>4. /\ \A x : InSeq(x, queue) <=> (x = op \/ InSeq(x, queue'))
        /\ Has(queue', "change") <=> Has(queue, "change")
    BY <1>1, <1>2, TailFacts
  <1>5. /\ op \in Ahead(queue, "change")
        /\ \A x \in Ahead(queue', "change") : x \in Ahead(queue, "change")
        /\ \A x \in LastOf(queue', "change") : x \in LastOf(queue, "change")
    BY <1>1, <1>2, TailOrder
  <1>6. EngineInv'
    BY <1>2, <1>4, <1>5 DEF ClientInv, EngineInv
  <1>7. PairInv'
    BY <1>4 DEF ClientInv, PairInv
  <1>8. CASE stream' = stream
    BY <1>2, <1>5, <1>6, <1>7, <1>8 DEF ClientInv, TokenInv, StreamActsForEngineUser
  <1>9. CASE stream' = Close(stream, "Error")
    <2>1. stream'.state # "Open" /\ stream'.closes = stream.closes + 1
      BY <1>2, <1>9, StreamChanges
    <2>2. ASSUME NEW c \in Nat, TokenIn(c, queue') PROVE c # stream'.closes
      <3>1. TokenIn(c, queue)
        BY <1>4, <2>2 DEF TokenIn
      <3>2. Live(c)
        BY <3>1 DEF FlowInv, RequestInv
      <3> QED
        BY <1>2, <2>1, <3>2 DEF Live, StreamState
    <2>3. TokenInv' /\ StreamActsForEngineUser'
      BY <2>1, <2>2, RunTokenFlow, FreshStream DEF FlowInv
    <2> QED
      BY <1>6, <1>7, <2>3 DEF ClientInv
  <1>10. CASE /\ op.closes = stream.closes /\ op.result # Failure
              /\ stream'.token = op.result /\ stream'.closes = stream.closes
    <2>1. op.user = engine
      BY <1>2, <1>5, <1>10 DEF ClientInv, TokenInv
    <2>2. UserOf(op.result) = op.user
      BY <1>2, <1>3, <1>4, <1>10 DEF ClientInv, PairInv
    <2>3. StreamActsForEngineUser'
      BY <1>2, <1>10, <2>1, <2>2 DEF StreamActsForEngineUser
    <2>4. TokenInv'
      BY <1>2, <1>5, <1>10 DEF ClientInv, TokenInv
    <2> QED
      BY <1>6, <1>7, <2>3, <2>4 DEF ClientInv
  <1> QED
    BY <1>3, <1>8, <1>9, <1>10

\* Shutdown() closes the stream.
LEMMA ShutdownClient ==
    ASSUME FlowInv, ClientInv, Shutdown
    PROVE  ClientInv'
  <1>1. /\ FlowInv' /\ restricted /\ stream'.state # "Open"
        /\ (\A c \in Nat : TokenIn(c, queue') => c # stream'.closes)
    BY ShutdownFlow
  <1>2. TokenInv' /\ StreamActsForEngineUser'
    BY <1>1, FreshStream DEF FlowInv
  <1>3. queue \in Seq(Operation) /\ queue # <<>> /\ queue' = Tail(queue) /\ restricted'
    BY <1>1 DEF Shutdown, FlowInv, FlowTypes, LifeInv
  <1>4. \A x : InSeq(x, queue') => InSeq(x, queue)
    BY <1>3, TailFacts
  <1> QED
    BY <1>2, <1>3, <1>4 DEF ClientInv, EngineInv, PairInv

-----------------------------------------------------------------------------
UserInv == FlowInv /\ ProviderInv /\ ClientInv

\* The provider and the client begin without a token.
LEMMA InitUser == Init => UserInv
  <1> SUFFICES ASSUME Init PROVE UserInv
    OBVIOUS
  <1>1. FlowInv
    BY InitFlow
  <1>2. PICK u \in User : auth = [user |-> u, notified |-> Token(u, 1)]
    BY DEF Init, User
  <1>3. UserOf(auth.notified) = auth.user
    BY <1>2, TokenFacts DEF User, Token, UserOf
  <1>4. /\ main = <<>> /\ queue = <<>> /\ block = NoBlock /\ provider = "absent"
        /\ ~listening /\ stream.state = "Initial"
    BY DEF Init
  <1>5. NotifyInv(main, auth) /\ AnswerInv(main, service)
    BY <1>3, <1>4, EmptyFacts DEF NotifyInv, AnswerInv, Watching, NoBlock
  <1>6. ClientInv
    BY <1>4, EmptyFacts DEF ClientInv, EngineInv, TokenInv, PairInv, StreamActsForEngineUser
  <1> QED
    BY <1>1, <1>5, <1>6 DEF UserInv, ProviderInv

\* Every step preserves the invariant, if the provider is created on the main thread.
LEMMA NextUser == CreatedOnMain /\ UserInv /\ [Next]_vars => UserInv'
  <1> SUFFICES ASSUME CreatedOnMain, UserInv, [Next]_vars PROVE UserInv'
    OBVIOUS
  <1>0. FlowInv /\ ProviderInv /\ ClientInv /\ FlowInv' /\ FlowTypes'
    BY NextFlow DEF UserInv, FlowInv
  <1>1. contents.user = contents.user /\ contents \in [user : User, counter : Nat, force : BOOLEAN]
    BY <1>0 DEF FlowInv, FlowTypes
  <1>2. CASE AuthStep \/ AutoRefresh \/ \E u \in User : UpdateCurrentUser(u)
    <2>1. ProviderInv'
      BY <1>0, <1>2, GetTokenForcingRefreshProvider, FetchCachedProvider, FetchRefreshedProvider,
         FetchFailedProvider, AutoRefreshProvider, UpdateCurrentUserProvider DEF AuthStep
    <2>2. UNCHANGED <<listening, restricted, queue, engine, stream, contents>>
      BY <1>2 DEF AuthStep, GetTokenForcingRefresh, FetchCached, FetchRefreshed, FetchFailed,
                  AutoRefresh, UpdateCurrentUser, providerVars, clientVars
    <2> QED
      BY <1>0, <2>1, <2>2, ClientStays DEF UserInv
  <1>3. CASE EnterBlock \/ GetTokenAgain \/ GetTokenAgainReset
    <2>1. ProviderInv'
      BY <1>0, <1>3, EnterBlockProvider, GetTokenAgainProvider, GetTokenAgainResetProvider
    <2>2. UNCHANGED <<listening, restricted, queue, engine, stream>> /\ contents'.user = contents.user
      BY <1>1, <1>3 DEF EnterBlock, GetTokenAgain, GetTokenAgainReset, clientVars
    <2> QED
      BY <1>0, <2>1, <2>2, ClientStays DEF UserInv
  <1>4. CASE AuthStateDidChange
    BY <1>0, <1>4, AuthStateDidChangeProvider, AuthStateDidChangeClient DEF UserInv
  <1>5. CASE GetTokenCallback
    BY <1>0, <1>5, GetTokenCallbackProvider, GetTokenCallbackClient DEF UserInv
  <1>6. CASE Construct
    <2>1. EngineInv'
      BY <1>0, <1>6 DEF Construct, FlowInv, LifeInv, EngineInv
    <2>2. ClientInv'
      BY <1>0, <1>6, <2>1
         DEF Construct, ClientInv, TokenInv, PairInv, StreamActsForEngineUser, clientVars
    <2> QED
      BY <1>0, <1>6, <2>2, ConstructProvider DEF UserInv
  <1>7. CASE AddObserver \/ CreateClient \/ TerminateAsync \/ WorkerStep \/ StartStream
             \/ StopStream \/ (\E unauthenticated \in BOOLEAN : StreamFinish(unauthenticated))
             \/ UNCHANGED vars
    <2>1. /\ UNCHANGED <<auth, service, main, block>>
          /\ contents'.user = contents.user /\ contents'.counter = contents.counter
          /\ Watching' => Watching
      BY <1>1, <1>7
         DEF AddObserver, CreateClient, TerminateAsync, WorkerStep, StartStream, StopStream,
             StreamFinish, RunCredentialChange, GetTokenCount, GetTokenDispatch, GetTokenReset,
             RunToken, RemoveListener, Shutdown, Watching, vars, authVars, providerVars, clientVars
    <2>2. ProviderInv'
      BY <1>0, <2>1, ProviderStays
    <2>3. CASE AddObserver \/ GetTokenCount \/ GetTokenDispatch \/ GetTokenReset \/ UNCHANGED vars
      <3>1. UNCHANGED <<listening, restricted, queue, engine, stream>>
        BY <2>3 DEF AddObserver, GetTokenCount, GetTokenDispatch, GetTokenReset, vars, providerVars,
                    clientVars
      <3> QED
        BY <1>0, <2>1, <2>2, <3>1, ClientStays DEF UserInv
    <2>4. CASE CreateClient \/ TerminateAsync \/ RunToken \/ Shutdown
      BY <1>0, <2>2, <2>4, CreateClientClient, TerminateAsyncClient, RunTokenClient, ShutdownClient
         DEF UserInv
    <2>5. CASE \E start \in BOOLEAN : RunCredentialChange(start)
      BY <1>0, <2>2, <2>5, RunCredentialChangeClient DEF UserInv
    <2>6. CASE StartStream
      <3>1. stream'.state # "Open" /\ \A c \in Nat : TokenIn(c, queue') => c # stream'.closes
        BY <1>0, <2>6, StartStreamFlow
      <3>2. UNCHANGED <<listening, restricted, queue, engine>>
        BY <2>6 DEF StartStream, providerVars
      <3> QED
        BY <1>0, <2>1, <2>2, <3>1, <3>2, StreamClient DEF UserInv
    <2>7. CASE StopStream
      <3>1. stream'.state # "Open" /\ \A c \in Nat : TokenIn(c, queue') => c # stream'.closes
        BY <1>0, <2>7, StopStreamFlow
      <3>2. UNCHANGED <<listening, restricted, queue, engine>>
        BY <2>7 DEF StopStream, providerVars
      <3> QED
        BY <1>0, <2>1, <2>2, <3>1, <3>2, StreamClient DEF UserInv
    <2>8. CASE \E unauthenticated \in BOOLEAN : StreamFinish(unauthenticated)
      <3>1. stream'.state # "Open" /\ \A c \in Nat : TokenIn(c, queue') => c # stream'.closes
        BY <1>0, <2>8, StreamFinishFlow
      <3>2. UNCHANGED <<listening, restricted, queue, engine>>
        BY <2>8 DEF StreamFinish
      <3> QED
        BY <1>0, <2>1, <2>2, <3>1, <3>2, StreamClient DEF UserInv
    <2>9. CASE RemoveListener
      <3>1. ~listening' /\ UNCHANGED <<restricted, queue, engine, stream>>
        BY <2>9 DEF RemoveListener
      <3>2. ClientInv'
        BY <1>0, <3>1 DEF ClientInv, EngineInv, TokenInv, PairInv, StreamActsForEngineUser
      <3> QED
        BY <1>0, <2>2, <3>2 DEF UserInv
    <2> QED
      BY <1>7, <2>3, <2>4, <2>5, <2>6, <2>7, <2>8, <2>9 DEF WorkerStep
  <1> QED
    BY <1>2, <1>3, <1>4, <1>5, <1>6, <1>7 DEF Next, MainStep, Environment, User

\* The users of the provider, its answers and the engine always agree as UserInv says.
LEMMA UserInvariant ==
    ASSUME CreatedOnMain
    PROVE  Spec => []UserInv
  BY CreatedOnMain, InitUser, NextUser, PTL DEF Spec

\* GetToken() never pairs the token of one user with another one, however sign-ins,
\* sign-outs, refreshes and the three queues interleave, if the provider is created
\* on the main thread.
THEOREM TokensHaveTheirUser ==
    ASSUME CreatedOnMain
    PROVE  Spec => []TokenHasItsUser
  <1>1. UserInv => TokenHasItsUser
    <2> SUFFICES ASSUME UserInv, NEW i \in DOMAIN queue, queue[i].kind = "token",
                        queue[i].result # Failure
                 PROVE  UserOf(queue[i].result) = queue[i].user
      BY DEF TokenHasItsUser
    <2>1. queue[i] \in Operation /\ InSeq(queue[i], queue)
      BY DEF UserInv, FlowInv, FlowTypes, InSeq
    <2> QED
      BY <2>1 DEF UserInv, ClientInv, PairInv
  <1> QED
    BY <1>1, UserInvariant, PTL

\* A stream that is open acts for the user whose writes and listens SyncEngine sends
\* on it: restarting the streams in HandleCredentialChange() and comparing
\* close_count_ in RequestCredentials() are enough.
THEOREM StreamsActForEngineUser ==
    ASSUME CreatedOnMain
    PROVE  Spec => []StreamActsForEngineUser
  <1>1. UserInv => StreamActsForEngineUser
    BY DEF UserInv, ClientInv
  <1> QED
    BY <1>1, UserInvariant, PTL
=============================================================================
