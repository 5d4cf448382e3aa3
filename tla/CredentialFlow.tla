--------------------------- MODULE CredentialFlow ---------------------------
(***************************************************************************)
(* How the user and the access token get from Firebase Auth to a stream of *)
(* Firestore, over three serial queues that run concurrently:              *)
(*                                                                         *)
(*   FIRAuth and FIRSecureTokenService      the global work queue of Auth  *)
(*   the callbacks of the credentials provider             the main queue  *)
(*   FirestoreClient, SyncEngine and a Stream        the AsyncQueue worker *)
(*                                                                         *)
(* FirebaseCredentialsProvider (auth/firebase_credentials_provider_apple)  *)
(* is used by the last two.  Its callbacks hold contents->mutex; GetToken()*)
(* and InvalidateToken() on the worker take no lock, so each of their      *)
(* accesses to contents_ is a step.  An access token is <<user, number>>.  *)
(***************************************************************************)
EXTENDS Naturals, Sequences

CONSTANTS
    Users,          \* user ids
    Nobody,         \* no user is signed in; nil as a token
    Failure,        \* an error instead of a token
    CreatedOnMain,  \* the provider is constructed on the main thread
    MaxEvents       \* bound: sign-ins and sign-outs, expired tokens, failed
                    \* requests and stops of the stream, together

ASSUME CredentialAssumption ==
    /\ Nobody \notin Users /\ Nobody \notin Users \X Nat
    /\ CreatedOnMain \in BOOLEAN
    /\ MaxEvents \in Nat

VARIABLES
    auth,       \* FIRAuth: [user |-> _currentUser,
                \*           notified |-> _lastNotifiedUserToken]
    token,      \* token[u]: the number of the access token of u
    work,       \* requests for a token on Auth's work queue
    service,    \* service[u]: tasks of the FIRSecureTokenService of u
    main,       \* blocks on the main queue
    block,      \* the block of the provider that the main thread is in, if any
    provider,   \* the life of the provider: "absent", "constructing", "live"
                \* (auth_listener_handle_ is set), "removed", "destroyed"
    contents,   \* [user |-> current_user, counter |-> token_counter,
                \*  force |-> force_refresh]
    listening,  \* change_listener_ is set
    queue,      \* operations on the worker queue
    restricted, \* the worker queue is in restricted mode
    pc,         \* where the worker is
    request,    \* the request that GetToken() on the worker is preparing
    engine,     \* SyncEngine::current_user_
    stream,     \* [state |-> state_, closes |-> close_count_,
                \*  token |-> the token grpc_stream_ was created with]
    usable,     \* no callback found the provider's listener removed
    events      \* how many of MaxEvents have happened

authVars == <<auth, token, work, service>>
providerVars == <<provider, contents, listening, block, usable>>
clientVars == <<restricted, pc, request, engine, stream>>
vars == <<authVars, providerVars, clientVars, main, queue, events>>

Event == events < MaxEvents /\ events' = events + 1

NoBlock == [kind |-> "none"]

NoRequest == [count |-> 0, closes |-> 0, force |-> FALSE]

Token(u, n) == IF u = Nobody THEN Nobody ELSE <<u, n>>

\* The user a token was issued to.
UserOf(t) == IF t = Nobody THEN Nobody ELSE t[1]

-----------------------------------------------------------------------------
(* Firebase Auth                                                           *)

\* possiblyPostAuthStateChangeNotification: blocks to append to the main queue
\* when t is the access token of the current user u.
Notification(u, t) ==
    IF t = auth.notified THEN <<>> ELSE <<[kind |-> "notify", user |-> u]>>

Callback(r, result) == <<[kind |-> "callback", request |-> r, result |-> result]>>

\* updateCurrentUser:byForce:savingToDisk:error:, at sign-in and sign-out.
UpdateCurrentUser(u) ==
    LET t == IF u = Nobody THEN Nobody ELSE Token(u, token[u])
    IN  /\ u # auth.user
        /\ Event
        /\ auth' = [user |-> u, notified |-> t]
        /\ main' = main \o Notification(u, t)
        /\ UNCHANGED <<token, work, service, providerVars, clientVars, queue>>

\* getTokenForcingRefresh:withCallback: on the work queue.
GetTokenForcingRefresh ==
    /\ work # <<>>
    /\ work' = Tail(work)
    /\ IF auth.user = Nobody
       THEN /\ main' = main \o Callback(Head(work), Nobody)
            /\ UNCHANGED service
       ELSE /\ service' = [service EXCEPT ![auth.user] = Append(@, Head(work))]
            /\ UNCHANGED main
    /\ UNCHANGED <<auth, token, providerVars, clientVars, queue, events>>

\* fetchAccessTokenForcingRefresh: finds a valid access token ...
FetchCached(u) ==
    /\ service[u] # <<>>
    /\ ~Head(service[u]).force
    /\ service' = [service EXCEPT ![u] = Tail(@)]
    /\ main' = main \o Callback(Head(service[u]), Token(u, token[u]))
    /\ UNCHANGED <<auth, token, work, providerVars, clientVars, queue, events>>

\* The effect of a new access token for u on FIRAuth: updateKeychainWithUser:
\* does nothing if u is not the current user any more.
Refreshed(u, callback) ==
    LET t == Token(u, token[u] + 1)
    IN  /\ token' = [token EXCEPT ![u] = @ + 1]
        /\ IF u = auth.user
           THEN /\ auth' = [auth EXCEPT !.notified = t]
                /\ main' = main \o Notification(u, t) \o callback
           ELSE /\ main' = main \o callback
                /\ UNCHANGED auth

\* ... or requests a new one, because it is forced to or the old one expired.
FetchRefreshed(u) ==
    /\ service[u] # <<>>
    /\ service' = [service EXCEPT ![u] = Tail(@)]
    /\ Refreshed(u, Callback(Head(service[u]), Token(u, token[u] + 1)))
    /\ IF Head(service[u]).force THEN UNCHANGED events ELSE Event
    /\ UNCHANGED <<work, providerVars, clientVars, queue>>

\* The request fails; signOutIfTokenIsInvalidWithError: may sign out the user.
FetchFailed(u, signOut) ==
    /\ service[u] # <<>>
    /\ Event
    /\ service' = [service EXCEPT ![u] = Tail(@)]
    /\ IF signOut /\ u = auth.user
       THEN /\ auth' = [user |-> Nobody, notified |-> Nobody]
            /\ main' = main \o Notification(Nobody, Nobody)
                            \o Callback(Head(service[u]), Failure)
       ELSE /\ main' = main \o Callback(Head(service[u]), Failure)
            /\ UNCHANGED auth
    /\ UNCHANGED <<token, work, providerVars, clientVars, queue>>

\* scheduleAutoTokenRefreshWithDelay:retry: replaces the token of the user.
AutoRefresh ==
    /\ auth.user # Nobody
    /\ service[auth.user] = <<>>
    /\ Refreshed(auth.user, <<>>)
    /\ Event
    /\ UNCHANGED <<work, service, providerVars, clientVars, queue>>

-----------------------------------------------------------------------------
(* FirebaseCredentialsProvider, on the main queue                          *)

MayEnqueue(op) == queue' = IF restricted THEN queue ELSE Append(queue, op)

\* A block begins and locks weak_contents.  A notification is only posted to an
\* observer; contents is gone when the provider was destroyed.
EnterBlock ==
    /\ main # <<>>
    /\ block = NoBlock
    /\ ~(CreatedOnMain /\ provider = "constructing")
    /\ main' = Tail(main)
    /\ block' = IF \/ Head(main).kind = "notify" /\ provider = "live"
                   \/ Head(main).kind = "callback" /\ provider # "destroyed"
                THEN Head(main) ELSE NoBlock
    /\ UNCHANGED <<authVars, provider, contents, listening, usable, clientVars,
                   queue, events>>

\* The observer of FIRAuthStateDidChangeInternalNotification, with the
\* listener of FirestoreClient::Create().
AuthStateDidChange ==
    /\ block.kind = "notify"
    /\ contents' = [contents EXCEPT !.user = block.user, !.counter = @ + 1]
    /\ IF listening
       THEN MayEnqueue([kind |-> "change", user |-> block.user])
       ELSE UNCHANGED queue
    /\ block' = NoBlock
    /\ UNCHANGED <<authVars, provider, listening, usable, clientVars, main,
                   events>>

\* Mutant: get_token_callback does not look at token_counter.
GetTokenCallbackUnchecked ==
    /\ block.kind = "callback"
    /\ MayEnqueue([kind |-> "token", closes |-> block.request.closes,
                   result |-> block.result, user |-> contents.user])
    /\ block' = NoBlock
    /\ UNCHANGED <<authVars, provider, contents, listening, usable, clientVars,
                   main, events>>

\* get_token_callback, if the token did not change: the completion of
\* RequestCredentials() enqueues what it got.
GetTokenCallback ==
    /\ block.kind = "callback"
    /\ block.request.count = contents.counter
    /\ MayEnqueue([kind |-> "token", closes |-> block.request.closes,
                   result |-> block.result, user |-> contents.user])
    /\ block' = NoBlock
    /\ UNCHANGED <<authVars, provider, contents, listening, usable, clientVars,
                   main, events>>

\* Mutant: a token that is out of date is dropped.
GetTokenAgainNot ==
    /\ block.kind = "callback"
    /\ block.request.count # contents.counter
    /\ block' = NoBlock
    /\ UNCHANGED <<authVars, provider, contents, listening, usable, clientVars,
                   main, queue, events>>

\* Mutant: the next request is made with the old token_counter.
GetTokenAgainStale ==
    /\ block.kind = "callback"
    /\ block.request.count # contents.counter
    /\ provider = "live"
    /\ work' = Append(work, [block.request EXCEPT !.force = contents.force])
    /\ block' = [kind |-> "reset", forced |-> contents.force]
    /\ UNCHANGED <<auth, token, service, provider, contents, listening, usable,
                   clientVars, main, queue, events>>

\* get_token_callback, if it did: GetToken() asserts that the listener is not
\* removed and passes force_refresh on, with contents->mutex still locked ...
GetTokenAgain ==
    /\ block.kind = "callback"
    /\ block.request.count # contents.counter
    /\ IF provider = "live"
       THEN /\ work' = Append(work, [block.request EXCEPT
                                       !.count = contents.counter,
                                       !.force = contents.force])
            /\ block' = [kind |-> "reset", forced |-> contents.force]
            /\ UNCHANGED usable
       ELSE /\ usable' = FALSE
            /\ block' = NoBlock
            /\ UNCHANGED work
    /\ UNCHANGED <<auth, token, service, provider, contents, listening,
                   clientVars, main, queue, events>>

\* ... and resets it.
GetTokenAgainReset ==
    /\ block.kind = "reset"
    /\ contents' = [contents EXCEPT !.force = FALSE]
    /\ block' = NoBlock
    /\ UNCHANGED <<authVars, provider, listening, usable, clientVars, main,
                   queue, events>>

MutexFree == block.kind # "reset"

-----------------------------------------------------------------------------
(* Creation and termination of the client, on an application thread.       *)

\* The constructor reads the user ...
Construct ==
    /\ provider = "absent"
    /\ provider' = "constructing"
    /\ contents' = [contents EXCEPT !.user = auth.user]
    /\ UNCHANGED <<authVars, listening, block, usable, clientVars, main, queue,
                   events>>

\* ... and adds the observer.
AddObserver ==
    /\ provider = "constructing"
    /\ provider' = "live"
    /\ UNCHANGED <<authVars, contents, listening, block, usable, clientVars,
                   main, queue, events>>

\* FirestoreClient::Create(): SetCredentialChangeListener() fires the initial
\* event, which enqueues Initialize().
CreateClient ==
    /\ provider = "live" /\ ~listening /\ MutexFree
    /\ engine = Failure /\ queue = <<>> /\ ~restricted
    /\ listening' = TRUE
    /\ queue' = <<[kind |-> "change", user |-> contents.user]>>
    /\ UNCHANGED <<authVars, provider, contents, block, usable, clientVars,
                   main, events>>

TerminateAsync ==
    /\ listening /\ ~restricted
    /\ restricted' = TRUE
    /\ queue' = Append(queue, [kind |-> "terminate"])
    /\ UNCHANGED <<authVars, providerVars, pc, request, engine, stream, main,
                   events>>

-----------------------------------------------------------------------------
(* The worker queue                                                        *)

IsStarted(s) == s.state \in {"Starting", "Open"}

\* Stream::Close(); an error is followed by backoff, which is left out.
Close(s, state) == [state |-> state, closes |-> s.closes + 1, token |-> Nobody]

Starting(s) == [s EXCEPT !.state = "Starting"]

Next1(kind) == pc = "idle" /\ queue # <<>> /\ Head(queue).kind = kind

\* Mutant: HandleCredentialChange() does not restart the streams.
RunCredentialChangeKeepsStream(start) ==
    /\ Next1("change")
    /\ start = FALSE
    /\ queue' = Tail(queue)
    /\ engine' = Head(queue).user
    /\ UNCHANGED <<authVars, providerVars, restricted, request, stream, pc,
                   main, events>>

\* Mutant: the change waits until the stream is closed.
RunCredentialChangeLater(start) ==
    /\ Next1("change")
    /\ ~IsStarted(stream)
    /\ queue' = Tail(queue)
    /\ engine' = Head(queue).user
    /\ stream' = IF start THEN Starting(stream) ELSE stream
    /\ pc' = IF start THEN "count" ELSE "idle"
    /\ UNCHANGED <<authVars, providerVars, restricted, request, main, events>>

\* Initialize() and SyncEngine::HandleCredentialChange(): RestartNetwork() stops
\* the stream and starts it again if there is something to send.
RunCredentialChange(start) ==
    LET stopped == IF IsStarted(stream) THEN Close(stream, "Initial")
                   ELSE [stream EXCEPT !.state = "Initial"]
    IN  /\ Next1("change")
        /\ queue' = Tail(queue)
        /\ engine' = Head(queue).user
        /\ stream' = IF start THEN Starting(stopped) ELSE stopped
        /\ pc' = IF start THEN "count" ELSE "idle"
        /\ UNCHANGED <<authVars, providerVars, restricted, request, main,
                       events>>

\* Stream::Start() for a listen, a write, or after backoff.
StartStream ==
    /\ pc = "idle" /\ engine # Failure
    /\ ~IsStarted(stream)
    /\ stream' = Starting(stream)
    /\ pc' = "count"
    /\ UNCHANGED <<authVars, providerVars, restricted, request, engine, main,
                   queue, events>>

\* GetToken() on the worker: token_counter is read without the lock ...
GetTokenCount ==
    /\ pc = "count"
    /\ request' = [count |-> contents.counter, closes |-> stream.closes,
                   force |-> FALSE]
    /\ pc' = "dispatch"
    /\ UNCHANGED <<authVars, providerVars, restricted, engine, stream, main,
                   queue, events>>

\* ... force_refresh is passed on ...
GetTokenDispatch ==
    /\ pc = "dispatch"
    /\ work' = Append(work, [request EXCEPT !.force = contents.force])
    /\ request' = NoRequest
    /\ pc' = "reset"
    /\ UNCHANGED <<auth, token, service, providerVars, restricted, engine,
                   stream, main, queue, events>>

\* ... and reset.
GetTokenReset ==
    /\ pc = "reset"
    /\ contents' = [contents EXCEPT !.force = FALSE]
    /\ pc' = "idle"
    /\ UNCHANGED <<authVars, provider, listening, block, usable, restricted,
                   request, engine, stream, main, queue, events>>

\* What RequestCredentials() enqueued, and ResumeStartWithCredentials().
RunToken ==
    LET op == Head(queue)
    IN  /\ Next1("token")
        /\ queue' = Tail(queue)
        /\ stream' = IF op.closes # stream.closes THEN stream
                     ELSE IF op.result = Failure THEN Close(stream, "Error")
                     ELSE [stream EXCEPT !.state = "Open", !.token = op.result]
        /\ UNCHANGED <<authVars, providerVars, restricted, pc, request, engine,
                       main, events>>

\* Stream::Stop() by a timer or by DisableNetwork().
StopStream ==
    /\ pc = "idle"
    /\ IsStarted(stream)
    /\ stream' = Close(stream, "Initial")
    /\ Event
    /\ UNCHANGED <<authVars, providerVars, restricted, pc, request, engine,
                   main, queue>>

\* OnStreamFinish() with an error; the status Unauthenticated invalidates the
\* token.
StreamFinish(unauthenticated) ==
    /\ pc = "idle"
    /\ stream.state = "Open"
    /\ stream' = Close(stream, "Error")
    /\ contents' = [contents EXCEPT !.force = @ \/ unauthenticated]
    /\ Event
    /\ UNCHANGED <<authVars, provider, listening, block, usable, restricted,
                   pc, request, engine, main, queue>>

\* TerminateInternal(): SetCredentialChangeListener(nullptr) ...
RemoveListener ==
    /\ Next1("terminate")
    /\ MutexFree
    /\ provider' = "removed"
    /\ listening' = FALSE
    /\ pc' = "shutdown"
    /\ UNCHANGED <<authVars, contents, block, usable, restricted, request,
                   engine, stream, main, queue, events>>

\* ... RemoteStore::Shutdown(), and the provider is destroyed with the streams.
Shutdown ==
    /\ pc = "shutdown"
    /\ queue' = Tail(queue)
    /\ stream' = IF IsStarted(stream) THEN Close(stream, "Initial") ELSE stream
    /\ provider' = "destroyed"
    /\ pc' = "stopped"
    /\ UNCHANGED <<authVars, contents, listening, block, usable, restricted,
                   request, engine, main, events>>

-----------------------------------------------------------------------------
Init ==
    /\ \E u \in Users \cup {Nobody} :
          auth = [user |-> u, notified |-> Token(u, 1)]
    /\ token = [u \in Users |-> 1]
    /\ work = <<>> /\ service = [u \in Users |-> <<>>] /\ main = <<>>
    /\ block = NoBlock /\ provider = "absent" /\ listening = FALSE
    /\ contents = [user |-> Nobody, counter |-> 0, force |-> FALSE]
    /\ queue = <<>> /\ restricted = FALSE /\ pc = "idle"
    /\ request = NoRequest
    /\ engine = Failure
    /\ stream = [state |-> "Initial", closes |-> 0, token |-> Nobody]
    /\ usable = TRUE
    /\ events = 0

AuthStep ==
    \/ GetTokenForcingRefresh
    \/ \E u \in Users : FetchCached(u)
    \/ \E u \in Users : FetchRefreshed(u)
    \/ \E u \in Users, signOut \in BOOLEAN : FetchFailed(u, signOut)

MainStep ==
    \/ EnterBlock
    \/ AuthStateDidChange
    \/ GetTokenCallback
    \/ GetTokenAgain
    \/ GetTokenAgainReset

WorkerStep ==
    \/ \E start \in BOOLEAN : RunCredentialChange(start)
    \/ GetTokenCount
    \/ GetTokenDispatch
    \/ GetTokenReset
    \/ RunToken
    \/ RemoveListener
    \/ Shutdown

Environment ==
    \/ \E u \in Users \cup {Nobody} : UpdateCurrentUser(u)
    \/ AutoRefresh
    \/ Construct
    \/ AddObserver
    \/ CreateClient
    \/ TerminateAsync
    \/ StartStream
    \/ StopStream
    \/ \E unauthenticated \in BOOLEAN : StreamFinish(unauthenticated)

Next == AuthStep \/ MainStep \/ WorkerStep \/ Environment

Spec == Init /\ [][Next]_vars

\* The three queues execute what they hold.
FairSpec ==
    Spec /\ WF_vars(AuthStep) /\ WF_vars(MainStep) /\ WF_vars(WorkerStep)

-----------------------------------------------------------------------------
(* Properties                                                              *)

AccessToken == (Users \X Nat) \cup {Nobody}

Request == [count : Nat, closes : Nat, force : BOOLEAN]

\* Every variable has the type its declaration says.
CredentialTypeOK ==
    /\ auth \in [user : Users \cup {Nobody}, notified : AccessToken]
    /\ token \in [Users -> Nat]
    /\ \A i \in DOMAIN work : work[i] \in Request
    /\ \A u \in Users : \A i \in DOMAIN service[u] : service[u][i] \in Request
    /\ provider \in {"absent", "constructing", "live", "removed", "destroyed"}
    /\ contents \in [user : Users \cup {Nobody}, counter : Nat, force : BOOLEAN]
    /\ \A i \in DOMAIN main : main[i].kind \in {"notify", "callback"}
    /\ \A i \in DOMAIN queue : queue[i].kind \in {"change", "token", "terminate"}
    /\ pc \in {"idle", "count", "dispatch", "reset", "shutdown", "stopped"}
    /\ request \in Request
    /\ engine \in Users \cup {Nobody, Failure}
    /\ stream.state \in {"Initial", "Starting", "Open", "Error"}
    /\ stream.token \in AccessToken

\* "The user with which the token is associated" (auth/token.h): GetToken()
\* never pairs the token of one user with another one, although the user may
\* change at any time while the request is under way.
TokenHasItsUser ==
    \A i \in DOMAIN queue : queue[i].kind = "token" /\ queue[i].result # Failure =>
        UserOf(queue[i].result) = queue[i].user

\* A stream is open only with a token of the user whose writes and listens
\* SyncEngine sends on it.
StreamActsForEngineUser ==
    stream.state = "Open" => UserOf(stream.token) = engine

\* A stream that waits for its token has not been forgotten: its request, or the
\* answer, is on its way through one of the queues.
StartingStreamHasRequest ==
    LET OfStream(r) == r.closes = stream.closes
        OnItsWay ==
            \/ pc \in {"count", "dispatch"}
            \/ \E i \in DOMAIN work : OfStream(work[i])
            \/ \E u \in Users : \E i \in DOMAIN service[u] : OfStream(service[u][i])
            \/ \E i \in DOMAIN main : main[i].kind = "callback" /\ OfStream(main[i].request)
            \/ block.kind = "callback" /\ OfStream(block.request)
            \/ \E i \in DOMAIN queue : queue[i].kind = "token" /\ OfStream(queue[i])
    IN  stream.state = "Starting" /\ ~restricted => OnItsWay

\* A callback of Auth that asks for a token again finds the provider with its
\* listener: "don't call `GetToken()` after setting it to `nullptr`".
NoGetTokenAfterRemoval == usable

\* Unless it is terminated, the client learns of every change of the user.
EngineFollowsAuth == <>[](engine = auth.user \/ restricted \/ engine = Failure)

\* A stream does not wait for its token forever.
StreamsGetTokens == stream.state = "Starting" ~> stream.state # "Starting"
=============================================================================
