------------------------ MODULE ServiceClients_proofs ------------------------
(***************************************************************************)
(* Proofs about RpcClient and TokenRefresh, for every set of goroutines    *)
(* and every bound.                                                        *)
(***************************************************************************)
EXTENDS MCServiceClients, FiniteSetTheorems, TLAPS

-----------------------------------------------------------------------------
(* The token of the Bitable client.                                        *)

(* Client.refreshing is the lock of a refresh: it is set exactly while one *)
(* goroutine refreshes.                                                    *)
OneRefresher ==
  /\ refreshing => \E u \in Users : Refreshers = {u}
  /\ ~refreshing => Refreshers = {}

(* The channels of past refreshes are closed, and that of the refresh in   *)
(* progress is a new one: no channel is closed twice.                      *)
ChannelsInOrder ==
  \E n \in Nat : closed = 1..n /\ refreshDone = (IF refreshing THEN n + 1 ELSE 0)

(* Only a goroutine that has a token in hand or has returned one has got   *)
(* anything, and what is on its way to the cache is the newest token.      *)
GotNewest ==
  \A u \in Users :
    /\ user[u].at \in {"looking", "waiting", "requesting", "failing"} => user[u].got = 0
    /\ user[u].at = "storing" => user[u].got \in {0, issued}

(* The cached token, unless it is empty, is as new as any that was cached  *)
(* when a call in progress began.                                          *)
CacheIsNewest == token # 0 => \A u \in Users : user[u].least <= token

TokenInv ==
  /\ TokenTypeOK
  /\ OneRefresher /\ ChannelsInOrder /\ WakeUpNotLost
  /\ GotNewest /\ CacheIsNewest /\ TokenIsNotOlder

LEMMA TokenInvInit == TokenInit => TokenInv
<1> SUFFICES ASSUME TokenInit PROVE TokenInv
  OBVIOUS
<1>1. TokenTypeOK
  <2>1. user \in [Users -> [at : UserPlaces, done : Nat, got : 0..issued, least : 0..issued]]
    BY DEF TokenInit, UserPlaces
  <2>2. lookups \in 0..MaxLookups
    BY TokenBounds DEF TokenInit
  <2>3. fresh \in BOOLEAN /\ refreshing \in BOOLEAN
    BY Zenon DEF TokenInit
  <2> QED
    BY <2>1, <2>2, <2>3 DEF TokenInit, TokenTypeOK
<1>2. OneRefresher
  BY DEF TokenInit, OneRefresher, Refreshers
<1>3. ChannelsInOrder
  <2>1. closed = 1..0 /\ refreshDone = 0 /\ refreshing = FALSE
    BY DEF TokenInit
  <2> QED
    BY <2>1 DEF ChannelsInOrder
<1> QED
  BY <1>1, <1>2, <1>3
  DEF TokenInit, TokenInv, WakeUpNotLost, GotNewest, CacheIsNewest, TokenIsNotOlder

(* A step that neither begins nor ends a refresh.                          *)
LEMMA SameRefresh ==
  ASSUME TokenInv, UNCHANGED <<refreshing, refreshDone, closed>>, Refreshers' = Refreshers
  PROVE  OneRefresher' /\ ChannelsInOrder'
  BY DEF TokenInv, OneRefresher, ChannelsInOrder

(* The goroutine that begins a refresh becomes the only refresher.         *)
LEMMA BeginRefreshStep ==
  ASSUME TokenInv, NEW u \in Users, BeginRefresh(u)
  PROVE  TokenInv'
<1> USE DEF TokenInv
<1>1. user \in [Users -> [at : UserPlaces, done : Nat, got : 0..issued, least : 0..issued]]
  BY DEF TokenTypeOK
<1>2. PICK n \in Nat : closed = 1..n
  BY DEF ChannelsInOrder
<1>3. IsFiniteSet(closed) /\ Cardinality(closed) = n
  BY <1>2, FS_Interval
<1>4. /\ refreshing' = TRUE /\ refreshDone' = n + 1
      /\ user' = [user EXCEPT ![u].at = "requesting"]
      /\ UNCHANGED <<token, fresh, closed, issued, lookups>>
      /\ user[u].at = "looking" /\ ~refreshing
  BY <1>3 DEF BeginRefresh, Go
<1>5. TokenTypeOK'
  BY <1>1, <1>4 DEF TokenTypeOK, UserPlaces
<1>6. Refreshers' = {u}
  BY <1>1, <1>4 DEF OneRefresher, Refreshers
<1>7. OneRefresher' /\ ChannelsInOrder'
  BY <1>2, <1>4, <1>6 DEF OneRefresher, ChannelsInOrder
<1>8. WakeUpNotLost'
  BY <1>1, <1>4 DEF WakeUpNotLost
<1>9. GotNewest' /\ CacheIsNewest' /\ TokenIsNotOlder'
  BY <1>1, <1>4 DEF GotNewest, CacheIsNewest, TokenIsNotOlder
<1> QED
  BY <1>5, <1>7, <1>8, <1>9

(* The refresher wakes everybody and is the last refresher.                *)
LEMMA EndRefreshStep ==
  ASSUME TokenInv, NEW u \in Users, Store(u) \/ Fail(u)
  PROVE  TokenInv'
<1> USE DEF TokenInv
<1>1. /\ user \in [Users -> [at : UserPlaces, done : Nat, got : 0..issued, least : 0..issued]]
      /\ issued \in Nat
  BY DEF TokenTypeOK
<1>2. /\ refreshing' = FALSE /\ refreshDone' = 0 /\ closed' = closed \cup {refreshDone}
      /\ user' = [user EXCEPT ![u].at = "idle"]
      /\ user[u].at \in {"storing", "failing"}
      /\ UNCHANGED <<issued, lookups>>
  BY DEF Store, Fail, EndRefresh, Go
<1>3. refreshing /\ Refreshers = {u}
  BY <1>2 DEF OneRefresher, Refreshers
<1>4. Refreshers' = {}
  BY <1>1, <1>2, <1>3 DEF Refreshers
<1>5. PICK n \in Nat : closed = 1..n /\ refreshDone = n + 1
  BY <1>3 DEF ChannelsInOrder
<1>6. closed' = 1..(n + 1)
  BY <1>2, <1>5
<1>7. OneRefresher' /\ ChannelsInOrder'
  BY <1>2, <1>4, <1>6 DEF OneRefresher, ChannelsInOrder
<1>8. WakeUpNotLost'
  BY <1>1, <1>2 DEF WakeUpNotLost
<1>9. TokenTypeOK'
  <2>1. fresh' \in BOOLEAN /\ refreshing' \in BOOLEAN
    BY <1>2, Zenon DEF TokenTypeOK, Store, Fail
  <2>2. user' \in [Users -> [at : UserPlaces, done : Nat, got : 0..issued', least : 0..issued']]
    BY <1>1, <1>2 DEF UserPlaces
  <2>3. token' \in 0..issued'
    BY <1>1, <1>2 DEF TokenTypeOK, Store, Fail
  <2> QED
    BY <1>1, <1>2, <1>5, <2>1, <2>2, <2>3 DEF TokenTypeOK
<1>10. GotNewest'
  BY <1>1, <1>2 DEF GotNewest
<1>11. CacheIsNewest' /\ TokenIsNotOlder'
  <2>1. CASE Store(u)
    <3>1. token' = user[u].got /\ user[u].got \in {0, issued}
      BY <2>1 DEF Store, GotNewest
    <3> QED
      BY <1>1, <1>2, <3>1 DEF CacheIsNewest, TokenIsNotOlder
  <2>2. CASE Fail(u)
    <3>1. token' = token /\ user[u].got = 0
      BY <2>2 DEF Fail, GotNewest
    <3> QED
      BY <1>1, <1>2, <3>1 DEF CacheIsNewest, TokenIsNotOlder
  <2> QED
    BY <2>1, <2>2
<1> QED
  BY <1>7, <1>8, <1>9, <1>10, <1>11

LEMMA TokenInvStep ==
  ASSUME TokenInv, [TokenNext]_tokenVars
  PROVE  TokenInv'
<1> DEFINE Others == WakeUpNotLost /\ GotNewest /\ CacheIsNewest /\ TokenIsNotOlder
<1>1. /\ user \in [Users -> [at : UserPlaces, done : Nat, got : 0..issued, least : 0..issued]]
      /\ token \in 0..issued /\ issued \in Nat
  BY DEF TokenInv, TokenTypeOK
<1>2. ASSUME NEW u \in Users, Lookup(u) PROVE TokenInv'
  <2>1. TokenTypeOK'
    <3>1. user' \in [Users -> [at : UserPlaces, done : Nat, got : 0..issued', least : 0..issued']]
      BY <1>1, <1>2 DEF Lookup, UserPlaces
    <3>2. lookups' \in 0..MaxLookups
      BY <1>2, TokenBounds DEF Lookup, TokenInv, TokenTypeOK
    <3> QED
      BY <1>2, <3>1, <3>2 DEF TokenInv, TokenTypeOK, Lookup
  <2>2. Refreshers' = Refreshers
    BY <1>1, <1>2 DEF Lookup, Refreshers
  <2>3. Others'
    BY <1>1, <1>2
    DEF TokenInv, Lookup, WakeUpNotLost, GotNewest, CacheIsNewest, TokenIsNotOlder
  <2> QED
    BY <1>2, <2>1, <2>2, <2>3, SameRefresh DEF Lookup, TokenInv
<1>3. ASSUME NEW u \in Users, UseCached(u) \/ WaitForRefresh(u) \/ Woken(u) \/ Abandon(u)
      PROVE  TokenInv'
  <2>1. TokenTypeOK'
    BY <1>1, <1>3
    DEF TokenInv, TokenTypeOK, UseCached, WaitForRefresh, Woken, Abandon, UserPlaces
  <2>2. Refreshers' = Refreshers
    BY <1>1, <1>3 DEF UseCached, WaitForRefresh, Woken, Abandon, Refreshers
  <2>3. Others'
    BY <1>1, <1>3
    DEF TokenInv, UseCached, WaitForRefresh, Woken, Abandon, Cached,
        WakeUpNotLost, GotNewest, CacheIsNewest, TokenIsNotOlder
  <2> QED
    BY <1>3, <2>1, <2>2, <2>3, SameRefresh
    DEF UseCached, WaitForRefresh, Woken, Abandon, TokenInv
<1>4. ASSUME NEW u \in Users, Issued(u) PROVE TokenInv'
  <2>1. TokenTypeOK'
    <3>1. PICK t \in {0, issued'} : user' = [user EXCEPT ![u].at = "storing", ![u].got = t]
      BY <1>4 DEF Issued
    <3>2. issued' = issued + 1 /\ issued' \in Nat /\ t \in 0..issued' /\ token \in 0..issued'
      BY <1>1, <1>4, <3>1 DEF Issued
    <3>3. user \in [Users -> [at : UserPlaces, done : Nat, got : 0..issued', least : 0..issued']]
      BY <1>1, <3>2
    <3>4. user' \in [Users -> [at : UserPlaces, done : Nat, got : 0..issued', least : 0..issued']]
      BY ZenonT(120), <3>1, <3>2, <3>3 DEF UserPlaces
    <3> QED
      BY <1>4, <3>2, <3>4 DEF TokenInv, TokenTypeOK, Issued
  <2>2. Refreshers' = Refreshers
    BY <1>1, <1>4 DEF Issued, Refreshers
  <2>3. \A v \in Users \ {u} : user[v].at # "storing"
    BY <1>4 DEF TokenInv, OneRefresher, Refreshers, Issued
  <2>4. Others'
    BY <1>1, <1>4, <2>3
    DEF TokenInv, Issued, WakeUpNotLost, GotNewest, CacheIsNewest, TokenIsNotOlder
  <2> QED
    BY <1>4, <2>1, <2>2, <2>4, SameRefresh DEF Issued, TokenInv
<1>5. ASSUME NEW u \in Users, RequestFails(u) PROVE TokenInv'
  <2>1. TokenTypeOK'
    BY <1>1, <1>5 DEF TokenInv, TokenTypeOK, RequestFails, Go, UserPlaces
  <2>2. Refreshers' = Refreshers
    BY <1>1, <1>5 DEF RequestFails, Go, Refreshers
  <2>3. Others'
    BY <1>1, <1>5
    DEF TokenInv, RequestFails, Go, WakeUpNotLost, GotNewest, CacheIsNewest, TokenIsNotOlder
  <2> QED
    BY <1>5, <2>1, <2>2, <2>3, SameRefresh DEF RequestFails, TokenInv
<1>6. ASSUME Expire \/ UNCHANGED tokenVars PROVE TokenInv'
  <2>1. TokenTypeOK' /\ Refreshers' = Refreshers /\ Others'
    BY <1>6
    DEF TokenInv, TokenTypeOK, Expire, tokenVars, Refreshers,
        WakeUpNotLost, GotNewest, CacheIsNewest, TokenIsNotOlder
  <2> QED
    BY <1>6, <2>1, SameRefresh DEF Expire, tokenVars, TokenInv
<1> QED
  BY <1>2, <1>3, <1>4, <1>5, <1>6, BeginRefreshStep, EndRefreshStep DEF TokenNext, InCall

LEMMA TokenInvIsSafe == TokenInv => TokenSafety
<1> SUFFICES ASSUME TokenInv PROVE OneRefresh
  BY DEF TokenInv, TokenSafety
<1>1. \A u \in Users : Cardinality({u}) = 1
  BY FS_Singleton
<1>2. Cardinality({}) = 0
  BY FS_EmptySet
<1> QED
  BY <1>1, <1>2 DEF TokenInv, OneRefresher, OneRefresh

(* However many goroutines need a token, and whatever their requests come  *)
(* to: one of them refreshes at a time (tenantAccessToken), no wake-up is  *)
(* lost, and a call returns no token older than the one cached before.     *)
THEOREM TokenIsShared == TokenSpec => []TokenSafety
<1>1. TokenInit /\ [][TokenNext]_tokenVars => []TokenInv
  BY TokenInvInit, TokenInvStep, PTL
<1> QED
  BY <1>1, TokenInvIsSafe, PTL DEF TokenSpec

-----------------------------------------------------------------------------
(* The RPC client.                                                         *)

(* A call gets its id once, and no other call has it.                      *)
IdsDiffer ==
  /\ \A c \in Callers : /\ call[c].at = "idle" <=> call[c].id = 0
                        /\ call[c].id <= nextID
  /\ \A c, d \in Callers : call[c].id = call[d].id /\ call[c].id # 0 => c = d

(* A call that can be found in the map has no result, and nobody is about  *)
(* to give it one.                                                         *)
PendingIsUnanswered ==
  \A i \in DOMAIN pending :
    /\ call[pending[i]].id = i
    /\ slot[pending[i]] = <<>>
    /\ \A h \in Hands : pending[i] \notin hand[h]

(* Results are only for calls that were made.                              *)
ResultsAreForCalls ==
  \A c \in Callers : call[c].at = "idle" => slot[c] = <<>> /\ \A h \in Hands : c \notin hand[h]

(* What the app-server was asked, and what it answers, names the call that *)
(* has the id.                                                             *)
AskedIsOwn == \A request \in asked : call[request.of].id = request.id /\ request.id # 0

InboxIsOwn ==
  \A n \in DOMAIN inbox : inbox[n].kind = "reply" =>
    \E c \in Callers : inbox[n].of = {c} /\ inbox[n].id = call[c].id /\ inbox[n].id # 0

(* The reply in hand, and a reply in the channel of a call, are its own.   *)
RoutedIsOwn == \A c \in hand["route"] : reply.kind = "reply" /\ reply.of = {c}

SlotIsOwn ==
  \A c \in Callers : \A n \in DOMAIN slot[c] :
    slot[c][n].kind = "reply" => slot[c][n].of = {c}

RpcInv ==
  /\ RpcTypeOK
  /\ IdsDiffer /\ PendingIsUnanswered /\ ResultsAreForCalls /\ ResultsFit
  /\ AskedIsOwn /\ InboxIsOwn /\ RoutedIsOwn /\ SlotIsOwn /\ OwnReply

LEMMA FrameTypes ==
  /\ \A kinds : \A kind \in kinds : Other(kind) \in Frames(kinds)
  /\ \A request \in Requests : \A kinds : "reply" \in kinds => Reply(request) \in Frames(kinds)
  BY DEF Other, Reply, Frame, Frames, Requests

LEMMA WithoutMap ==
  ASSUME NEW key, pending' = Without(pending, key)
  PROVE  /\ DOMAIN pending' = DOMAIN pending \ {key}
         /\ \A i \in DOMAIN pending' : pending'[i] = pending[i]
         /\ Values(pending') \subseteq Values(pending)
<1>1. /\ DOMAIN pending' = DOMAIN pending \ {key}
      /\ \A i \in DOMAIN pending' : pending'[i] = pending[i]
  BY DEF Without
<1> QED
  BY <1>1 DEF Values

(* The channels of a connection keep their types.                          *)
LEMMA ChannelTypes ==
  ASSUME NEW S, NEW q \in Seq(S)
  PROVE  /\ \A e \in S : Append(q, e) \in Seq(S)
         /\ q # <<>> => Tail(q) \in Seq(S) /\ Head(q) \in S
         /\ \A n \in 0..Len(q) : SubSeq(q, 1, n) \in Seq(S)
  OBVIOUS

LEMMA RpcTypeInit == RpcInit => RpcTypeOK
<1> SUFFICES ASSUME RpcInit PROVE RpcTypeOK
  OBVIOUS
<1>1. nextID \in Nat /\ DOMAIN pending \subseteq 1..nextID /\ Values(pending) \subseteq Callers
  BY DEF RpcInit, Values
<1>2. slot \in [Callers -> Seq(Frames({"error", "reply"}))]
  BY DEF RpcInit
<1>3. call \in [Callers -> [at : Places, id : Nat,
                            result : Frames({"none", "error", "reply"})]]
  BY FrameTypes DEF RpcInit, Places
<1>4. notes \in 0..NoteCap /\ extra \in 0..MaxExtra
  BY RpcBounds DEF RpcInit
<1>5. inbox \in Seq(Frames({"reply", "note", "bad"})) /\ reply \in Frames({"none", "reply"})
  BY FrameTypes DEF RpcInit
<1> QED
  BY <1>1, <1>2, <1>3, <1>4, <1>5 DEF RpcInit, RpcTypeOK, Requests

LEMMA RpcTypeStep ==
  ASSUME RpcInv, [RpcNext]_rpcVars
  PROVE  RpcTypeOK'
<1> DEFINE CallState == [at : Places, id : Nat, result : Frames({"none", "error", "reply"})]
           Results == Frames({"error", "reply"})
           Incomings == Frames({"reply", "note", "bad"})
<1>1. /\ nextID \in Nat
      /\ DOMAIN pending \subseteq 1..nextID /\ Values(pending) \subseteq Callers
      /\ slot \in [Callers -> Seq(Results)]
      /\ call \in [Callers -> CallState]
      /\ inbox \in Seq(Incomings)
      /\ asked \subseteq Requests /\ open \subseteq asked
      /\ notes \in 0..NoteCap /\ extra \in 0..MaxExtra
      /\ hand \in [Hands -> SUBSET Callers]
      /\ reply \in Frames({"none", "reply"})
  BY DEF RpcInv, RpcTypeOK
<1>2. Results \subseteq Frames({"none", "error", "reply"})
  BY DEF Frames
<1>3. nextID' \in Nat /\ nextID' >= nextID => asked \subseteq Requests'
  BY <1>1 DEF Requests
<1>4. ASSUME NEW c \in Callers, Dispatch(c) PROVE RpcTypeOK'
  <2>1. nextID' = nextID + 1
    BY <1>4 DEF Dispatch, NextRequestID
  <2>2. DOMAIN pending' \subseteq 1..nextID' /\ Values(pending') \subseteq Callers
    <3>1. /\ DOMAIN pending' = DOMAIN pending \cup {nextID'}
          /\ \A i \in DOMAIN pending' : pending'[i] = IF i = nextID' THEN c ELSE pending[i]
      BY <1>4 DEF Dispatch
    <3>2. DOMAIN pending' \subseteq 1..nextID'
      BY <1>1, <2>1, <3>1
    <3>3. \A i \in DOMAIN pending : pending[i] \in Callers
      BY <1>1 DEF Values
    <3>4. \A i \in DOMAIN pending' : pending'[i] \in Callers
      BY <3>1, <3>3
    <3> QED
      BY <3>2, <3>4 DEF Values
  <2>3. call' \in [Callers -> CallState]
    <3>1. call' = [call EXCEPT ![c] = [@ EXCEPT !.at = "sending", !.id = nextID']]
      BY <1>4 DEF Dispatch
    <3>2. call[c] \in CallState /\ nextID' \in Nat /\ "sending" \in Places
      BY <1>1, <2>1 DEF Places
    <3>3. [call[c] EXCEPT !.at = "sending", !.id = nextID'] \in CallState
      BY <3>2
    <3> QED
      BY <1>1, <3>1, <3>3
  <2>4. asked' \subseteq Requests'
    BY <1>1, <1>3, <1>4, <2>1 DEF Dispatch
  <2> QED
    BY <1>1, <1>4, <2>1, <2>2, <2>3, <2>4 DEF RpcInv, RpcTypeOK, Dispatch
<1>5. ASSUME NEW c \in Callers, SendRequest(c) PROVE RpcTypeOK'
  <2>1. call' \in [Callers -> CallState]
    BY <1>1, <1>5 DEF SendRequest, Places
  <2>2. [id |-> call[c].id, of |-> c] \in Requests
    BY <1>1, <1>5 DEF Requests, RpcInv, IdsDiffer, SendRequest
  <2>3. asked' \subseteq Requests /\ open' \subseteq asked'
    BY <1>1, <1>5, <2>2 DEF SendRequest
  <2> QED
    BY <1>5, <2>1, <2>3 DEF RpcInv, RpcTypeOK, SendRequest, Requests
<1>6. ASSUME NEW c \in Callers, SendFails(c) \/ Cancel(c) PROVE RpcTypeOK'
  <2>1. GiveUp(c)
    BY <1>6 DEF SendFails, Cancel
  <2>2. Other("error") \in Frames({"none", "error", "reply"})
    BY FrameTypes
  <2>3. call' \in [Callers -> CallState]
    BY ZenonT(120), <1>1, <2>1, <2>2 DEF GiveUp, Places
  <2>4. DOMAIN pending' \subseteq 1..nextID' /\ Values(pending') \subseteq Callers
    <3>1. pending' = Without(pending, call[c].id) /\ nextID' = nextID
      BY <2>1 DEF GiveUp
    <3>2. DOMAIN pending' \subseteq DOMAIN pending /\ Values(pending') \subseteq Values(pending)
      BY <3>1, WithoutMap
    <3> QED
      BY <1>1, <3>1, <3>2
  <2> QED
    BY <2>1, <2>3, <2>4 DEF RpcInv, RpcTypeOK, GiveUp, Requests
<1>7. ASSUME NEW c \in Callers, TakeResult(c) PROVE RpcTypeOK'
  <2>1. Tail(slot[c]) \in Seq(Results) /\ Head(slot[c]) \in Results
    BY <1>1, <1>7, ChannelTypes DEF TakeResult
  <2>2. call' \in [Callers -> CallState] /\ slot' \in [Callers -> Seq(Results)]
    BY ZenonT(120), <1>1, <1>2, <1>7, <2>1 DEF TakeResult, Places
  <2> QED
    BY <1>7, <2>2 DEF RpcInv, RpcTypeOK, TakeResult, Requests
<1>8. ASSUME Network PROVE RpcTypeOK'
  <2>1. ASSUME NEW frame \in Incomings, Incoming(frame) PROVE inbox' \in Seq(Incomings)
    BY <1>1, <2>1, ChannelTypes DEF Incoming
  <2>2. CASE Notify \/ Garble \/ \E request \in asked : Repeat(request)
    <3>1. PICK frame \in Incomings : Extra(frame) /\ UNCHANGED open
      BY <1>1, <2>2, FrameTypes DEF Notify, Garble, Repeat, Extra
    <3>2. extra' \in 0..MaxExtra
      BY <1>1, <3>1, RpcBounds DEF Extra
    <3> QED
      BY <2>1, <3>1, <3>2 DEF RpcInv, RpcTypeOK, Extra, Incoming, Requests
  <2>3. CASE \E request \in asked : Answer(request)
    <3>1. PICK request \in asked : Answer(request)
      BY <2>3
    <3>2. Incoming(Reply(request)) /\ Reply(request) \in Incomings
      BY <1>1, <3>1, FrameTypes DEF Answer
    <3> QED
      BY <2>1, <3>1, <3>2 DEF RpcInv, RpcTypeOK, Answer, Incoming, Requests
  <2>4. CASE Break
    <3>1. inbox' \in Seq(Incomings)
      BY <1>1, <2>4, ChannelTypes DEF Break, CutOff
    <3> QED
      BY <2>4, <3>1 DEF RpcInv, RpcTypeOK, Break, CutOff, Requests
  <2> QED
    BY <1>8, <2>2, <2>3, <2>4 DEF Network
<1>9. ASSUME RouteResponse PROVE RpcTypeOK'
  <2>1. inbox' \in Seq(Incomings) /\ Head(inbox) \in Incomings /\ Head(inbox).kind = "reply"
    BY <1>1, <1>9, ChannelTypes DEF RouteResponse, Read
  <2>2. /\ DOMAIN pending' \subseteq 1..nextID /\ Values(pending') \subseteq Callers
        /\ hand' \in [Hands -> SUBSET Callers]
        /\ reply' \in Frames({"none", "reply"})
        /\ reader' \in {reader, "routing"}
    <3>1. CASE Head(inbox).id \in DOMAIN pending
      <4>1. pending[Head(inbox).id] \in Callers
        BY <1>1, <3>1 DEF Values
      <4>2. DOMAIN pending' \subseteq 1..nextID /\ Values(pending') \subseteq Callers
        <5>1. pending' = Without(pending, Head(inbox).id)
          BY <1>9, <3>1 DEF RouteResponse, ForgetCall
        <5>2. DOMAIN pending' \subseteq DOMAIN pending /\ Values(pending') \subseteq Values(pending)
          BY <5>1, WithoutMap
        <5> QED
          BY <1>1, <5>2
      <4>3. reply' \in Frames({"none", "reply"})
        BY <1>9, <2>1, <3>1 DEF RouteResponse, Frames
      <4>4. hand' \in [Hands -> SUBSET Callers] /\ reader' = "routing"
        <5>1. hand' = [hand EXCEPT !["route"] = {pending[Head(inbox).id]}] /\ reader' = "routing"
          BY <1>9, <3>1 DEF RouteResponse
        <5> QED
          BY <1>1, <4>1, <5>1
      <4> QED
        BY <4>2, <4>3, <4>4
    <3>2. CASE Head(inbox).id \notin DOMAIN pending
      BY <1>1, <1>9, <3>2 DEF RouteResponse
    <3> QED
      BY <3>1, <3>2
  <2> QED
    BY <1>9, <2>1, <2>2 DEF RpcInv, RpcTypeOK, RouteResponse, Requests
<1>10. ASSUME NEW h \in Hands, NEW c \in Callers, NEW result \in Results, SendResult(h, c, result)
       PROVE  slot' \in [Callers -> Seq(Results)] /\ hand' \in [Hands -> SUBSET Callers]
  <2>1. Append(slot[c], result) \in Seq(Results)
    BY <1>1, ChannelTypes
  <2> QED
    BY <1>1, <1>10, <2>1 DEF SendResult
<1>11. ASSUME PutReply PROVE RpcTypeOK'
  <2>1. PICK c \in hand["route"] : SendResult("route", c, reply)
    BY <1>11 DEF PutReply
  <2>2. c \in Callers /\ "route" \in Hands
    BY <1>1 DEF Hands
  <2>3. reply \in Results
    BY <1>1, <2>1 DEF RpcInv, RoutedIsOwn, Frames
  <2>4. slot' \in [Callers -> Seq(Results)] /\ hand' \in [Hands -> SUBSET Callers]
    BY <1>10, <2>1, <2>2, <2>3
  <2>5. reply' \in Frames({"none", "reply"})
    BY <1>11, FrameTypes DEF PutReply
  <2> QED
    BY <1>11, <2>1, <2>4, <2>5 DEF RpcInv, RpcTypeOK, PutReply, SendResult, Requests
<1>12. ASSUME NEW h \in {"reader", "closer"}, NEW c \in Callers, FailCall(h, c)
       PROVE  RpcTypeOK'
  <2>1. slot' \in [Callers -> Seq(Results)] /\ hand' \in [Hands -> SUBSET Callers]
    BY <1>10, <1>12, FrameTypes DEF FailCall, Hands
  <2> QED
    BY <1>12, <2>1 DEF RpcInv, RpcTypeOK, FailCall, SendResult, Requests
<1>13. ASSUME ReadNote \/ PutNote \/ TakeNote PROVE RpcTypeOK'
  <2>1. inbox' \in Seq(Incomings)
    <3>1. inbox' = inbox \/ (inbox # <<>> /\ inbox' = Tail(inbox))
      BY <1>13 DEF ReadNote, PutNote, TakeNote, Read
    <3> QED
      BY ZenonT(120), <1>1, <3>1, ChannelTypes
  <2>2. notes' \in 0..NoteCap
    BY <1>1, <1>13, RpcBounds DEF ReadNote, PutNote, TakeNote
  <2> QED
    BY <1>13, <2>1, <2>2 DEF RpcInv, RpcTypeOK, ReadNote, PutNote, TakeNote, Requests
<1>14. ASSUME NEW h \in {"reader", "closer"}, SwapPending(h)
       PROVE  /\ hand' \in [Hands -> SUBSET Callers]
              /\ DOMAIN pending' \subseteq 1..nextID /\ Values(pending') \subseteq Callers
  BY <1>1, <1>14 DEF SwapPending, Hands, Values
<1>15. ASSUME ReadEnds \/ CloseBegins PROVE RpcTypeOK'
  <2>1. inbox' \in Seq(Incomings)
    <3>1. inbox' = inbox \/ inbox' = <<>>
      BY <1>15 DEF ReadEnds, CloseBegins
    <3>2. <<>> \in Seq(Incomings)
      OBVIOUS
    <3> QED
      BY <1>1, <3>1, <3>2
  <2>2. /\ hand' \in [Hands -> SUBSET Callers]
        /\ DOMAIN pending' \subseteq 1..nextID /\ Values(pending') \subseteq Callers
    BY <1>14, <1>15 DEF ReadEnds, CloseBegins
  <2> QED
    BY <1>15, <2>1, <2>2 DEF RpcInv, RpcTypeOK, ReadEnds, CloseBegins, Requests
<1>16. ASSUME ReaderExits \/ CloseReturns PROVE RpcTypeOK'
  BY <1>16 DEF RpcInv, RpcTypeOK, ReaderExits, CloseReturns, Requests
<1>17. ASSUME CloseTransport PROVE RpcTypeOK'
  <2>1. inbox' \in Seq(Incomings)
    BY <1>1, <1>17, ChannelTypes DEF CloseTransport, CutOff
  <2> QED
    BY <1>17, <2>1 DEF RpcInv, RpcTypeOK, CloseTransport, CutOff, Requests
<1>18. ASSUME UNCHANGED rpcVars PROVE RpcTypeOK'
  BY <1>18 DEF RpcInv, RpcTypeOK, rpcVars, Requests
<1> QED
  BY <1>4, <1>5, <1>6, <1>7, <1>8, <1>9, <1>11, <1>12, <1>13, <1>15, <1>16, <1>17, <1>18
  DEF RpcNext, Calling, Reading, Closing

LEMMA RpcInvInit == RpcInit => RpcInv
<1> SUFFICES ASSUME RpcInit PROVE RpcInv
  OBVIOUS
<1>1. /\ nextID = 0 /\ DOMAIN pending = {} /\ DOMAIN inbox = {} /\ asked = {}
      /\ \A c \in Callers : /\ slot[c] = <<>> /\ DOMAIN slot[c] = {}
                            /\ call[c] = [at |-> "idle", id |-> 0, result |-> Other("none")]
      /\ \A h \in Hands : hand[h] = {}
  BY DEF RpcInit
<1>2. Other("none").kind # "reply"
  BY DEF Other, Frame
<1>3. IdsDiffer /\ PendingIsUnanswered /\ ResultsAreForCalls
  BY <1>1 DEF IdsDiffer, PendingIsUnanswered, ResultsAreForCalls
<1>4. ResultsFit /\ AskedIsOwn /\ InboxIsOwn /\ RoutedIsOwn /\ SlotIsOwn /\ OwnReply
  BY <1>1, <1>2
  DEF ResultsFit, AskedIsOwn, InboxIsOwn, RoutedIsOwn, SlotIsOwn, OwnReply, Hands
<1> QED
  BY <1>3, <1>4, RpcTypeInit DEF RpcInv

(* A result goes to a call that has left the map and that nobody else has  *)
(* in hand.                                                                *)
LEMMA SendResultStep ==
  ASSUME RpcInv, NEW h \in Hands, NEW c \in Callers, NEW result, SendResult(h, c, result),
         result.kind = "reply" => result.of = {c}
  PROVE  /\ PendingIsUnanswered' /\ ResultsAreForCalls' /\ ResultsFit' /\ SlotIsOwn'
         /\ \A g \in Hands : hand'[g] = hand[g] \ {c}
<1>1. slot \in [Callers -> Seq(Frames({"error", "reply"}))] /\ hand \in [Hands -> SUBSET Callers]
  BY DEF RpcInv, RpcTypeOK
<1>2. /\ slot[c] = <<>> /\ slot' = [slot EXCEPT ![c] = <<result>>]
      /\ hand' = [hand EXCEPT ![h] = @ \ {c}] /\ c \in hand[h]
      /\ UNCHANGED <<pending, call>>
  BY <1>1 DEF SendResult
<1>3. \A g \in Hands : hand'[g] = hand[g] \ {c}
  BY <1>1, <1>2 DEF RpcInv, ResultsFit
<1>4. \A i \in DOMAIN pending : pending[i] \in Callers /\ pending[i] # c
  BY <1>2 DEF RpcInv, RpcTypeOK, Values, PendingIsUnanswered
<1>5. PendingIsUnanswered'
  BY <1>1, <1>2, <1>3, <1>4 DEF RpcInv, PendingIsUnanswered
<1>6. ResultsAreForCalls'
  BY <1>1, <1>2, <1>3 DEF RpcInv, ResultsAreForCalls
<1>7. ResultsFit'
  BY <1>1, <1>2, <1>3 DEF RpcInv, ResultsFit
<1>8. SlotIsOwn'
  <2>1. DOMAIN <<result>> = {1} /\ <<result>>[1] = result
    OBVIOUS
  <2> QED
    BY <1>1, <1>2, <2>1 DEF RpcInv, SlotIsOwn
<1> QED
  BY <1>3, <1>5, <1>6, <1>7, <1>8

(* failAll: the calls of the map go to one hand.                           *)
LEMMA SwapPendingStep ==
  ASSUME RpcInv, NEW h \in {"reader", "closer"}, SwapPending(h), UNCHANGED <<call, slot, reply>>
  PROVE  PendingIsUnanswered' /\ ResultsAreForCalls' /\ ResultsFit' /\ RoutedIsOwn'
<1>1. hand \in [Hands -> SUBSET Callers] /\ h \in Hands /\ h # "route"
  BY DEF RpcInv, RpcTypeOK, Hands
<1>2. /\ DOMAIN pending' = {}
      /\ hand'[h] = Values(pending)
      /\ \A g \in Hands \ {h} : hand'[g] = hand[g]
  BY <1>1 DEF SwapPending
<1>3. \A c \in Values(pending) : /\ c \in Callers /\ call[c].at # "idle" /\ slot[c] = <<>>
                                 /\ \A g \in Hands : c \notin hand[g]
  BY DEF RpcInv, RpcTypeOK, Values, PendingIsUnanswered, IdsDiffer
<1>4. PendingIsUnanswered'
  BY <1>2 DEF PendingIsUnanswered
<1>5. ResultsAreForCalls'
  BY <1>2, <1>3 DEF RpcInv, ResultsAreForCalls
<1>6. ResultsFit'
  BY <1>2, <1>3 DEF RpcInv, ResultsFit
<1>7. RoutedIsOwn'
  BY <1>1, <1>2 DEF RpcInv, RoutedIsOwn, Hands
<1> QED
  BY <1>4, <1>5, <1>6, <1>7

LEMMA RpcInvStep ==
  ASSUME RpcInv, [RpcNext]_rpcVars
  PROVE  RpcInv'
<1> DEFINE CallState == [at : Places, id : Nat, result : Frames({"none", "error", "reply"})]
<1>1. RpcTypeOK'
  BY RpcTypeStep
<1>2. call \in [Callers -> CallState] /\ nextID \in Nat
  BY DEF RpcInv, RpcTypeOK
<1>3. \A i \in DOMAIN pending : /\ i \in 1..nextID /\ pending[i] \in Callers
                                /\ call[pending[i]].id = i
  BY DEF RpcInv, RpcTypeOK, Values, PendingIsUnanswered
<1>4. asked \subseteq Requests /\ \A request \in asked : request.of \in Callers
  BY DEF RpcInv, RpcTypeOK, Requests
<1>5. inbox \in Seq(Frames({"reply", "note", "bad"}))
  BY DEF RpcInv, RpcTypeOK
<1>6. slot \in [Callers -> Seq(Frames({"error", "reply"}))]
  BY DEF RpcInv, RpcTypeOK
<1>7. hand \in [Hands -> SUBSET Callers]
  BY DEF RpcInv, RpcTypeOK
(* The parts that speak of no call's place.                                *)
<1>8. ASSUME UNCHANGED <<slot, hand>> PROVE SlotIsOwn' /\ ResultsFit'
  BY <1>8 DEF RpcInv, SlotIsOwn, ResultsFit
<1>9. ASSUME UNCHANGED <<hand, reply>> PROVE RoutedIsOwn'
  BY <1>9 DEF RpcInv, RoutedIsOwn
<1>10. ASSUME UNCHANGED <<nextID, call>> PROVE IdsDiffer' /\ OwnReply'
  BY <1>10 DEF RpcInv, IdsDiffer, OwnReply
<1>11. ASSUME UNCHANGED <<call, asked>> PROVE AskedIsOwn'
  BY <1>11 DEF RpcInv, AskedIsOwn
<1>12. ASSUME UNCHANGED <<pending, call, slot, hand>>
       PROVE  PendingIsUnanswered' /\ ResultsAreForCalls'
  BY <1>12 DEF RpcInv, PendingIsUnanswered, ResultsAreForCalls
(* The frames that are read or lost leave those that were behind them.     *)
<1>13. ASSUME UNCHANGED call,
              \/ UNCHANGED inbox
              \/ inbox # <<>> /\ inbox' = Tail(inbox)
              \/ inbox' = <<>>
              \/ \E n \in 0..Len(inbox) : inbox' = SubSeq(inbox, 1, n)
       PROVE  InboxIsOwn'
  <2>1. \A n \in DOMAIN inbox' : \E m \in DOMAIN inbox : inbox'[n] = inbox[m]
    BY <1>5, <1>13
  <2> QED
    BY <1>13, <2>1 DEF RpcInv, InboxIsOwn
<1>14. ASSUME NEW c \in Callers, Dispatch(c) PROVE RpcInv'
  <2>1. /\ nextID' = nextID + 1
        /\ call[c].id = 0 /\ call'[c].id = nextID + 1 /\ call'[c].at = "sending"
        /\ call'[c].result = call[c].result
        /\ \A d \in Callers \ {c} : call'[d] = call[d]
        /\ DOMAIN pending' = DOMAIN pending \cup {nextID + 1}
        /\ \A i \in DOMAIN pending : pending'[i] = pending[i]
        /\ pending'[nextID + 1] = c
        /\ slot[c] = <<>> /\ \A h \in Hands : c \notin hand[h]
        /\ UNCHANGED <<slot, inbox, asked, hand, reply>>
    BY <1>2, <1>3, <1>14
    DEF RpcInv, IdsDiffer, ResultsAreForCalls, Dispatch, NextRequestID
  <2>2. IdsDiffer'
    BY <1>2, <2>1 DEF RpcInv, IdsDiffer
  <2>3. PendingIsUnanswered'
    BY <1>3, <2>1 DEF RpcInv, PendingIsUnanswered
  <2>4. ResultsAreForCalls'
    BY <2>1 DEF RpcInv, ResultsAreForCalls
  <2>5. AskedIsOwn' /\ InboxIsOwn' /\ OwnReply'
    BY <1>4, <2>1 DEF RpcInv, AskedIsOwn, InboxIsOwn, OwnReply
  <2> QED
    BY <1>1, <1>8, <1>9, <2>1, <2>2, <2>3, <2>4, <2>5 DEF RpcInv
(* A call changes its place, and keeps its id and its reply.               *)
<1>15. ASSUME NEW c \in Callers, NEW place \in Places \ {"idle"}, NEW result,
              call[c].at # "idle",
              call' = [call EXCEPT ![c].at = place, ![c].result = result],
              result.kind = "reply" => result.of = {c},
              UNCHANGED nextID
       PROVE  /\ IdsDiffer' /\ OwnReply'
              /\ \A d \in Callers : /\ call'[d].id = call[d].id
                                    /\ call'[d].at = "idle" => call[d].at = "idle"
  <2>1. /\ call'[c].id = call[c].id /\ call'[c].at # "idle" /\ call'[c].result = result
        /\ \A d \in Callers \ {c} : call'[d] = call[d]
        /\ call[c].at # "idle" /\ nextID' = nextID
        /\ result.kind = "reply" => result.of = {c}
    BY <1>2, <1>15
  <2>2. \A d \in Callers : /\ call'[d].id = call[d].id
                          /\ (call'[d].at = "idle") <=> (call[d].at = "idle")
    BY <2>1
  <2>3. IdsDiffer'
    BY <2>1, <2>2 DEF RpcInv, IdsDiffer
  <2>4. OwnReply'
    BY <2>1 DEF RpcInv, OwnReply
  <2>5. ASSUME NEW d \in Callers
        PROVE  /\ call'[d].id = call[d].id
               /\ call'[d].at = "idle" => call[d].at = "idle"
    BY <2>1
  <2> QED
    BY <2>3, <2>4, <2>5
<1>16. ASSUME \A d \in Callers : call'[d].id = call[d].id
       PROVE  /\ UNCHANGED asked => AskedIsOwn'
              /\ UNCHANGED inbox => InboxIsOwn'
  BY <1>4, <1>16 DEF RpcInv, AskedIsOwn, InboxIsOwn
<1>17. ASSUME NEW c \in Callers, SendRequest(c) PROVE RpcInv'
  <2>1. /\ call' = [call EXCEPT ![c].at = "waiting", ![c].result = call[c].result]
        /\ call[c].at = "sending" /\ UNCHANGED <<nextID, pending, slot, inbox, hand, reply>>
    BY <1>2, <1>17 DEF SendRequest
  <2>2. /\ IdsDiffer' /\ OwnReply'
        /\ \A d \in Callers : /\ call'[d].id = call[d].id
                              /\ call'[d].at = "idle" => call[d].at = "idle"
    BY <1>15, <2>1 DEF Places, RpcInv, OwnReply
  <2>3. AskedIsOwn'
    <3>1. asked' \subseteq asked \cup {[id |-> call[c].id, of |-> c]}
      BY <1>17 DEF SendRequest
    <3>2. call[c].id # 0
      BY <2>1 DEF RpcInv, IdsDiffer
    <3> QED
      BY <1>4, <2>2, <3>1, <3>2 DEF RpcInv, AskedIsOwn
  <2>4. PendingIsUnanswered' /\ ResultsAreForCalls'
    BY <1>3, <2>1, <2>2 DEF RpcInv, PendingIsUnanswered, ResultsAreForCalls
  <2> QED
    BY <1>1, <1>8, <1>9, <1>16, <2>1, <2>2, <2>3, <2>4 DEF RpcInv
<1>18. ASSUME NEW c \in Callers, SendFails(c) \/ Cancel(c) PROVE RpcInv'
  <2>1. /\ call' = [call EXCEPT ![c].at = "done", ![c].result = Other("error")]
        /\ call[c].at # "idle" /\ pending' = Without(pending, call[c].id)
        /\ UNCHANGED <<nextID, slot, inbox, asked, hand, reply>>
    BY <1>18 DEF SendFails, Cancel, GiveUp
  <2>2. /\ IdsDiffer' /\ OwnReply'
        /\ \A d \in Callers : /\ call'[d].id = call[d].id
                              /\ call'[d].at = "idle" => call[d].at = "idle"
    <3>1. Other("error").kind # "reply"
      BY DEF Other, Frame
    <3> QED
      BY <1>15, <2>1, <3>1 DEF Places
  <2>3. /\ DOMAIN pending' \subseteq DOMAIN pending
        /\ \A i \in DOMAIN pending' : pending'[i] = pending[i]
    BY <2>1, WithoutMap
  <2>4. PendingIsUnanswered' /\ ResultsAreForCalls'
    <3>1. ASSUME NEW i \in DOMAIN pending'
          PROVE  /\ i \in DOMAIN pending /\ pending'[i] = pending[i] /\ pending[i] \in Callers
                 /\ call'[pending'[i]].id = i
      BY <1>3, <2>2, <2>3
    <3>2. slot' = slot /\ hand' = hand
      BY <2>1
    <3>3. PendingIsUnanswered'
      BY <3>1, <3>2 DEF RpcInv, PendingIsUnanswered
    <3>4. ResultsAreForCalls'
      BY <2>2, <3>2 DEF RpcInv, ResultsAreForCalls
    <3> QED
      BY <3>3, <3>4
  <2> QED
    BY <1>1, <1>8, <1>9, <1>16, <2>1, <2>2, <2>4 DEF RpcInv
<1>19. ASSUME NEW c \in Callers, TakeResult(c) PROVE RpcInv'
  <2>1. /\ call' = [call EXCEPT ![c].at = "done", ![c].result = Head(slot[c])]
        /\ call[c].at # "idle" /\ slot[c] # <<>> /\ slot' = [slot EXCEPT ![c] = Tail(slot[c])]
        /\ UNCHANGED <<nextID, pending, inbox, asked, hand, reply>>
    BY <1>6, <1>19 DEF TakeResult
  <2>2. /\ Head(slot[c]) = slot[c][1] /\ 1 \in DOMAIN slot[c]
        /\ \A n \in DOMAIN Tail(slot[c]) : n + 1 \in DOMAIN slot[c] /\ Tail(slot[c])[n] = slot[c][n + 1]
    BY <1>6, <2>1
  <2>3. /\ IdsDiffer' /\ OwnReply'
        /\ \A d \in Callers : /\ call'[d].id = call[d].id
                              /\ call'[d].at = "idle" => call[d].at = "idle"
    <3>1. Head(slot[c]).kind = "reply" => Head(slot[c]).of = {c}
      BY <2>2 DEF RpcInv, SlotIsOwn
    <3> QED
      BY <1>15, <2>1, <3>1 DEF Places
  <2>4. SlotIsOwn'
    BY <1>6, <2>1, <2>2 DEF RpcInv, SlotIsOwn
  <2>5. \A h \in Hands : c \notin hand[h]
    BY <2>1 DEF RpcInv, ResultsFit
  <2>6. \A d \in Callers \ {c} : slot'[d] = slot[d]
    BY <1>6, <2>1
  <2>7. ResultsFit'
    BY <1>7, <2>1, <2>5, <2>6 DEF RpcInv, ResultsFit
  <2>8. PendingIsUnanswered'
    BY <1>3, <2>1, <2>3, <2>6 DEF RpcInv, PendingIsUnanswered
  <2>9. ResultsAreForCalls'
    <3>1. call'[c].at # "idle"
      BY <1>2, <2>1
    <3> QED
      BY <2>1, <2>3, <2>6, <3>1 DEF RpcInv, ResultsAreForCalls
  <2> QED
    BY <1>1, <1>9, <1>16, <2>1, <2>3, <2>4, <2>7, <2>8, <2>9 DEF RpcInv
<1>20. ASSUME NEW frame, Incoming(frame),
              frame.kind = "reply" =>
                \E c \in Callers : frame.of = {c} /\ frame.id = call[c].id /\ frame.id # 0
       PROVE  RpcInv'
  <2>1. /\ inbox' = Append(inbox, frame)
        /\ UNCHANGED <<nextID, pending, slot, call, asked, hand, reply>>
    BY <1>20 DEF Incoming
  <2>2. \A n \in DOMAIN inbox' : inbox'[n] = frame \/ (n \in DOMAIN inbox /\ inbox'[n] = inbox[n])
    BY <1>5, <2>1
  <2>3. InboxIsOwn'
    BY <1>20, <2>1, <2>2 DEF RpcInv, InboxIsOwn
  <2> QED
    BY <1>1, <1>8, <1>9, <1>10, <1>11, <1>12, <2>1, <2>3 DEF RpcInv
<1>21. ASSUME Network PROVE RpcInv'
  <2>1. ASSUME NEW request \in asked, Incoming(Reply(request)) PROVE RpcInv'
    <3>1. /\ Reply(request).id = call[request.of].id /\ Reply(request).id # 0
          /\ Reply(request).of = {request.of} /\ request.of \in Callers
      BY <1>4 DEF RpcInv, AskedIsOwn, Reply, Frame
    <3> QED
      BY <1>20, <2>1, <3>1
  <2>2. CASE Notify \/ Garble
    <3>1. Other("note").kind # "reply" /\ Other("bad").kind # "reply"
      BY DEF Other, Frame
    <3> QED
      BY <1>20, <2>2, <3>1 DEF Notify, Garble, Extra
  <2>3. CASE Break
    BY <1>1, <1>8, <1>9, <1>10, <1>11, <1>12, <1>13, <2>3 DEF RpcInv, Break, CutOff
  <2> QED
    BY <1>21, <2>1, <2>2, <2>3 DEF Network, Answer, Repeat, Extra
<1>22. ASSUME RouteResponse PROVE RpcInv'
  <2>1. /\ InboxIsOwn' /\ IdsDiffer' /\ OwnReply' /\ AskedIsOwn' /\ SlotIsOwn'
    BY <1>8, <1>10, <1>11, <1>13, <1>22 DEF RouteResponse, Read, RpcInv, SlotIsOwn
  <2>2. CASE Head(inbox).id \in DOMAIN pending
    <3> DEFINE i == Head(inbox).id
               d == pending[i]
    <3>1. /\ pending' = Without(pending, i)
          /\ hand' = [hand EXCEPT !["route"] = {d}] /\ reply' = Head(inbox)
          /\ reply'.kind = "reply" /\ UNCHANGED <<call, slot>>
      BY <1>22, <2>2 DEF RouteResponse, Read, ForgetCall
    <3>2. d \in Callers /\ call[d].id = i /\ i # 0 /\ slot[d] = <<>>
          /\ \A h \in Hands : d \notin hand[h]
      BY <1>3, <2>2 DEF RpcInv, PendingIsUnanswered
    <3>3. /\ DOMAIN pending' = DOMAIN pending \ {i}
          /\ \A j \in DOMAIN pending' : pending'[j] = pending[j]
      BY <3>1, WithoutMap
    <3>4. \A h \in Hands : hand'[h] = IF h = "route" THEN {d} ELSE hand[h]
      BY <1>7, <3>1
    <3>5. Head(inbox).of = {d}
      <4>1. 1 \in DOMAIN inbox /\ Head(inbox) = inbox[1]
        BY <1>5, <1>22 DEF RouteResponse, Read
      <4>2. PICK c \in Callers : Head(inbox).of = {c} /\ i = call[c].id
        BY <1>22, <4>1 DEF RpcInv, InboxIsOwn, RouteResponse, Read
      <4> QED
        BY <3>2, <4>2 DEF RpcInv, IdsDiffer
    <3>6. RoutedIsOwn'
      BY <3>1, <3>4, <3>5 DEF RoutedIsOwn, Hands
    <3>7. ResultsFit'
      BY <3>1, <3>2, <3>4 DEF RpcInv, ResultsFit
    <3>8. PendingIsUnanswered'
      <4> SUFFICES ASSUME NEW j \in DOMAIN pending'
                   PROVE  /\ call'[pending'[j]].id = j /\ slot'[pending'[j]] = <<>>
                          /\ \A h \in Hands : pending'[j] \notin hand'[h]
        BY DEF PendingIsUnanswered
      <4>1. /\ j \in DOMAIN pending /\ j # i /\ pending'[j] = pending[j]
            /\ call[pending[j]].id = j
        BY <1>3, <3>3
      <4> QED
        BY <3>1, <3>2, <3>4, <4>1 DEF RpcInv, PendingIsUnanswered
    <3>9. ResultsAreForCalls'
      BY <3>1, <3>2, <3>4 DEF RpcInv, ResultsAreForCalls, IdsDiffer
    <3> QED
      BY <1>1, <2>1, <3>6, <3>7, <3>8, <3>9 DEF RpcInv
  <2>3. CASE Head(inbox).id \notin DOMAIN pending
    BY <1>1, <1>8, <1>9, <1>12, <1>22, <2>1, <2>3 DEF RouteResponse, RpcInv
  <2> QED
    BY <2>2, <2>3
<1>23. ASSUME PutReply PROVE RpcInv'
  <2>1. PICK c \in hand["route"] : SendResult("route", c, reply)
    BY <1>23 DEF PutReply
  <2>2. c \in Callers /\ reply.of = {c} /\ hand["route"] = {c} /\ "route" \in Hands
    BY <1>7, <2>1 DEF RpcInv, RoutedIsOwn, Hands
  <2>3. /\ PendingIsUnanswered' /\ ResultsAreForCalls' /\ ResultsFit' /\ SlotIsOwn'
        /\ \A g \in Hands : hand'[g] = hand[g] \ {c}
    BY <2>1, <2>2, SendResultStep
  <2>4. RoutedIsOwn'
    BY <2>2, <2>3 DEF RoutedIsOwn
  <2>5. UNCHANGED <<nextID, call, inbox, asked>>
    BY <2>1 DEF SendResult
  <2> QED
    BY <1>1, <1>10, <1>11, <1>13, <2>3, <2>4, <2>5 DEF RpcInv
<1>24. ASSUME NEW h \in {"reader", "closer"}, NEW c \in Callers, FailCall(h, c) PROVE RpcInv'
  <2>1. h \in Hands /\ SendResult(h, c, Other("error")) /\ Other("error").kind # "reply"
        /\ UNCHANGED <<nextID, call, inbox, asked, reply>>
    BY <1>24 DEF FailCall, SendResult, Hands, Other, Frame
  <2>2. /\ PendingIsUnanswered' /\ ResultsAreForCalls' /\ ResultsFit' /\ SlotIsOwn'
        /\ \A g \in Hands : hand'[g] = hand[g] \ {c}
    BY <2>1, SendResultStep
  <2>3. RoutedIsOwn'
    BY <2>1, <2>2 DEF RpcInv, RoutedIsOwn, Hands
  <2> QED
    BY <1>1, <1>10, <1>11, <1>13, <2>1, <2>2, <2>3 DEF RpcInv
<1>25. ASSUME ReadEnds \/ CloseBegins PROVE RpcInv'
  <2>1. /\ \E h \in {"reader", "closer"} : SwapPending(h)
        /\ UNCHANGED <<nextID, call, slot, asked, reply>>
        /\ inbox' = inbox \/ inbox' = <<>>
    BY <1>25 DEF ReadEnds, CloseBegins
  <2>2. PendingIsUnanswered' /\ ResultsAreForCalls' /\ ResultsFit' /\ RoutedIsOwn'
    BY <2>1, SwapPendingStep
  <2>3. SlotIsOwn'
    BY <2>1 DEF RpcInv, SlotIsOwn
  <2> QED
    BY <1>1, <1>10, <1>11, <1>13, <2>1, <2>2, <2>3 DEF RpcInv
<1>26. ASSUME \/ ReadNote \/ PutNote \/ TakeNote \/ ReaderExits
              \/ CloseTransport \/ CloseReturns \/ UNCHANGED rpcVars
       PROVE  RpcInv'
  <2>1. /\ UNCHANGED <<nextID, pending, slot, call, asked, hand, reply>>
        /\ \/ UNCHANGED inbox
           \/ inbox # <<>> /\ inbox' = Tail(inbox)
           \/ \E n \in 0..Len(inbox) : inbox' = SubSeq(inbox, 1, n)
    BY <1>26 DEF ReadNote, Read, PutNote, TakeNote, ReaderExits, CloseTransport, CutOff,
                 CloseReturns, rpcVars
  <2> QED
    BY <1>1, <1>8, <1>9, <1>10, <1>11, <1>12, <1>13, <2>1 DEF RpcInv
<1> QED
  BY <1>14, <1>17, <1>18, <1>19, <1>21, <1>22, <1>23, <1>24, <1>25, <1>26
  DEF RpcNext, Calling, Reading, Closing

(* However many calls there are, however the connection and Close treat    *)
(* them: a result always has room in the channel of its call (nobody       *)
(* blocks in routeResponse or failAll), and a reply is the reply to its    *)
(* own request.                                                            *)
THEOREM RepliesAreOwn == RpcSpec => []RpcSafety
<1>1. RpcInv => RpcSafety
  BY DEF RpcInv, RpcSafety
<1>2. RpcInit /\ [][RpcNext]_rpcVars => []RpcInv
  BY RpcInvInit, RpcInvStep, PTL
<1> QED
  BY <1>1, <1>2, PTL DEF RpcSpec

(* The two clients side by side, as the run of MCServiceClients has them.  *)
LEMMA PartSteps ==
  ASSUME [RpcSteps \/ TokenSteps]_vars
  PROVE  [RpcNext]_rpcVars /\ [TokenNext]_tokenVars
<1>1. CASE RpcSteps
  <2>1. RpcNext
    BY <1>1 DEF RpcSteps, Rpc, RpcNext, Calling, Reading, Closing, Network
  <2>2. UNCHANGED tokenVars
    BY <1>1 DEF RpcSteps, Rpc
  <2> QED
    BY <2>1, <2>2
<1>2. CASE TokenSteps
  <2>1. TokenNext
    BY <1>2 DEF TokenSteps, Token, TokenNext, InCall
  <2>2. UNCHANGED rpcVars
    BY <1>2 DEF TokenSteps, Token
  <2> QED
    BY <2>1, <2>2
<1>3. CASE UNCHANGED vars
  BY <1>3 DEF vars
<1> QED
  BY <1>1, <1>2, <1>3

(* In the instance that is model-checked, for every number of callers and  *)
(* of goroutines, both clients keep their types and their promises.        *)
THEOREM ClientsAreSafe == Spec => [](TypeOK /\ RpcSafety /\ TokenSafety)
<1>1. Init => RpcInv /\ TokenInv
  BY RpcInvInit, TokenInvInit DEF Init
<1>2. RpcInv /\ TokenInv /\ [RpcSteps \/ TokenSteps]_vars => RpcInv' /\ TokenInv'
  BY PartSteps, RpcInvStep, TokenInvStep
<1>3. RpcInv /\ TokenInv => TypeOK /\ RpcSafety
  BY DEF RpcInv, TokenInv, TypeOK, RpcSafety
<1>4. TokenInv => TokenSafety
  BY TokenInvIsSafe
<1> QED
  BY <1>1, <1>2, <1>3, <1>4, PTL DEF Spec

==============================================================================
