---------------------------- MODULE TokenRefresh ----------------------------
(***************************************************************************)
(* The tenant access token that the Bitable client (bitable/client.go)     *)
(* shares between goroutines.  Whoever finds no valid token fetches one    *)
(* while the others wait on a channel; when the channel is closed they     *)
(* look again.                                                             *)
(*                                                                         *)
(* Every critical section of Client.mu, the wait and the HTTP request are  *)
(* one action each.  Tokens are numbered in the order the service issues   *)
(* them and 0 is the empty token; a clock is only needed to say that the   *)
(* cached token is out of date.  A definition named Faulty... is a         *)
(* plausible mistake in the definition that follows it; nothing uses it.   *)
(***************************************************************************)
EXTENDS Integers, FiniteSets

CONSTANTS
  Users,      \* goroutines that call tenantAccessToken
  MaxLookups  \* how many calls are made in all

ASSUME TokenBounds == MaxLookups \in Nat

VARIABLES
  token,        \* Client.token
  fresh,        \* time.Now().Before(Client.tokenUntil)
  refreshing,   \* Client.refreshing
  refreshDone,  \* Client.refreshDone, as the number of the channel; 0 is nil
  closed,       \* the channels that have been closed
  user,         \* where each goroutine is, with what it holds
  issued,       \* how many tokens the service has issued
  lookups       \* how many calls have begun

tokenVars == <<token, fresh, refreshing, refreshDone, closed, user, issued, lookups>>

UserPlaces == {"idle", "looking", "waiting", "requesting", "storing", "failing"}

\* done: the channel it waits on; got: the token it received or returned;
\* least: the token cached when its call began (history).  A channel is closed
\* once and nil is not closed: either would panic.
TokenTypeOK ==
  /\ token \in 0..issued /\ fresh \in BOOLEAN
  /\ refreshing \in BOOLEAN
  /\ refreshDone \in Nat /\ closed \subseteq Nat \ {0}
  /\ user \in [Users -> [at : UserPlaces, done : Nat, got : 0..issued, least : 0..issued]]
  /\ issued \in Nat /\ lookups \in 0..MaxLookups

TokenInit ==
  /\ token = 0 /\ fresh = FALSE
  /\ refreshing = FALSE /\ refreshDone = 0 /\ closed = {}
  /\ user = [u \in Users |-> [at |-> "idle", done |-> 0, got |-> 0, least |-> 0]]
  /\ issued = 0 /\ lookups = 0

Go(u, place) == user' = [user EXCEPT ![u].at = place]
Cached == token # 0 /\ fresh

Lookup(u) ==
  /\ user[u].at = "idle"
  /\ lookups < MaxLookups
  /\ lookups' = lookups + 1
  /\ user' = [user EXCEPT ![u] = [at |-> "looking", done |-> 0, got |-> 0, least |-> token]]
  /\ UNCHANGED <<token, fresh, refreshing, refreshDone, closed, issued>>

UseCached(u) ==
  /\ user[u].at = "looking"
  /\ Cached
  /\ user' = [user EXCEPT ![u].at = "idle", ![u].got = token]
  /\ UNCHANGED <<token, fresh, refreshing, refreshDone, closed, issued, lookups>>

WaitForRefresh(u) ==
  /\ user[u].at = "looking"
  /\ ~Cached /\ refreshing
  /\ user' = [user EXCEPT ![u].at = "waiting", ![u].done = refreshDone]
  /\ UNCHANGED <<token, fresh, refreshing, refreshDone, closed, issued, lookups>>

\* Nobody is refreshing: this goroutine does, with a new channel.
BeginRefresh(u) ==
  /\ user[u].at = "looking"
  /\ ~Cached /\ ~refreshing
  /\ refreshing' = TRUE
  /\ refreshDone' = Cardinality(closed) + 1
  /\ Go(u, "requesting")
  /\ UNCHANGED <<token, fresh, closed, issued, lookups>>

\* The channel is closed: look again.
Woken(u) ==
  /\ user[u].at = "waiting"
  /\ user[u].done \in closed
  /\ user' = [user EXCEPT ![u].at = "looking", ![u].done = 0]
  /\ UNCHANGED <<token, fresh, refreshing, refreshDone, closed, issued, lookups>>

\* The context of a waiting goroutine ends.
Abandon(u) ==
  /\ user[u].at = "waiting"
  /\ user' = [user EXCEPT ![u].at = "idle", ![u].done = 0]
  /\ UNCHANGED <<token, fresh, refreshing, refreshDone, closed, issued, lookups>>

\* The service answers with a token, or with code 0 and no token.
Issued(u) ==
  /\ user[u].at = "requesting"
  /\ issued' = issued + 1
  /\ \E t \in {0, issued'} : user' = [user EXCEPT ![u].at = "storing", ![u].got = t]
  /\ UNCHANGED <<token, fresh, refreshing, refreshDone, closed, lookups>>

\* The request fails, or the context of this goroutine ends.
RequestFails(u) ==
  /\ user[u].at = "requesting"
  /\ Go(u, "failing")
  /\ UNCHANGED <<token, fresh, refreshing, refreshDone, closed, issued, lookups>>

\* The second critical section.  Whether it has a token or not it ends the
\* refresh and wakes who waits; the token may be out of date already.
FaultyEndRefresh ==
  /\ refreshing' = FALSE
  /\ refreshDone' = 0
  /\ UNCHANGED closed
EndRefresh ==
  /\ refreshing' = FALSE
  /\ closed' = closed \cup {refreshDone}
  /\ refreshDone' = 0

Store(u) ==
  /\ user[u].at = "storing"
  /\ token' = user[u].got
  /\ fresh' \in BOOLEAN
  /\ EndRefresh
  /\ Go(u, "idle")
  /\ UNCHANGED <<issued, lookups>>

FaultyFail(u) ==
  /\ user[u].at = "failing"
  /\ Go(u, "idle")
  /\ UNCHANGED <<token, fresh, refreshing, refreshDone, closed, issued, lookups>>
Fail(u) ==
  /\ user[u].at = "failing"
  /\ EndRefresh
  /\ Go(u, "idle")
  /\ UNCHANGED <<token, fresh, issued, lookups>>

\* tokenUntil passes.
Expire ==
  /\ fresh
  /\ fresh' = FALSE
  /\ UNCHANGED <<token, refreshing, refreshDone, closed, user, issued, lookups>>

InCall(u) ==
  \/ UseCached(u) \/ WaitForRefresh(u) \/ BeginRefresh(u) \/ Woken(u)
  \/ Issued(u) \/ RequestFails(u) \/ Store(u) \/ Fail(u)

TokenNext == Expire \/ \E u \in Users : Lookup(u) \/ Abandon(u) \/ InCall(u)

\* A goroutine in the call runs and its request is answered or fails.  Nothing
\* makes a token run out or a context end.
TokenFairness == \A u \in Users : WF_tokenVars(InCall(u))

TokenSpec == TokenInit /\ [][TokenNext]_tokenVars /\ TokenFairness

-----------------------------------------------------------------------------
Refreshers == {u \in Users : user[u].at \in {"requesting", "storing", "failing"}}

(***************************************************************************)
(* One goroutine at a time fetches a token, over the unlock, the request   *)
(* and the lock that follows it; while Client.refreshing is set somebody   *)
(* does, so that whoever waits does not wait for nobody.                   *)
(***************************************************************************)
OneRefresh == Cardinality(Refreshers) = (IF refreshing THEN 1 ELSE 0)

(***************************************************************************)
(* Who waits took the channel under the lock and waits after it: the       *)
(* channel is that of the refresh in progress or has been closed since, so *)
(* that no wake-up is lost between the unlock and the select.              *)
(***************************************************************************)
WakeUpNotLost ==
  \A u \in Users : user[u].at = "waiting" =>
    user[u].done \in closed \/ (refreshing /\ user[u].done = refreshDone)

(***************************************************************************)
(* A call returns a token that is at least as new as the one that was      *)
(* cached when it began: the answer of a slow request never overwrites a   *)
(* newer token, because requests do not overlap.  Empty tokens aside.      *)
(***************************************************************************)
TokenIsNotOlder ==
  \A u \in Users : user[u].at = "idle" /\ user[u].got # 0 => user[u].got >= user[u].least

(***************************************************************************)
(* The refresh is shared by all who need it: one at a time, nobody waits   *)
(* in vain, and no older token comes back.                                 *)
(***************************************************************************)
TokenSafety == OneRefresh /\ WakeUpNotLost /\ TokenIsNotOlder

(***************************************************************************)
(* Every call returns, though the refresh it waits for may fail or bring a *)
(* token that is out of date, so that it has to refresh itself.            *)
(***************************************************************************)
LookupEnds == \A u \in Users : user[u].at = "looking" ~> user[u].at = "idle"
=============================================================================
