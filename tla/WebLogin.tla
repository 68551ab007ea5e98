------------------------------- MODULE WebLogin -------------------------------
(***************************************************************************)
(* How a visitor of the web console signs in: /auth/lark/start, the way    *)
(* over the accounts service of Lark and back to /auth/lark/callback, and  *)
(* the store of the states that tie the two together (web/handler.go,      *)
(* web/lark_oauth.go, web/session.go).                                     *)
(*                                                                         *)
(* A state is the time, in nanoseconds, at which it is issued, so that two *)
(* logins that start in the same nanosecond share one.  A definition named *)
(* Faulty... is a plausible mistake in the definition that follows it;     *)
(* nothing uses it.                                                        *)
(***************************************************************************)
EXTENDS Integers

CONSTANTS
  Visitors,   \* browsers
  Accounts,   \* accounts of Lark
  AllowUsers, \* those that may use the console
  StateTTL,   \* how long a state can be used (5 minutes in the code)
  MaxNano,    \* how far the clock goes
  MaxLogins   \* how often login is started

ASSUME LoginBounds ==
  /\ AllowUsers \subseteq Accounts
  /\ StateTTL \in Nat /\ MaxNano \in Nat /\ MaxLogins \in Nat

VARIABLES
  nano,     \* the time
  items,    \* StateStore.items: the states that can be used; they carry their expiry
  visitor,  \* where each visitor is on the way, and the state it was given last
  cookie,   \* the account in the session cookie of each visitor, or NoAccount
  logins,   \* how often login has been started
  accepted, \* history: how often each state was accepted
  issued,   \* history: how often each state was issued
  life      \* history: when the process was started last

loginVars == <<nano, items, visitor, cookie, logins, accepted, issued, life>>

NoState == -1
NoAccount == "none"
States == 0..MaxNano

LoginTypeOK ==
  /\ nano \in States /\ life \in 0..nano
  /\ items \subseteq 0..nano
  /\ visitor \in [Visitors -> [at : {"here", "away", "exchanging", "refused", "failed"},
                               state : {NoState} \cup 0..nano]]
  /\ cookie \in [Visitors -> AllowUsers \cup {NoAccount}]
  /\ logins \in 0..MaxLogins
  /\ accepted \in [States -> 0..MaxLogins] /\ issued \in [States -> 0..MaxLogins]

LoginInit ==
  /\ nano = 0 /\ life = 0 /\ items = {} /\ logins = 0
  /\ visitor = [v \in Visitors |-> [at |-> "here", state |-> NoState]]
  /\ cookie = [v \in Visitors |-> NoAccount]
  /\ accepted = [s \in States |-> 0] /\ issued = [s \in States |-> 0]

NanoPasses ==
  /\ nano < MaxNano
  /\ nano' = nano + 1
  /\ UNCHANGED <<items, visitor, cookie, logins, accepted, issued, life>>

\* StartAuth issues a state and sends the visitor to Lark with it.
FaultyIssue(now) == {now}
Issue(now) == items \cup {now}

StartAuth(v) ==
  /\ logins < MaxLogins /\ visitor[v].at # "exchanging"
  /\ logins' = logins + 1
  /\ items' = Issue(nano)
  /\ issued' = [issued EXCEPT ![nano] = @ + 1]
  /\ visitor' = [visitor EXCEPT ![v] = [at |-> "away", state |-> nano]]
  /\ UNCHANGED <<nano, cookie, accepted, life>>

\* The callback.  Lark sends the visitor back with its state, and the visitor may
\* open the same address again.  Consume takes the state out of the store
\* whether it has expired or not.
Consume(s) == items' = items \ {s}

Expired(s) == nano > s + StateTTL

Callback(v) ==
  /\ visitor[v].state # NoState /\ visitor[v].at # "exchanging"
  /\ LET s == visitor[v].state
     IN /\ Consume(s)
        /\ IF s \in items /\ ~Expired(s)
           THEN /\ visitor' = [visitor EXCEPT ![v].at = "exchanging"]
                /\ accepted' = [accepted EXCEPT ![s] = @ + 1]
           ELSE /\ visitor' = [visitor EXCEPT ![v].at = "refused"]
                /\ UNCHANGED accepted
  /\ UNCHANGED <<nano, cookie, logins, issued, life>>

\* The visitor did not agree: the callback has no code and leaves the state alone.
CallbackWithoutCode(v) ==
  /\ visitor[v].at = "away"
  /\ visitor' = [visitor EXCEPT ![v].at = "failed"]
  /\ UNCHANGED <<nano, items, cookie, logins, accepted, issued, life>>

\* Lark does not exchange the code, or does not tell whose it is.
ExchangeFails(v) ==
  /\ visitor[v].at = "exchanging"
  /\ visitor' = [visitor EXCEPT ![v].at = "failed"]
  /\ UNCHANGED <<nano, items, cookie, logins, accepted, issued, life>>

\* Lark names the account: SetSession if the account is allowed.
FaultyMayEnter(a) == TRUE
MayEnter(a) == a \in AllowUsers

FetchUser(v, a) ==
  /\ visitor[v].at = "exchanging"
  /\ visitor' = [visitor EXCEPT ![v].at = IF MayEnter(a) THEN "here" ELSE "failed"]
  /\ cookie' = [cookie EXCEPT ![v] = IF MayEnter(a) THEN a ELSE @]
  /\ UNCHANGED <<nano, items, logins, accepted, issued, life>>

Logout(v) ==
  /\ cookie[v] # NoAccount
  /\ cookie' = [cookie EXCEPT ![v] = NoAccount]
  /\ UNCHANGED <<nano, items, visitor, logins, accepted, issued, life>>

\* The store is only in memory; a cookie is valid in the next life too.
ConsoleRestarts ==
  /\ life < nano
  /\ life' = nano
  /\ items' = {}
  /\ visitor' = [v \in Visitors |->
       IF visitor[v].at = "exchanging" THEN [visitor[v] EXCEPT !.at = "failed"]
       ELSE visitor[v]]
  /\ UNCHANGED <<nano, cookie, logins, accepted, issued>>

LoginNext ==
  \/ NanoPasses \/ ConsoleRestarts
  \/ \E v \in Visitors :
       StartAuth(v) \/ Callback(v) \/ CallbackWithoutCode(v) \/ ExchangeFails(v)
         \/ Logout(v)
         \/ \E a \in Accounts : FetchUser(v, a)

LoginSpec == LoginInit /\ [][LoginNext]_loginVars

-----------------------------------------------------------------------------
(***************************************************************************)
(* A state signs in at most one visitor for each time it was issued, also  *)
(* when a callback is opened twice, by two visitors at the same time.      *)
(***************************************************************************)
AcceptedOnce == \A s \in States : accepted[s] <= issued[s]

(***************************************************************************)
(* A visitor who comes back in time is not refused, whatever other         *)
(* visitors do in between, unless the state was used before - by the same  *)
(* visitor, or by one whose login started in the same nanosecond - or the  *)
(* process was restarted on the way.                                       *)
(***************************************************************************)
RefusedForAReason ==
  [][\A v \in Visitors :
       LET s == visitor[v].state
       IN visitor'[v] # visitor[v] /\ visitor'[v].at = "refused"
            => Expired(s) \/ accepted[s] > 0 \/ s <= life]_loginVars

(***************************************************************************)
(* A state is good for one login, and for that one it is good.             *)
(***************************************************************************)
LoginSafety == []AcceptedOnce /\ RefusedForAReason
=============================================================================
