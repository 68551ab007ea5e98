--------------------------- MODULE MCServiceClients ---------------------------
(***************************************************************************)
(* TLC instance of the clients of the services the process talks to: the   *)
(* RPC client of an app-server and the token of the Bitable client.  They  *)
(* share nothing.  A behaviour of this instance is one of either client,   *)
(* while the other one stays where it starts, so that one run checks both  *)
(* and their states add up instead of multiplying.                         *)
(***************************************************************************)
EXTENDS RpcClient, TokenRefresh

VARIABLE part

vars == <<part, rpcVars, tokenVars>>

Init == part \in {"rpc", "token"} /\ RpcInit /\ TokenInit

Rpc(step) == part = "rpc" /\ step /\ UNCHANGED <<part, tokenVars>>
Token(step) == part = "token" /\ step /\ UNCHANGED <<part, rpcVars>>

RpcSteps ==
  \/ \E c \in Callers :
       \/ Rpc(Dispatch(c)) \/ Rpc(SendRequest(c)) \/ Rpc(SendFails(c))
       \/ Rpc(Cancel(c)) \/ Rpc(TakeResult(c))
       \/ Rpc(FailCall("reader", c)) \/ Rpc(FailCall("closer", c))
  \/ \E request \in asked : Rpc(Answer(request)) \/ Rpc(Repeat(request))
  \/ Rpc(Notify) \/ Rpc(Garble) \/ Rpc(Break)
  \/ Rpc(RouteResponse) \/ Rpc(PutReply) \/ Rpc(ReadNote) \/ Rpc(PutNote) \/ Rpc(TakeNote)
  \/ Rpc(ReadEnds) \/ Rpc(ReaderExits)
  \/ Rpc(CloseBegins) \/ Rpc(CloseTransport) \/ Rpc(CloseReturns)

TokenSteps ==
  \/ Token(Expire)
  \/ \E u \in Users :
       \/ Token(Lookup(u)) \/ Token(UseCached(u)) \/ Token(WaitForRefresh(u))
       \/ Token(BeginRefresh(u)) \/ Token(Woken(u)) \/ Token(Abandon(u))
       \/ Token(Issued(u)) \/ Token(RequestFails(u)) \/ Token(Store(u)) \/ Token(Fail(u))

Spec == Init /\ [][RpcSteps \/ TokenSteps]_vars /\ RpcFairness /\ TokenFairness

(***************************************************************************)
(* Every part keeps its types.                                             *)
(***************************************************************************)
TypeOK == RpcTypeOK /\ TokenTypeOK
===============================================================================
