------------------------------ MODULE FrontDoor ------------------------------
(***************************************************************************)
(* How a user reaches the task service: HTTP requests of the web console   *)
(* (web/handler.go, web/router.go, web/dashboard_provider.go), chat        *)
(* messages and presses of card buttons (lark/adapter.go, lark/access.go,  *)
(* agent/router.go, agent/task_command.go).  Each request becomes calls of *)
(* the service, made in order until one fails, and an answer.              *)
(*                                                                         *)
(* There is one task; its status also changes without its users.  Pages    *)
(* and cards offer buttons for the status they were built from, and stay   *)
(* where they are when it changes; one of them is on display at a time.    *)
(* A definition named Faulty... is a plausible mistake in the definition   *)
(* that follows it; nothing uses it.                                       *)
(***************************************************************************)
EXTENDS Integers, Sequences

CONSTANT RequireMention  \* lark.Config.RequireMention

ASSUME MentionIsBoolean == RequireMention \in BOOLEAN

VARIABLES
  status,   \* the status of the task, or "deleted"
  shown,    \* the surface on display and the status from which it was built
  request,  \* the request being handled, or NoRequest
  calls,    \* the calls of the service it has still to make
  applied,  \* the changes its calls have made
  answer,   \* what the user is told
  pressed   \* history: the status of the task at which an offered button was
            \* pressed, as long as it is still the status

doorVars == <<status, shown, request, calls, applied, answer, pressed>>

Statuses == {"pending", "starting", "running", "waiting_user_input", "recovering",
             "completed", "failed", "stopped"}
Terminal == {"completed", "failed", "stopped"}
TaskChanges == {"start", "reply", "reopen", "complete", "stop", "delete", "delete_all"}
Reads == {"status", "list", "list_all", "dashboard", "templates", "detail"}
Answers == {"none", "ignored", "denied", "usage", "refused", "gone", "error", "done"}

-----------------------------------------------------------------------------
(* The service, as its callers see it (orchestrator/service.go). *)

\* Whether a change is one for the status the task has.  That a reopened task
\* still has its thread is not known before codex is asked: see CannotReopen.
Accepts(op, st) ==
  CASE op \in {"reply", "complete"} -> st = "waiting_user_input"
    [] op = "stop"   -> st \in {"running", "waiting_user_input"}
    [] op = "reopen" -> st \in {"completed", "stopped"}
    [] op = "delete" -> st \in Terminal
    [] op \in {"status", "detail"} -> st # "deleted"
    [] OTHER -> TRUE

\* The status a change leads to.  A started task is another row.
After(op, st) ==
  CASE op \in {"reply", "reopen"} -> "running"
    [] op = "complete" -> "completed"
    [] op = "stop" -> "stopped"
    [] op = "delete" -> "deleted"
    [] op = "delete_all" -> IF st \in Terminal THEN "deleted" ELSE st
    [] OTHER -> st

-----------------------------------------------------------------------------
(* Requests. *)

Pages == {"root", "session", "dashboard", "templates", "events"}
WebActions == {"stop", "complete", "delete", "reply", "reopen"}

\* path: a page, "tasks" or "task"; action: the last segment of a task's path,
\* "" when there is none; text: the body has what the handler requires of it.
WebRequests ==
  [via : {"web"}, session : BOOLEAN, post : BOOLEAN, path : Pages \cup {"tasks", "task"},
   action : WebActions \cup {"", "other"}, text : BOOLEAN]

\* command: the first word, "/tasks" for any other word that begins with /task;
\* words: how many there are, from 5 on alike; all: the third one is -a.  What a
\* command does not look at has one value.
MessageRequests ==
  {r \in [via : {"message"}, sender : BOOLEAN, chat : {"direct", "group", "other"},
          allowed : BOOLEAN, mention : BOOLEAN,
          command : {"/task", "/tasks", "/other", "chat"},
          verb : {"start", "list", "status", "reply", "reopen", "stop", "delete", "other"},
          words : 1..5, all : BOOLEAN] :
     /\ r.chat # "group" => ~r.allowed /\ ~r.mention
     /\ r.command # "/task" => r.verb = "other" /\ r.words = 1
     /\ r.all => r.words >= 3 /\ r.verb \in {"list", "delete"}}

\* known: source and version of the value are those of our cards; id: it names a
\* task; text: one of the inputs holds a reply.
CardRequests ==
  [via : {"card"}, sender : BOOLEAN, known : BOOLEAN, id : BOOLEAN, text : BOOLEAN,
   kind : {"task_action", "task_reply_action", "other"},
   action : {"status", "stop", "delete", "submit", "complete", "other"}]

NoRequest == [via |-> "none"]

-----------------------------------------------------------------------------
(* What a request leads to: an answer at once, or calls of the service. *)

Reply(a) == [answer |-> a, calls |-> <<>>]
Call(ops) == [answer |-> "none", calls |-> ops]

\* Handler.TaskAction and parseTaskActionPath.
TaskAction(r) ==
  IF r.action = "" THEN IF r.post THEN Reply("usage") ELSE Call(<<"detail">>)
  ELSE IF \/ ~r.post \/ r.action = "other"
          \/ r.action \in {"reply", "reopen"} /\ ~r.text
  THEN Reply("usage") ELSE Call(<<r.action>>)

FaultyServeHTTP(r) ==
  IF ~r.session /\ r.path # "task" THEN Reply("denied")
  ELSE CASE r.path = "task" -> TaskAction(r)
         [] r.path = "tasks" ->
              IF r.post /\ r.text THEN Call(<<"start">>) ELSE Reply("usage")
         [] r.path \in {"dashboard", "templates"} -> Call(<<r.path>>)
         [] OTHER -> Reply("done")
\* The other handlers.  Root redirects a user without a session to the login,
\* which is told apart from "denied" by nothing here.
ServeHTTP(r) ==
  IF ~r.session THEN Reply("denied")
  ELSE CASE r.path = "task" -> TaskAction(r)
         [] r.path = "tasks" ->
              IF r.post /\ r.text THEN Call(<<"start">>) ELSE Reply("usage")
         [] r.path \in {"dashboard", "templates"} -> Call(<<r.path>>)
         [] OTHER -> Reply("done")

\* lark.Allowed
Allowed(r) ==
  /\ r.sender
  /\ r.chat \in {"direct", "group"}
  /\ r.chat = "group" => r.allowed /\ (RequireMention => r.mention)

\* TaskCommandHandler.HandleCommand
TaskCommand(r) ==
  IF r.command # "/task" \/ r.words < 2 THEN Reply("usage")
  ELSE CASE r.verb = "start" -> IF r.words < 4 THEN Reply("usage") ELSE Call(<<"start">>)
         [] r.verb = "list" ->
              IF r.words > 3 \/ (r.words = 3 /\ ~r.all) THEN Reply("usage")
              ELSE Call(IF r.words = 3 THEN <<"list_all">> ELSE <<"list">>)
         [] r.verb = "status" -> IF r.words # 3 THEN Reply("usage") ELSE Call(<<"status">>)
         [] r.verb \in {"reply", "reopen"} ->
              IF r.words < 4 THEN Reply("usage") ELSE Call(<<r.verb, "status">>)
         [] r.verb = "stop" ->
              IF r.words # 3 THEN Reply("usage") ELSE Call(<<"stop", "status">>)
         [] r.verb = "delete" ->
              IF r.words # 3 THEN Reply("usage")
              ELSE Call(IF r.all THEN <<"delete_all">> ELSE <<"status", "delete">>)
         [] OTHER -> Reply("usage")

\* Adapter.handleP2Message and Router.HandleMessage.  Other commands and chat
\* do not reach the service.
HandleMessage(r) ==
  IF ~Allowed(r) THEN Reply("ignored")
  ELSE IF r.command \in {"/task", "/tasks"} THEN TaskCommand(r)
  ELSE Reply("done")

\* Adapter.handleCardAction, parseTaskCardAction and the two handlers behind it.
HandleCard(r) ==
  IF ~r.sender THEN Reply("denied")
  ELSE IF ~r.known \/ ~r.id THEN Reply("usage")
  ELSE CASE r.kind = "task_action" /\ r.action \in {"status", "stop", "delete"} ->
              Call(<<r.action>>)
         [] r.kind = "task_reply_action" /\ r.action = "complete" -> Call(<<"complete">>)
         [] r.kind = "task_reply_action" /\ r.action = "submit" /\ r.text ->
              Call(<<"reply">>)
         [] OTHER -> Reply("usage")

Handle(r) ==
  CASE r.via = "web" -> ServeHTTP(r)
    [] r.via = "message" -> HandleMessage(r)
    [] OTHER -> HandleCard(r)

-----------------------------------------------------------------------------
(* The buttons a surface offers for a task. *)

\* taskActionRow of a card, buildTaskQuestionCard, and the page of the console.
Offers(surface, st) ==
  CASE surface = "card" ->
         {"status"} \cup (IF st \in {"running", "waiting_user_input"} THEN {"stop"} ELSE {})
                    \cup (IF st \in Terminal THEN {"delete"} ELSE {})
    [] surface = "question" ->
         IF st = "waiting_user_input" THEN {"reply", "complete"} ELSE {}
    [] OTHER ->
         (IF st \in {"running", "waiting_user_input"} THEN {"stop"} ELSE {})
           \cup (IF st = "waiting_user_input" THEN {"complete", "reply"} ELSE {})
           \cup (IF st \in Terminal THEN {"delete"} ELSE {})
           \cup (IF st \in {"completed", "stopped"} THEN {"reopen"} ELSE {})

Surfaces == {"card", "question", "page"}
Nothing == [surface |-> "none", built |-> "none"]

\* The request a button sends, by an allowed user who filled in the form.
Press(surface, op) ==
  IF surface = "page"
  THEN [via |-> "web", session |-> TRUE, post |-> TRUE, path |-> "task", action |-> op,
        text |-> TRUE]
  ELSE [via |-> "card", sender |-> TRUE, known |-> TRUE, id |-> TRUE, text |-> TRUE,
        kind |-> IF surface = "question" THEN "task_reply_action" ELSE "task_action",
        action |-> IF op = "reply" THEN "submit" ELSE op]

-----------------------------------------------------------------------------
DoorTypeOK ==
  /\ status \in Statuses \cup {"deleted"}
  /\ shown = Nothing \/ shown \in [surface : Surfaces, built : Statuses]
  /\ request = NoRequest \/ request \in WebRequests \cup MessageRequests \cup CardRequests
  /\ calls \in Seq(TaskChanges \cup Reads)
  /\ applied \subseteq TaskChanges
  /\ answer \in Answers
  /\ pressed \in Statuses \cup {"none", "deleted"}

DoorInit ==
  /\ status \in Statuses
  /\ shown = Nothing
  /\ request = NoRequest /\ calls = <<>> /\ applied = {} /\ answer = "none"
  /\ pressed = "none"

\* The task goes on by itself: its turns, its questions, the supervisor.
Progress ==
  /\ status \notin Terminal \cup {"deleted"}
  /\ \E st \in Statuses \ {status, "stopped"} : status' = st
  /\ pressed' = "none"
  /\ UNCHANGED <<shown, request, calls, applied, answer>>

\* A page is drawn, or a card is sent, for the status the task has now.
Show(surface) ==
  /\ status # "deleted" /\ request = NoRequest
  /\ surface = "question" => status = "waiting_user_input"
  /\ shown' = [surface |-> surface, built |-> status]
  /\ UNCHANGED <<status, request, calls, applied, answer, pressed>>

\* The user leaves the page or the card.
Leave ==
  /\ shown # Nothing /\ request = NoRequest
  /\ shown' = Nothing
  /\ UNCHANGED <<status, request, calls, applied, answer, pressed>>

Receive(r) ==
  /\ request = NoRequest
  /\ request' = r
  /\ answer' = Handle(r).answer /\ calls' = Handle(r).calls
  /\ applied' = {}
  /\ UNCHANGED <<status, shown>>

\* A request typed or sent by other means than a button.  What is on display
\* plays no part in it: nothing is, to have fewer states.
Ask(r) == shown = Nothing /\ Receive(r) /\ pressed' = "none"

PressButton(op) ==
  /\ shown # Nothing
  /\ op \in Offers(shown.surface, shown.built)
  /\ Receive(Press(shown.surface, op))
  /\ pressed' = IF shown.built = status THEN status ELSE "none"

Busy == request # NoRequest /\ answer = "none"

\* The next call is refused for the status the task has.
Refused ==
  /\ Busy /\ ~Accepts(Head(calls), status)
  /\ answer' = "refused" /\ calls' = <<>>
  /\ UNCHANGED <<status, shown, request, applied, pressed>>

\* Codex does not have the thread of the task any more: "cannot be reopened
\* because its original Codex thread is no longer available".
CannotReopen ==
  /\ Busy /\ Head(calls) = "reopen" /\ Accepts("reopen", status)
  /\ answer' = "gone" /\ calls' = <<>>
  /\ UNCHANGED <<status, shown, request, applied, pressed>>

\* It fails, before it has changed the task or after.
Fails ==
  /\ Busy /\ Accepts(Head(calls), status)
  /\ answer' = "error" /\ calls' = <<>>
  /\ \/ Head(calls) \in TaskChanges
        /\ applied' = applied \cup {Head(calls)} /\ status' = After(Head(calls), status)
     \/ UNCHANGED <<applied, status>>
  /\ UNCHANGED <<shown, request, pressed>>

\* It succeeds; after the last one the user is told so.
Succeeds ==
  /\ Busy /\ Accepts(Head(calls), status)
  /\ applied' = applied \cup (TaskChanges \cap {Head(calls)})
  /\ status' = After(Head(calls), status)
  /\ calls' = Tail(calls)
  /\ answer' = IF calls' = <<>> THEN "done" ELSE "none"
  /\ UNCHANGED <<shown, request, pressed>>

\* The card that answers a message, or shows a status, cannot be sent.
NotTold ==
  /\ answer = "done" /\ (request.via = "message" \/ (request.via = "card" /\ applied = {}))
  /\ answer' = "error"
  /\ UNCHANGED <<status, shown, request, calls, applied, pressed>>

Respond ==
  /\ request # NoRequest /\ answer # "none"
  /\ request' = NoRequest /\ answer' = "none" /\ applied' = {} /\ pressed' = "none"
  /\ UNCHANGED <<status, shown, calls>>

DoorNext ==
  \/ Progress
  \/ \E s \in Surfaces : Show(s)
  \/ \E r \in WebRequests : Ask(r)
  \/ \E r \in MessageRequests : Ask(r)
  \/ \E r \in CardRequests : Ask(r)
  \/ \E op \in TaskChanges \cup Reads : PressButton(op)
  \/ Leave \/ Refused \/ CannotReopen \/ Fails \/ Succeeds \/ NotTold \/ Respond

DoorSpec == DoorInit /\ [][DoorNext]_doorVars

-----------------------------------------------------------------------------
\* Who may change tasks, and how, said without the routes: a signed-in user of
\* the console by POST, an allowed user in a chat the bot listens to or on a
\* card; replies and requirements are not empty.
MayChange(r, op) ==
  CASE r.via = "web" ->
         r.session /\ r.post /\ (op \in {"reply", "reopen", "start"} => r.text)
    [] r.via = "message" ->
         /\ r.sender
         /\ \/ r.chat = "direct"
            \/ r.chat = "group" /\ r.allowed /\ (r.mention \/ ~RequireMention)
         /\ r.command = "/task"
         /\ op \in {"reply", "reopen", "start"} => r.words >= 4
    [] r.via = "card" -> r.sender /\ r.known /\ r.id /\ (op = "reply" => r.text)
    [] OTHER -> FALSE

(***************************************************************************)
(* Only a request that may change tasks changes the task, whichever of the *)
(* three ways and of their error paths it takes.                           *)
(***************************************************************************)
ChangesAreAllowed == \A op \in applied : MayChange(request, op)

\* The change a request asks for by name, if any.
Asked(r) ==
  CASE r.via = "web" /\ r.path = "tasks" -> {"start"}
    [] r.via = "web" /\ r.path = "task" -> WebActions \cap {r.action}
    [] r.via = "message" /\ r.command = "/task" ->
         IF r.verb = "delete" /\ r.all THEN {"delete_all"} ELSE TaskChanges \cap {r.verb}
    [] r.via = "card" ->
         IF r.action = "submit" THEN {"reply"} ELSE TaskChanges \cap {r.action}
    [] OTHER -> {}

(***************************************************************************)
(* The user is told the truth: "done" only after the change that was asked *)
(* for and nothing else, and a request that is denied, ignored or not      *)
(* understood, or that finds the thread of its task gone, has changed      *)
(* nothing.  (An error leaves it open: "/task reply" reads the task after  *)
(* the reply and may fail there.)                                          *)
(***************************************************************************)
AnswerIsTrue ==
  /\ answer = "done" => applied = Asked(request)
  /\ answer \in {"denied", "ignored", "usage", "gone"} => applied = {}

(***************************************************************************)
(* A button on a card or a page that shows the status the task still has,  *)
(* when the button is pressed and when the service looks, is never         *)
(* refused: what the surfaces offer agrees with what the service accepts.  *)
(* One thing the status does not tell, so that the page offers it: the     *)
(* task to reopen has lost its thread.                                     *)
(***************************************************************************)
OfferIsAccepted ==
  pressed # "none" =>
    /\ answer \notin {"refused", "denied", "ignored", "usage"}
    /\ answer = "gone" => Asked(request) = {"reopen"}

(***************************************************************************)
(* The page of the console offers every change of the task that the        *)
(* service accepts in the status shown, so that no status is a dead end    *)
(* for a user of the console.                                              *)
(***************************************************************************)
PageOffersAll ==
  shown.surface = "page" =>
    \A op \in WebActions : Accepts(op, shown.built) => op \in Offers("page", shown.built)
(***************************************************************************)
(* All four together: who may change tasks, what they are told, and what   *)
(* the surfaces offer.                                                     *)
(***************************************************************************)
DoorSafety == ChangesAreAllowed /\ AnswerIsTrue /\ OfferIsAccepted /\ PageOffersAll
=============================================================================
