----------------------------- MODULE AgentRuns -----------------------------
(***************************************************************************)
(* The agent runs of one chat: who may start, stop, approve and forget     *)
(* them, and what deleting the chat does to them.                          *)
(*                                                                         *)
(* A run lives at Trigger.dev and works for hours; the chat's row in       *)
(* Convex names the run (active_trigger_run_id) and the session in which   *)
(* the user answers its approval requests.  Routes of the web app start a  *)
(* run and associate it with the row afterwards (agent-trigger-route.ts),  *)
(* stop it, answer it, or forget one that has ended, and the worker        *)
(* (trigger/agent-long.ts) clears the row itself at its end.  Chats are    *)
(* deleted one by one or all at once, in batches of messages that Convex   *)
(* schedules one after the other (convex/chats.ts).                        *)
(*                                                                         *)
(* A mutation of Convex is atomic: one action.  A call of a route is a     *)
(* sequence of awaits, one action each, and may end at any of them with an *)
(* error or a crash (Abandon).                                             *)
(***************************************************************************)
EXTENDS Naturals

CONSTANTS
  Runs,         \* runs at Trigger.dev; each has a session of its own, or none
  Calls,        \* slots in which the app handles a request
  Operations,   \* the requests that users make
  Sessions,     \* of a new run: "open" if its mode asks for approval, or "none"
  NoRun, NoAsk,
  MaxAsks,      \* approval requests of one run
  MaxMessages,  \* batches of messages in the chat
  MaxJobs,      \* deletion batches of a kind that are scheduled at once
  MaxAttempts   \* snapshots that a deletion tries (three in the code)

AllOperations ==
  {"start", "stop", "forget", "approve", "delete", "deleteAll"}

ASSUME AgentAssumption ==
  /\ NoRun \notin Runs
  /\ NoAsk \notin Runs \X (1..MaxAsks)
  /\ Operations \subseteq AllOperations
  /\ Sessions \subseteq {"none", "open"}
  /\ MaxAsks \in Nat
  /\ MaxMessages \in Nat \ {0}
  /\ MaxJobs \in Nat \ {0}
  /\ MaxAttempts \in Nat \ {0}

VARIABLES
  chat,  \* the row of the chat
  run,   \* Trigger.dev: each run, its session and its worker
  jobs,  \* scheduled deletion batches: of this chat, of all the user's chats
  call   \* the state of each request that is being handled

vars == <<chat, run, jobs, call>>

Ask == Runs \X (1..MaxAsks)
Decision == (1..MaxAsks) \X BOOLEAN
OrNone(S) == S \cup {NoRun}

NoChat ==
  [exists |-> FALSE, run |-> NoRun, session |-> NoRun, pending |-> NoAsk,
   canceled |-> FALSE, deleting |-> FALSE, messages |-> 0]

NewChat == [NoChat EXCEPT !.exists = TRUE]

NotStarted ==
  [status |-> "none", session |-> "none", at |-> "working", asked |-> 0,
   input |-> 0, sent |-> {}, read |-> {}]

Idle ==
  [op |-> "none", at |-> "idle", run |-> NoRun, session |-> NoRun,
   todo |-> {}, ask |-> NoAsk, attempt |-> 0]

Init ==
  /\ chat \in {NoChat, NewChat}
  /\ run = [r \in Runs |-> NotStarted]
  /\ jobs = [kind \in {"one", "all"} |-> 0]
  /\ call = [p \in Calls |-> Idle]

-----------------------------------------------------------------------------
\* What the mutations and the requests to Trigger.dev do.

Terminal(r) == run[r].status \in {"canceled", "ended"}

\* The run still works: it may spend money and act for the user.
Live(r) == run[r].status = "live" /\ run[r].at # "clearing"

SessionOf(r) == IF run[r].session = "none" THEN NoRun ELSE r

\* setActiveTriggerRun with a run.
MayAssociate == chat.exists /\ ~chat.deleting
Associated(r) ==
  [chat EXCEPT !.run = r, !.session = SessionOf(r), !.pending = NoAsk,
               !.canceled = FALSE]

\* Mutants of Cleared: the run that is expected is not compared, the session
\* stays in the row, a caller without a session clears only a row without one.
ClearedAnyRun(r, session) ==
  IF chat.exists /\ session \in {NoRun, chat.session}
  THEN [chat EXCEPT !.run = NoRun, !.session = NoRun, !.pending = NoAsk]
  ELSE chat

ClearedButSession(r, session) ==
  IF chat.exists /\ chat.run = r /\ session \in {NoRun, chat.session}
  THEN [chat EXCEPT !.run = NoRun, !.pending = NoAsk]
  ELSE chat

ClearedSameSession(r, session) ==
  IF chat.exists /\ chat.run = r /\ session = chat.session
  THEN [chat EXCEPT !.run = NoRun, !.session = NoRun, !.pending = NoAsk]
  ELSE chat

\* setActiveTriggerRun with null, as all callers use it: the row must still
\* name the run, and the session if one is given.
Cleared(r, session) ==
  IF chat.exists /\ chat.run = r /\ session \in {NoRun, chat.session}
  THEN [chat EXCEPT !.run = NoRun, !.session = NoRun, !.pending = NoAsk]
  ELSE chat

\* Mutant of CanceledRun: the session takes the status of its run.
CanceledSession(r) == [run EXCEPT ![r].session = "canceled"]

\* runs.cancel and sessions.close, which accept a run that has ended already.
CanceledRun(r) ==
  IF run[r].status = "live" THEN [run EXCEPT ![r].status = "canceled"] ELSE run

ClosedSession(r) ==
  IF r \in Runs /\ run[r].session = "open"
  THEN [run EXCEPT ![r].session = "closed"] ELSE run

Enlarged(n) == {m \in {n, n + 1} : m \in 1..MaxMessages}

Goto(p, at) == call' = [call EXCEPT ![p].at = at]
Return(p) == call' = [call EXCEPT ![p] = Idle]
Begin(p, op, c) ==
  /\ op \in Operations
  /\ call[p].at = "idle"
  /\ call' = [call EXCEPT ![p] = c]
At(p, op, at) == call[p].op = op /\ call[p].at = at

-----------------------------------------------------------------------------
\* POST /api/agent: store the chat and the message, start a run, associate it.

StartReads(p) ==
  /\ Begin(p, "start", [Idle EXCEPT !.op = "start",
                          !.at = IF chat.exists THEN "message" ELSE "save"])
  /\ UNCHANGED <<chat, run, jobs>>

SaveChat(p) ==
  /\ At(p, "start", "save")
  /\ chat' = IF chat.exists THEN chat ELSE NewChat
  /\ Goto(p, "message")
  /\ UNCHANGED <<run, jobs>>

\* A user's message lifts an earlier cancellation.
SaveMessage(p) ==
  /\ At(p, "start", "message")
  /\ chat.exists
  /\ \E n \in Enlarged(chat.messages) :
       chat' = [chat EXCEPT !.canceled = FALSE, !.messages = n]
  /\ Goto(p, "trigger")
  /\ UNCHANGED <<run, jobs>>

ChatIsMissing(p) ==
  /\ At(p, "start", "message")
  /\ ~chat.exists
  /\ Return(p)
  /\ UNCHANGED <<chat, run, jobs>>

\* A regeneration saves no message.
Regenerate(p) ==
  /\ At(p, "start", "message")
  /\ Goto(p, "trigger")
  /\ UNCHANGED <<chat, run, jobs>>

\* A request for a turn that was requested before gets the run of that turn.
Trigger(p) ==
  /\ At(p, "start", "trigger")
  /\ \E r \in Runs :
       /\ \/ /\ run[r].status = "none"
             /\ \E s \in Sessions :
                  run' = [run EXCEPT ![r].status = "live", ![r].session = s]
          \/ /\ run[r].status # "none"
             /\ run' = run
       /\ call' = [call EXCEPT ![p].at = "associate", ![p].run = r]
  /\ UNCHANGED <<chat, jobs>>

Associate(p) ==
  /\ At(p, "start", "associate")
  /\ MayAssociate
  /\ chat' = Associated(call[p].run)
  /\ Return(p)
  /\ UNCHANGED <<run, jobs>>

\* The row refuses the run, or the association or an access token fails; in
\* the last case the association may still be under way.
AssociationFails(p) ==
  /\ At(p, "start", "associate")
  /\ \E late \in SUBSET {"associate"} :
       call' = [call EXCEPT ![p].at = "cleanup",
                            ![p].todo = {"close", "cancel", "clear"} \cup late]
  /\ UNCHANGED <<chat, run, jobs>>

\* The three requests of the clean-up are sent together, and each may fail.
\* The client of Convex sends its mutations one after the other.
Cleanup(p) ==
  /\ At(p, "start", "cleanup")
  /\ \E x \in call[p].todo :
       /\ x = "clear" => "associate" \notin call[p].todo
       /\ \/ UNCHANGED <<chat, run>>
          \/ /\ x = "close"
             /\ run' = ClosedSession(SessionOf(call[p].run))
             /\ UNCHANGED chat
          \/ /\ x = "cancel"
             /\ run' = CanceledRun(call[p].run)
             /\ UNCHANGED chat
          \/ /\ x = "clear"
             /\ chat' = Cleared(call[p].run, NoRun)
             /\ UNCHANGED run
          \/ /\ x = "associate"
             /\ MayAssociate
             /\ chat' = Associated(call[p].run)
             /\ UNCHANGED run
       /\ call' = [call EXCEPT ![p] =
            IF call[p].todo = {x} THEN Idle
                                  ELSE [call[p] EXCEPT !.todo = @ \ {x}]]
  /\ UNCHANGED jobs

-----------------------------------------------------------------------------
\* Stop, resume and status: close the session, cancel the run, clear the row.

Snapshot(op, at) ==
  [Idle EXCEPT !.op = op, !.at = at, !.run = chat.run, !.session = chat.session]

StopReads(p) ==
  /\ chat.exists
  /\ chat.run # NoRun
  /\ Begin(p, "stop", Snapshot("stop", "close"))
  /\ UNCHANGED <<chat, run, jobs>>

ResumeReads(p) ==
  /\ chat.exists
  /\ chat.run # NoRun
  /\ Begin(p, "forget", Snapshot("forget", "retrieve"))
  /\ UNCHANGED <<chat, run, jobs>>

ResumeRetrieves(p) ==
  /\ At(p, "forget", "retrieve")
  /\ IF Terminal(call[p].run) THEN Goto(p, "close") ELSE Return(p)
  /\ UNCHANGED <<chat, run, jobs>>

\* The client asks for a run that it knows; only one that has ended matters.
StatusRetrieves(p) ==
  /\ \E r \in Runs :
       /\ Terminal(r)
       /\ Begin(p, "forget", [Idle EXCEPT !.op = "forget", !.at = "read", !.run = r])
  /\ UNCHANGED <<chat, run, jobs>>

\* Mutant of StatusReads: the row is not compared with the run that was asked
\* about.
StatusReadsAnyRun(p) ==
  /\ At(p, "forget", "read")
  /\ IF chat.exists
     THEN call' = [call EXCEPT ![p].at = "close", ![p].session = chat.session]
     ELSE Return(p)
  /\ UNCHANGED <<chat, run, jobs>>

StatusReads(p) ==
  /\ At(p, "forget", "read")
  /\ IF chat.exists /\ chat.run = call[p].run
     THEN call' = [call EXCEPT ![p].at = "close", ![p].session = chat.session]
     ELSE Return(p)
  /\ UNCHANGED <<chat, run, jobs>>

CloseSession(p) ==
  /\ call[p].at = "close"
  /\ run' = ClosedSession(call[p].session)
  /\ call' = [call EXCEPT ![p] =
       IF @.op = "stop" THEN [@ EXCEPT !.at = "cancel"]
                        ELSE [@ EXCEPT !.at = "clear", !.session = NoRun]]
  /\ UNCHANGED <<chat, jobs>>

CancelRun(p) ==
  /\ call[p].at = "cancel"
  /\ run' = CanceledRun(call[p].run)
  /\ Goto(p, "clear")
  /\ UNCHANGED <<chat, jobs>>

ClearRun(p) ==
  /\ call[p].at = "clear"
  /\ chat' = Cleared(call[p].run, call[p].session)
  /\ Return(p)
  /\ UNCHANGED <<run, jobs>>

\* Stop also marks the chat as canceled, from the client and on its own.
MarkCanceled ==
  /\ "stop" \in Operations
  /\ chat.exists
  /\ chat' = [chat EXCEPT !.canceled = TRUE]
  /\ UNCHANGED <<run, jobs, call>>

-----------------------------------------------------------------------------
\* POST /api/agent/approve: the user decides on the request that is shown.

UserDecides(p) ==
  /\ chat.exists
  /\ chat.pending # NoAsk
  /\ Begin(p, "approve", [Idle EXCEPT !.op = "approve", !.at = "authorize",
                            !.session = chat.session, !.ask = chat.pending])
  /\ UNCHANGED <<chat, run, jobs>>

AuthorizeDecision(p) ==
  /\ At(p, "approve", "authorize")
  /\ IF /\ chat.exists
        /\ chat.session = call[p].session
        /\ chat.run # NoRun
        /\ chat.pending = call[p].ask
     THEN call' = [call EXCEPT ![p].at = "verify", ![p].run = chat.run]
     ELSE Return(p)
  /\ UNCHANGED <<chat, run, jobs>>

VerifyDecision(p) ==
  /\ At(p, "approve", "verify")
  /\ IF /\ ~Terminal(call[p].run)
        /\ run[call[p].session].session = "open"
        /\ call[p].session = call[p].run
     THEN Goto(p, "send")
     ELSE Return(p)
  /\ UNCHANGED <<chat, run, jobs>>

SendDecision(p) ==
  /\ At(p, "approve", "send")
  /\ run[call[p].session].session = "open"
  /\ \E approve \in BOOLEAN :
       run' = [run EXCEPT ![call[p].session].sent =
                 @ \cup {<<call[p].ask[2], approve>>}]
  /\ Return(p)
  /\ UNCHANGED <<chat, jobs>>

-----------------------------------------------------------------------------
\* Deletion.

\* prepareChatForDeletion: a chat that is canceled and names no run is taken
\* for one that is prepared already.
Prepared ==
  IF chat.run = NoRun /\ chat.pending = NoAsk /\ chat.canceled
  THEN chat
  ELSE [chat EXCEPT !.run = NoRun, !.session = NoRun, !.pending = NoAsk,
                    !.canceled = TRUE, !.deleting = TRUE]

Schedule(kind) ==
  /\ jobs[kind] < MaxJobs
  /\ jobs' = [jobs EXCEPT ![kind] = @ + 1]

\* deleteChatDocument, with the jobs that are left when it begins.
DeleteDocument(left) ==
  \/ /\ chat.messages <= 1
     /\ chat' = NoChat
     /\ jobs' = left
  \/ /\ chat.messages > 1
     /\ chat' = [Prepared EXCEPT !.messages = @ - 1]
     /\ left["one"] < MaxJobs
     /\ jobs' = [left EXCEPT !["one"] = @ + 1]

\* deleteNextUserChatBatch, for a user with this one chat.
DeleteNextBatch(left) ==
  \/ /\ ~chat.exists
     /\ jobs' = left
     /\ UNCHANGED chat
  \/ /\ chat.exists
     /\ chat' = IF chat.messages = 0
                THEN NoChat
                ELSE [Prepared EXCEPT !.messages = @ - 1]
     /\ left["all"] < MaxJobs
     /\ jobs' = [left EXCEPT !["all"] = @ + 1]

\* What the snapshot names is to be closed and canceled.
ToStop == {x \in {"close", "cancel"} :
             IF x = "close" THEN chat.session # NoRun ELSE chat.run # NoRun}

DeleteReads(p) ==
  /\ chat.exists
  /\ Begin(p, "delete", [Snapshot("delete", "shut") EXCEPT !.todo = ToStop])
  /\ UNCHANGED <<chat, run, jobs>>

\* The row of a chat that is deleted next is read anew after a stale answer.
DeleteReadsAgain(p) ==
  /\ At(p, "delete", "again")
  /\ IF chat.exists
     THEN call' = [call EXCEPT ![p] =
            [Snapshot("delete", "shut") EXCEPT !.todo = ToStop,
                                               !.attempt = call[p].attempt]]
     ELSE Return(p)
  /\ UNCHANGED <<chat, run, jobs>>

\* fenceChatsForDeletion.
FenceChats(p) ==
  /\ Begin(p, "deleteAll", [Snapshot("deleteAll", "shut") EXCEPT !.todo = ToStop])
  /\ chat' = IF chat.exists THEN [chat EXCEPT !.deleting = TRUE] ELSE chat
  /\ UNCHANGED <<run, jobs>>

Shut(p) ==
  /\ call[p].at = "shut"
  /\ \E x \in call[p].todo :
       /\ run' = IF x = "close" THEN ClosedSession(call[p].session)
                                ELSE CanceledRun(call[p].run)
       /\ call' = [call EXCEPT ![p].todo = @ \ {x}]
  /\ UNCHANGED <<chat, jobs>>

\* deleteChatForBackend, for the snapshot whose resources are shut.
IsCurrent(p) == chat.run = call[p].run /\ chat.session = call[p].session

DeleteChat(p) ==
  /\ At(p, "delete", "shut")
  /\ call[p].todo = {}
  /\ \/ /\ ~chat.exists
        /\ Return(p)
        /\ UNCHANGED <<chat, jobs>>
     \/ /\ chat.exists
        /\ IsCurrent(p)
        /\ DeleteDocument(jobs)
        /\ Return(p)
     \/ /\ chat.exists
        /\ ~IsCurrent(p)
        /\ call' = [call EXCEPT ![p] =
             IF @.attempt + 1 < MaxAttempts
             THEN [Idle EXCEPT !.op = "delete", !.at = "again",
                               !.attempt = call[p].attempt + 1]
             ELSE Idle]
        /\ UNCHANGED <<chat, jobs>>
  /\ UNCHANGED run

DeleteAllChats(p) ==
  /\ At(p, "deleteAll", "shut")
  /\ call[p].todo = {}
  /\ DeleteNextBatch(jobs)
  /\ Return(p)
  /\ UNCHANGED run

\* The scheduled batches.
DeleteBatch ==
  /\ jobs["one"] > 0
  /\ LET left == [jobs EXCEPT !["one"] = @ - 1]
     IN  \/ ~chat.exists /\ jobs' = left /\ UNCHANGED chat
         \/ chat.exists /\ DeleteDocument(left)
  /\ UNCHANGED <<run, call>>

DeleteAllBatch ==
  /\ jobs["all"] > 0
  /\ DeleteNextBatch([jobs EXCEPT !["all"] = @ - 1])
  /\ UNCHANGED <<run, call>>

\* A request fails, or the host ends the call.  What was sent may have taken
\* effect.
Abandon(p) ==
  /\ call[p].at # "idle"
  /\ Return(p)
  /\ UNCHANGED <<chat, run, jobs>>

-----------------------------------------------------------------------------
\* The worker.  A failed update of the row is logged and ignored.

WorkerAt(r, at) == run[r].at = at
WorkerGoes(r, at) == run' = [run EXCEPT ![r].at = at]
NamesWorker(r) == chat.exists /\ chat.run = r /\ chat.session = r

\* A tool call needs approval: mark the request in the row and wait.
AskForApproval(r) ==
  /\ WorkerAt(r, "working")
  /\ run[r].status = "live"
  /\ run[r].session # "none"
  /\ run[r].asked < MaxAsks
  /\ run' = [run EXCEPT ![r].at = "waiting", ![r].asked = @ + 1]
  /\ \/ UNCHANGED chat
     \/ /\ NamesWorker(r)
        /\ chat' = [chat EXCEPT !.pending = <<r, run[r].asked + 1>>]
  /\ UNCHANGED <<jobs, call>>

\* Mutant of ReceiveDecision: an answer is enough, whatever it says.
ReceiveAnyDecision(r) ==
  /\ WorkerAt(r, "waiting")
  /\ run[r].status = "live"
  /\ \E d \in run[r].sent \ run[r].read :
       LET next == IF d[1] # run[r].asked THEN "waiting" ELSE "checking"
       IN  run' = [run EXCEPT ![r].read = @ \cup {d},
                              ![r].at = next,
                              ![r].input = IF next = "checking" THEN d[1] ELSE 0]
  /\ UNCHANGED <<chat, jobs, call>>

\* Answers to other requests are skipped.
ReceiveDecision(r) ==
  /\ WorkerAt(r, "waiting")
  /\ run[r].status = "live"
  /\ \E d \in run[r].sent \ run[r].read :
       LET next == IF d[1] # run[r].asked THEN "waiting"
                   ELSE IF d[2] THEN "checking" ELSE "answered"
       IN  run' = [run EXCEPT ![r].read = @ \cup {d},
                              ![r].at = next,
                              ![r].input = IF next = "checking" THEN d[1] ELSE 0]
  /\ UNCHANGED <<chat, jobs, call>>

FindSessionClosed(r) ==
  /\ WorkerAt(r, "waiting")
  /\ run[r].status = "live"
  /\ run[r].session = "closed"
  /\ WorkerGoes(r, "answered")
  /\ UNCHANGED <<chat, jobs, call>>

\* The row must still name this run and wait for this answer.
Revalidated(r) == NamesWorker(r) /\ chat.pending = <<r, run[r].input>>

RunOperation(r) ==
  /\ WorkerAt(r, "checking")
  /\ Revalidated(r)
  /\ WorkerGoes(r, "answered")
  /\ UNCHANGED <<chat, jobs, call>>

\* Also when a lookup of the revalidation fails or the account has changed,
\* when the wait cannot be prepared, and for an answer of an old client.
DenyOperation(r) ==
  /\ run[r].at \in {"waiting", "checking"}
  /\ WorkerGoes(r, "denied")
  /\ UNCHANGED <<chat, jobs, call>>

UnmarkRequest(r) ==
  /\ run[r].at \in {"answered", "denied"}
  /\ run' = [run EXCEPT ![r].at = IF @ = "denied" THEN "stopping" ELSE "working",
                        ![r].input = 0]
  /\ \/ UNCHANGED chat
     \/ /\ NamesWorker(r)
        /\ chat' = [chat EXCEPT !.pending = NoAsk]
  /\ UNCHANGED <<jobs, call>>

\* The stream is over: update the chat, save the answer unless the chat is
\* canceled, close the session; any of them may fail.
EndStream(r) ==
  /\ \/ run[r].at \in {"working", "stopping"}
     \/ run[r].at = "waiting" /\ run[r].status = "canceled"
  /\ \/ UNCHANGED chat
     \/ /\ chat.exists
        /\ \E n \in Enlarged(chat.messages) \cup {chat.messages} :
             chat' = [chat EXCEPT !.canceled = FALSE, !.messages = n]
  /\ \E closed \in {run, ClosedSession(SessionOf(r))} :
       run' = [closed EXCEPT ![r].at = "clearing"]
  /\ UNCHANGED <<jobs, call>>

ClearOwnRun(r) ==
  /\ WorkerAt(r, "clearing")
  /\ run' = [run EXCEPT ![r].at = "gone",
                        ![r].status = IF @ = "live" THEN "ended" ELSE @]
  /\ chat' \in {chat, Cleared(r, NoRun)}
  /\ UNCHANGED <<jobs, call>>

\* The worker crashes, reaches its maximal duration, or is killed after a
\* cancellation; a canceled run that was queued never begins.
Vanish(r) ==
  /\ run[r].status # "none"
  /\ run[r].at # "gone"
  /\ run' = [run EXCEPT ![r].at = "gone",
                        ![r].status = IF @ = "live" THEN "ended" ELSE @]
  /\ UNCHANGED <<chat, jobs, call>>

-----------------------------------------------------------------------------
Start(p) ==
  \/ StartReads(p) \/ SaveChat(p) \/ SaveMessage(p) \/ ChatIsMissing(p)
  \/ Regenerate(p) \/ Trigger(p) \/ Associate(p) \/ AssociationFails(p)
  \/ Cleanup(p)

Stop(p) ==
  \/ StopReads(p) \/ ResumeReads(p) \/ ResumeRetrieves(p)
  \/ StatusRetrieves(p) \/ StatusReads(p)
  \/ CloseSession(p) \/ CancelRun(p) \/ ClearRun(p)

Approve(p) ==
  \/ UserDecides(p) \/ AuthorizeDecision(p) \/ VerifyDecision(p)
  \/ SendDecision(p)

Delete(p) ==
  \/ DeleteReads(p) \/ DeleteReadsAgain(p) \/ FenceChats(p) \/ Shut(p)
  \/ DeleteChat(p) \/ DeleteAllChats(p)

Worker(r) ==
  \/ AskForApproval(r) \/ ReceiveDecision(r) \/ FindSessionClosed(r)
  \/ RunOperation(r) \/ DenyOperation(r) \/ UnmarkRequest(r)
  \/ EndStream(r) \/ ClearOwnRun(r)

Next ==
  \/ \E p \in Calls : Start(p) \/ Stop(p) \/ Approve(p) \/ Delete(p) \/ Abandon(p)
  \/ MarkCanceled \/ DeleteBatch \/ DeleteAllBatch
  \/ \E r \in Runs : Worker(r) \/ Vanish(r)

Spec == Init /\ [][Next]_vars

\* The host ends every call in the end, the user keeps opening the chat, and
\* the requests of that do not fail for ever.
FairSpec ==
  /\ Spec
  /\ \A p \in Calls :
       /\ WF_vars(Abandon(p))
       /\ SF_vars(ResumeReads(p)) /\ SF_vars(ResumeRetrieves(p))
       /\ SF_vars(CloseSession(p)) /\ SF_vars(ClearRun(p))

-----------------------------------------------------------------------------
\* Properties.

ChatState ==
  [exists : BOOLEAN, run : OrNone(Runs), session : OrNone(Runs),
   pending : Ask \cup {NoAsk}, canceled : BOOLEAN, deleting : BOOLEAN,
   messages : 0..MaxMessages]

RunState ==
  [status : {"none", "live", "canceled", "ended"},
   session : {"none", "open", "closed"},
   at : {"working", "waiting", "checking", "answered", "denied", "stopping",
         "clearing", "gone"},
   asked : 0..MaxAsks, input : 0..MaxAsks,
   sent : SUBSET Decision, read : SUBSET Decision]

CallState ==
  [op : {"none"} \cup AllOperations,
   at : {"idle", "save", "message", "trigger", "associate", "cleanup", "close",
         "cancel", "clear", "retrieve", "read", "authorize", "verify", "send",
         "shut", "again"},
   run : OrNone(Runs), session : OrNone(Runs),
   todo : SUBSET {"associate", "close", "cancel", "clear"},
   ask : Ask \cup {NoAsk}, attempt : 0..MaxAttempts]

TypeOK ==
  /\ chat \in ChatState
  /\ run \in [Runs -> RunState]
  /\ jobs \in [{"one", "all"} -> 0..MaxJobs]
  /\ call \in [Calls -> CallState]

\* The row is about one run: its session and the request that is shown are
\* those of the run it names, whoever wrote them last.
RowIsOfOneRun ==
  /\ chat.run # NoRun => run[chat.run].status # "none"
  /\ chat.session \in {NoRun, chat.run}
  /\ chat.pending # NoAsk => chat.session = chat.pending[1]

\* What a request knows of the run it is about: it was started; it has ended
\* before the row is cleared, and before a chat that names it is deleted.
Started(r) == r \in Runs /\ run[r].status # "none"

Knows(c) ==
  /\ c.at \in {"authorize", "verify", "send"} => c.ask \in Ask
  /\ c.at \in {"associate", "cleanup", "retrieve", "cancel"} => Started(c.run)
  /\ c.at \in {"read", "clear"} => c.run \in Runs /\ Terminal(c.run)
  /\ c.at = "close" =>
       Started(c.run) /\ (c.op # "stop" => Terminal(c.run))
  /\ c.at = "shut" /\ c.run # NoRun =>
       Started(c.run) /\ ("cancel" \notin c.todo => Terminal(c.run))

CheckedIsApproved ==
  \A r \in Runs :
    run[r].at = "checking" => <<run[r].asked, TRUE>> \in run[r].sent

IInv ==
  /\ TypeOK
  /\ RowIsOfOneRun
  /\ \A p \in Calls : Knows(call[p])
  /\ CheckedIsApproved

\* The user's Stop, the reconnecting page, the status poll and the deletion of
\* one chat never take a run off the row while it works, whatever else happens
\* between their reads and their writes.
RunningIsNotForgotten ==
  [][/\ \E p \in Calls : ClearRun(p) \/ DeleteChat(p)
     /\ chat'.run # chat.run
     => ~Live(chat.run)]_vars

\* A run that works loses its session only to a call that stops it.
Stopping(r) ==
  \E p \in Calls :
    /\ call[p].run = r
    /\ call[p].op \in {"stop", "delete", "deleteAll", "start"}

SessionOfRunningIsKept ==
  [][\A r \in Runs :
       /\ run[r].session = "open"
       /\ run'[r].session = "closed"
       => ~Live(r) \/ run'[r].at = "clearing" \/ Stopping(r)]_vars

\* An operation that needs approval is run only after the user approved that
\* very request, although answers can be late or repeated, and updates of the
\* row can be lost.
NothingUnapproved ==
  [][\A r \in Runs :
       RunOperation(r) => <<run[r].asked, TRUE>> \in run[r].sent]_vars

\* The chat does not show a run for ever that has ended, however it ended: the
\* pages that open it forget the run.
EndedIsForgotten ==
  \A r \in Runs : chat.run = r /\ Terminal(r) ~> chat.run # r
=============================================================================
