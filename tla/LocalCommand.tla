---------------------------- MODULE LocalCommand ----------------------------
(***************************************************************************)
(* One foreground command on a local sandbox. The tool                     *)
(* (lib/ai/tools/run-terminal-cmd.ts) runs it in attempts, each one        *)
(* commands.run of lib/ai/tools/utils/centrifugo-sandbox.ts with a command *)
(* id and a Centrifugo client of its own. The attempt publishes the        *)
(* command to the channel of the runner (packages/local/src/index.ts),     *)
(* which spawns a shell and publishes its exit. An abort of the request, a *)
(* timeout of a noisy command and the closing of a retained session ask    *)
(* the attempt to cancel: it publishes a cancellation, the runner signals  *)
(* the process group, probes it and answers whether it is gone.            *)
(*                                                                         *)
(* Attempts are numbered; a number stands for the random command id. The   *)
(* output of a command is left out.                                        *)
(***************************************************************************)
EXTENDS Naturals, Sequences

CONSTANTS
    MaxAttempts,  \* maxRetries of retryWithBackoff (6)
    MaxCloses,    \* bound: attempts to close a retained session
    MaxFaults     \* bound: what goes wrong (Fault)

ASSUME CommandAssumption ==
    MaxAttempts \in Nat \ {0} /\ MaxCloses \in Nat /\ MaxFaults \in Nat

VARIABLES
    tool,       \* run_terminal_cmd: what it does, what it answered
    run,        \* runPromise: its phase and the number of its attempt
    conn,       \* the client of the attempt that is open
    outcome,    \* how each attempt settled
    wire,       \* messages to the runner
    replies,    \* messages of the runner
    proc,       \* the processes the runner spawned
    active,     \* activeStreamCommands: the process a command id names
    probes,     \* cancellations whose process group is probed
    up,         \* the runner is connected
    faults

runner == <<proc, active, probes, up>>
vars == <<tool, run, conn, outcome, wire, replies, runner, faults>>

-----------------------------------------------------------------------------
(* Types *)

Attempt == 1..MaxAttempts

\* An attempt's command is spawned once for each time it was published.
Proc == Attempt \X {1, 2}

\* A shell, with the descendants that hold its pipes: it is "ended" when they live
\* no more and "exited" when the runner was told. Others of its group are the rest.
Process == [root: {"none", "running", "ended", "exited"}, rest: BOOLEAN]

\* "session" retains the command as a session; "assumed" is "gone", answered by
\* an attempt that had failed before it was asked.
Answers == {"none", "gone", "assumed", "session", "exited", "failed"}
Tool == [at: {"running", "canceling", "answered"}, answer: Answers,
         handle: 0..MaxAttempts, aborted: BOOLEAN, signal: BOOLEAN, closes: 0..MaxCloses]

Phases == {"ready", "token", "open", "backoff", "done"}

\* "confirmed" and "canceled" are exit code 130, the first after the runner's
\* positive acknowledgement.
Outcomes == {"none", "open", "exited", "failed", "canceled", "confirmed"}

\* Subscriptions that were reported, presence checks and publications that are
\* awaited, commandPublishInFlight, publishedCommand, cancelRequested,
\* cancelPublishStarted.
Conn == [subscribed: 0..2, checks: 0..2, sending: 0..2, inFlight: BOOLEAN,
         published: BOOLEAN, canceling: BOOLEAN, sent: BOOLEAN]
Fresh == [subscribed |-> 0, checks |-> 0, sending |-> 0, inFlight |-> FALSE,
          published |-> FALSE, canceling |-> FALSE, sent |-> FALSE]

Message == [type: {"command", "cancel"}, of: Attempt]
Reply == [type: {"exit", "gone", "left"}, of: Attempt]

Init ==
    /\ tool = [at |-> "running", answer |-> "none", handle |-> 0,
               aborted |-> FALSE, signal |-> FALSE, closes |-> 0]
    /\ run = [at |-> "ready", n |-> 0]
    /\ conn = Fresh
    /\ outcome = [k \in Attempt |-> "none"]
    /\ wire = <<>>
    /\ replies = <<>>
    /\ proc = [p \in Proc |-> [root |-> "none", rest |-> FALSE]]
    /\ active = [k \in Attempt |-> 0]
    /\ probes = [p \in Proc |-> 0]
    /\ up = TRUE
    /\ faults = 0

\* Something goes wrong: a message is lost, a connection fails, the runner stops.
Fault == faults < MaxFaults /\ faults' = faults + 1

Open == run.at = "open"
Send(t) == wire' = Append(wire, [type |-> t, of |-> run.n])
Answered(t, a) == [t EXCEPT !.at = "answered", !.answer = a]

-----------------------------------------------------------------------------
(* How an attempt settles, and what the tool makes of it *)

\* resolveCancelAttempt, with which the cancel function answers its caller.
Told(t, yes) ==
    IF t.at # "canceling" THEN t ELSE Answered(t, IF yes THEN "gone" ELSE "session")

\* The result of runPromise, when the tool has not claimed the answer; a tool
\* that was aborted before the first attempt waits for it.
Finished(t, a) ==
    IF t.at = "running" THEN Answered(t, a)
    ELSE IF t.at = "canceling" /\ t.handle = 0 THEN Told(t, a = "gone")
    ELSE t

Settle(o) == outcome' = [outcome EXCEPT ![run.n] = o]
Done == run' = [run EXCEPT !.at = "done"]

\* resolveCanceled
ResolveCanceled(t, o) ==
    /\ Settle(o)
    /\ Done
    /\ tool' = Told(t, TRUE)
    /\ conn' = [conn EXCEPT !.canceling = FALSE, !.sent = FALSE]

\* The answer of the command.
ResolveExited ==
    /\ Settle("exited")
    /\ Done
    /\ tool' = Finished(tool, "exited")
    /\ UNCHANGED conn

\* Mutant of Reject: one attempt too many.
RejectLate(t) ==
    /\ Settle("failed")
    /\ IF tool.at = "running" /\ run.n <= MaxAttempts
       THEN run' = [run EXCEPT !.at = "backoff"] /\ tool' = t
       ELSE Done /\ tool' = Finished(t, "failed")

\* The attempt is rejected: retryWithBackoff tries again, unless the tool has
\* claimed its answer. A cancellation that is awaited is not answered.
Reject(t) ==
    /\ Settle("failed")
    /\ IF tool.at = "running" /\ run.n < MaxAttempts
       THEN run' = [run EXCEPT !.at = "backoff"] /\ tool' = t
       ELSE Done /\ tool' = Finished(t, "failed")

\* failCancellation
CancelFailed ==
    /\ tool' = Told(tool, FALSE)
    /\ conn' = [conn EXCEPT !.canceling = FALSE, !.sent = FALSE]

\* Mutant of PublishCancel: a publication in flight is taken for none.
PublishCancelEarly(t, c) ==
    IF c.published
    THEN /\ conn' = [c EXCEPT !.canceling = TRUE, !.sent = TRUE]
         /\ IF c.sent THEN UNCHANGED wire ELSE Send("cancel")
         /\ tool' = t
         /\ UNCHANGED <<run, outcome>>
    ELSE UNCHANGED wire /\ ResolveCanceled(t, "canceled")

\* publishCancel, with the client in the state c.
PublishCancel(t, c) ==
    IF c.published
    THEN /\ conn' = [c EXCEPT !.canceling = TRUE, !.sent = TRUE]
         /\ IF c.sent THEN UNCHANGED wire ELSE Send("cancel")
         /\ tool' = t
         /\ UNCHANGED <<run, outcome>>
    ELSE /\ UNCHANGED wire
         /\ IF c.inFlight
            THEN /\ conn' = [c EXCEPT !.canceling = TRUE]
                 /\ tool' = t
                 /\ UNCHANGED <<run, outcome>>
            ELSE ResolveCanceled(t, "canceled")

-----------------------------------------------------------------------------
(* The tool *)

ToolOnly == UNCHANGED <<replies, runner, faults>>

\* terminateManagedCommand: the cancel function of the attempt that gave the last
\* one; before there is any, the signal of all attempts, and their result.
Terminate(t) ==
    IF t.handle = 0
    THEN /\ tool' = [t EXCEPT !.at = "canceling", !.signal = TRUE]
         /\ UNCHANGED <<run, conn, outcome, wire>>
    ELSE IF outcome[t.handle] = "open"
    THEN PublishCancel([t EXCEPT !.at = "canceling"], conn)
    ELSE /\ tool' = Answered(t, "assumed")
         /\ UNCHANGED <<run, conn, outcome, wire>>

\* The request is aborted: onAbort, unless the tool has claimed its answer. A
\* retry that waits is given up.
Abort ==
    /\ ~tool.aborted
    /\ LET t == [tool EXCEPT !.aborted = TRUE]
       IN  IF run.at = "backoff"
           THEN /\ Done
                /\ tool' = IF t.at = "running" THEN Answered(t, "assumed") ELSE t
                /\ UNCHANGED <<conn, outcome, wire>>
           ELSE IF t.at = "running"
           THEN Terminate(t)
           ELSE tool' = t /\ UNCHANGED <<run, conn, outcome, wire>>
    /\ ToolOnly

\* onTimeout of a command with little output: it is retained as a session.
QuietTimeout ==
    /\ tool.at = "running" /\ run.at # "ready"
    /\ tool' = Answered(tool, "session")
    /\ UNCHANGED <<run, conn, outcome, wire>> /\ ToolOnly

\* onTimeout of a command that wrote much is an attempt to terminate it.
NoisyTimeout ==
    /\ tool.at = "running" /\ tool.handle # 0
    /\ Terminate(tool)
    /\ ToolOnly

\* killAndRemove of a retained session: it is removed when its command has
\* ended, or is terminated.
Close ==
    /\ tool.at = "answered" /\ tool.answer = "session" /\ tool.closes < MaxCloses
    /\ LET t == [tool EXCEPT !.closes = @ + 1]
       IN  IF run.at = "done"
           THEN tool' = Answered(t, "gone") /\ UNCHANGED <<run, conn, outcome, wire>>
           ELSE Terminate(t)
    /\ ToolOnly

-----------------------------------------------------------------------------
(* runPromise and its attempts *)

\* The session is created: the first attempt begins, unless the tool has
\* answered or waits to answer.
StartAttempt ==
    /\ run.at = "ready"
    /\ IF tool.at = "running"
       THEN run' = [at |-> "token", n |-> 1] /\ UNCHANGED tool
       ELSE Done /\ tool' = Finished(tool, "gone")
    /\ UNCHANGED <<conn, outcome, wire>> /\ ToolOnly

\* The token is signed: the tool gets the cancel function of this attempt, the
\* client connects.
OpenAttempt ==
    /\ run.at = "token"
    /\ conn' = Fresh
    /\ IF tool.signal
       THEN /\ Settle("canceled")
            /\ Done
            /\ tool' = [Finished(tool, "gone") EXCEPT !.handle = run.n]
       ELSE /\ Settle("open")
            /\ run' = [run EXCEPT !.at = "open"]
            /\ tool' = [tool EXCEPT !.handle = run.n]
    /\ UNCHANGED wire /\ ToolOnly

\* retryWithBackoff looks at the abort of the request only.
RetryAttempt ==
    /\ run.at = "backoff"
    /\ run' = [at |-> "token", n |-> run.n + 1]
    /\ UNCHANGED <<tool, conn, outcome, wire>> /\ ToolOnly

Subscribed ==
    conn' = [conn EXCEPT !.subscribed = @ + 1, !.checks = @ + 1]

\* "subscribed": the presence of the runner is looked up.
Subscribe ==
    /\ Open /\ conn.subscribed = 0
    /\ Subscribed
    /\ UNCHANGED <<tool, run, outcome, wire>> /\ ToolOnly

\* The connection was lost for a moment, and "subscribed" is reported again.
Resubscribe ==
    /\ Open /\ conn.subscribed = 1
    /\ Fault
    /\ Subscribed
    /\ UNCHANGED <<tool, run, outcome, wire, replies, runner>>

\* The runner is absent from the channel, and the attempt is rejected; or it is
\* present, or nobody knows, and the command is published.
CheckPresence ==
    /\ Open /\ conn.checks > 0
    /\ \/ /\ ~up
          /\ Reject(tool)
          /\ UNCHANGED <<conn, wire>>
       \/ /\ conn' = [conn EXCEPT !.checks = @ - 1, !.sending = @ + 1, !.inFlight = TRUE]
          /\ Send("command")
          /\ UNCHANGED <<tool, run, outcome>>
    /\ ToolOnly

\* Mutant of PublishAcked: a cancellation that waits is forgotten.
PublishAckedOnly ==
    /\ Open /\ conn.sending > 0
    /\ conn' = [conn EXCEPT !.sending = @ - 1, !.inFlight = FALSE, !.published = TRUE]
    /\ UNCHANGED <<tool, run, outcome, wire>> /\ ToolOnly

\* The publication is acknowledged. A cancellation that waited for it is sent.
PublishAcked ==
    /\ Open /\ conn.sending > 0
    /\ LET c == [conn EXCEPT !.sending = @ - 1, !.inFlight = FALSE, !.published = TRUE]
       IN  IF c.canceling
           THEN PublishCancel(tool, c)
           ELSE conn' = c /\ UNCHANGED <<tool, run, outcome, wire>>
    /\ ToolOnly

\* The publication fails, or its acknowledgement is lost: the command may be on its
\* way, or was lost before (Lose).
PublishFails ==
    /\ Open /\ conn.sending > 0
    /\ Fault
    /\ Reject(IF conn.canceling THEN Told(tool, FALSE) ELSE tool)
    /\ UNCHANGED <<conn, wire, replies, runner>>

\* A publication of the runner. Those for other attempts, or for one that has
\* settled, are ignored.
Receive ==
    /\ replies # <<>>
    /\ replies' = Tail(replies)
    /\ LET r == Head(replies)
       IN  IF ~Open \/ r.of # run.n \/ (r.type # "exit" /\ ~conn.canceling)
           THEN UNCHANGED <<tool, run, conn, outcome>>
           ELSE \/ /\ r.type = "exit" /\ conn.canceling
                   /\ ResolveCanceled(tool, "canceled")
                \/ /\ r.type = "exit" /\ ~conn.canceling
                   /\ ResolveExited
                \/ /\ r.type = "gone"
                   /\ ResolveCanceled(tool, "confirmed")
                \/ /\ r.type = "left"
                   /\ CancelFailed
                   /\ UNCHANGED <<run, outcome>>
    /\ UNCHANGED <<wire, runner, faults>>

\* The cancellation is not acknowledged in time, or not published.
AckTimeout ==
    /\ Open /\ conn.sent
    /\ CancelFailed
    /\ UNCHANGED <<run, outcome, wire>> /\ ToolOnly

\* The client or the subscription reports an error; or the attempt waited in vain,
\* which it does only when something else went wrong.
GiveUp ==
    /\ Open
    /\ faults < MaxFaults \/ faults > 0
    /\ faults' = IF faults < MaxFaults THEN faults + 1 ELSE faults
    /\ Reject(tool)
    /\ UNCHANGED <<conn, wire, replies, runner>>

-----------------------------------------------------------------------------
(* The runner *)

\* publishToChannel
Publish(t, k) == replies' = IF up THEN Append(replies, [type |-> t, of |-> k]) ELSE replies

ServerIdle == UNCHANGED <<tool, run, conn, outcome>>

\* handleCommand, streamCommand: a shell is spawned in a group of its own, or that
\* fails.
RunCommand(k) ==
    LET i == IF proc[<<k, 1>>].root = "none" THEN 1 ELSE 2
    IN  \/ \E rest \in BOOLEAN :
             /\ proc' = [proc EXCEPT ![<<k, i>>] = [root |-> "running", rest |-> rest]]
             /\ active' = [active EXCEPT ![k] = i]
             /\ UNCHANGED replies
        \/ /\ proc' = [proc EXCEPT ![<<k, i>>] = [root |-> "exited", rest |-> FALSE]]
           /\ active' = [active EXCEPT ![k] = 0]
           /\ Publish("exit", k)

\* handleCommandCancel: the group is signaled and probed, if the command runs.
CancelCommand(k) ==
    IF active[k] = 0
    THEN Publish("left", k) /\ UNCHANGED probes
    ELSE probes' = [probes EXCEPT ![<<k, active[k]>>] = @ + 1] /\ UNCHANGED replies

Deliver ==
    /\ wire # <<>>
    /\ wire' = Tail(wire)
    /\ LET m == Head(wire)
       IN  \/ /\ ~up
             /\ UNCHANGED <<proc, active, probes, replies>>
          \/ /\ up /\ m.type = "command"
             /\ RunCommand(m.of)
             /\ UNCHANGED probes
          \/ /\ up /\ m.type = "cancel"
             /\ CancelCommand(m.of)
             /\ UNCHANGED <<proc, active>>
    /\ UNCHANGED <<up, faults>> /\ ServerIdle

\* The shell ends, by itself, at the runner's timeout or by a signal.
ShellEnds(p) ==
    /\ proc[p].root = "running"
    /\ proc' = [proc EXCEPT ![p].root = "ended"]
    /\ UNCHANGED <<active, probes, up, wire, replies, faults>> /\ ServerIdle

\* "close": the runner hears of it.
Exit(p) ==
    /\ proc[p].root = "ended"
    /\ proc' = [proc EXCEPT ![p].root = "exited"]
    /\ active' = [active EXCEPT ![p[1]] = 0]
    /\ Publish("exit", p[1])
    /\ UNCHANGED <<probes, up, wire, faults>> /\ ServerIdle

\* The last descendant ends.
RestEnds(p) ==
    /\ proc[p].rest
    /\ proc' = [proc EXCEPT ![p].rest = FALSE]
    /\ UNCHANGED <<active, probes, up, wire, replies, faults>> /\ ServerIdle

\* isProcessTreeTerminationConfirmed
TreeGone(p) == proc[p].root \in {"ended", "exited"} /\ ~proc[p].rest

\* confirmProcessTermination: the probe finds nobody, or its time runs out.
Probe(p) ==
    /\ probes[p] > 0
    /\ probes' = [probes EXCEPT ![p] = @ - 1]
    /\ \/ TreeGone(p) /\ Publish("gone", p[1])
       \/ Publish("left", p[1])
    /\ UNCHANGED <<proc, active, up, wire, faults>> /\ ServerIdle

\* cleanup: the commands are signaled, not waited for.
RunnerStops ==
    /\ up
    /\ Fault
    /\ up' = FALSE
    /\ active' = [k \in Attempt |-> 0]
    /\ probes' = [p \in Proc |-> 0]
    /\ UNCHANGED <<proc, wire, replies>> /\ ServerIdle

\* Centrifugo keeps nothing for a client that is away.
Lose ==
    /\ Fault
    /\ \/ wire # <<>> /\ wire' = Tail(wire) /\ UNCHANGED replies
       \/ replies # <<>> /\ replies' = Tail(replies) /\ UNCHANGED wire
    /\ UNCHANGED runner /\ ServerIdle

ToolStep == Abort \/ QuietTimeout \/ NoisyTimeout \/ Close

AttemptStep ==
    \/ StartAttempt \/ OpenAttempt \/ RetryAttempt \/ Subscribe \/ Resubscribe
    \/ CheckPresence \/ PublishAcked \/ PublishFails \/ Receive \/ AckTimeout \/ GiveUp

RunnerStep ==
    \/ Deliver \/ RunnerStops \/ Lose
    \/ \E p \in Proc : ShellEnds(p) \/ Exit(p) \/ RestEnds(p) \/ Probe(p)

Next == ToolStep \/ AttemptStep \/ RunnerStep

Spec == Init /\ [][Next]_vars

-----------------------------------------------------------------------------
(* Properties *)

\* Every variable has its type; the messages are of attempts.
TypeOK ==
    /\ tool \in Tool
    /\ run \in [at: Phases, n: 0..MaxAttempts]
    /\ conn \in Conn
    /\ outcome \in [Attempt -> Outcomes]
    /\ wire \in Seq(Message)
    /\ replies \in Seq(Reply)
    /\ proc \in [Proc -> Process]
    /\ active \in [Attempt -> 0..2]
    /\ probes \in [Proc -> Nat]
    /\ up \in BOOLEAN
    /\ faults \in 0..MaxFaults

\* The command of an attempt will be spawned; its shell runs.
Coming(k) == \E i \in DOMAIN wire : wire[i] = [type |-> "command", of |-> k]
Running(k) == \E p \in Proc : p[1] = k /\ proc[p].root = "running"

\* The command was published twice, and both are on their way or were spawned.
Twice(k) ==
    \/ proc[<<k, 2>>].root # "none"
    \/ proc[<<k, 1>>].root # "none" /\ Coming(k)
    \/ \E i, j \in DOMAIN wire :
          i # j /\ {wire[i], wire[j]} = {[type |-> "command", of |-> k]}

\* An attempt that answered 130 has no shell left and gets none; if the runner
\* confirmed it, nothing of the process group is left either.
CanceledIsGone ==
    \A k \in Attempt :
        outcome[k] \in {"canceled", "confirmed"} /\ ~Twice(k) =>
            /\ ~Running(k) /\ ~Coming(k)
            /\ outcome[k] = "confirmed" => ~proc[<<k, 1>>].rest

\* "keep the handle and output buffer registered rather than claiming success": a
\* tool that reported an end has no shell that runs, and gets none, but those of
\* attempts that failed.
EndedIsGone ==
    tool.answer \in {"gone", "exited", "failed"} =>
        \A k \in Attempt :
            outcome[k] # "failed" /\ ~Twice(k) => ~Running(k) /\ ~Coming(k)

NothingRunsUnseen == CanceledIsGone /\ EndedIsGone

Fairness ==
    /\ WF_vars(StartAttempt) /\ WF_vars(OpenAttempt)
    /\ WF_vars(PublishAcked) /\ WF_vars(AckTimeout)

FairSpec == Spec /\ Fairness

\* A tool that asks for a cancellation gets its answer and returns, whatever is
\* lost; only an attempt that fails meanwhile leaves it without one.
CancelIsAnswered ==
    tool.at = "canceling" ~>
        \/ tool.at = "answered"
        \/ tool.handle # 0 /\ outcome[tool.handle] = "failed"
=============================================================================
