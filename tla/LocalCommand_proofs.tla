------------------------ MODULE LocalCommand_proofs ------------------------
(***************************************************************************)
(* Proofs about LocalCommand: every variable has its type, and an attempt  *)
(* or a tool that reports an end leaves no shell behind, for any number of *)
(* attempts, attempts to close a session, and faults.                      *)
(***************************************************************************)
EXTENDS LocalCommand, TLAPS

-----------------------------------------------------------------------------
(* Messages in a queue *)

Has(s, m) == \E i \in DOMAIN s : s[i] = m

LEMMA AppendHas ==
    ASSUME NEW S, NEW s \in Seq(S), NEW e \in S, NEW m, Has(Append(s, e), m)
    PROVE  Has(s, m) \/ m = e
<1>1. PICK i \in 1..(Len(s) + 1) : Append(s, e)[i] = m BY DEF Has
<1>2. CASE i = Len(s) + 1 BY <1>1, <1>2
<1>3. CASE i # Len(s) + 1
  <2>1. i \in 1..Len(s) BY <1>3
  <2>2. s[i] = m BY <1>1, <2>1
  <2> QED BY <2>1, <2>2 DEF Has
<1> QED BY <1>2, <1>3

LEMMA TailHas ==
    ASSUME NEW S, NEW s \in Seq(S), s # <<>>, NEW m, Has(Tail(s), m)
    PROVE  Has(s, m)
<1>1. PICK i \in 1..(Len(s) - 1) : Tail(s)[i] = m BY DEF Has
<1>2. i + 1 \in 1..Len(s) /\ s[i + 1] = m BY <1>1
<1> QED BY <1>2 DEF Has

LEMMA HeadHas ==
    ASSUME NEW S, NEW s \in Seq(S), s # <<>>
    PROVE  Has(s, Head(s)) /\ Head(s) \in S /\ Tail(s) \in Seq(S)
<1>1. 1 \in DOMAIN s /\ Head(s) = s[1] OBVIOUS
<1> QED BY <1>1 DEF Has

-----------------------------------------------------------------------------
(* Types *)

\* An attempt publishes its command at most once for each time it was subscribed;
\* a run that is under way has an attempt, and a run that waits has another one.
Typed ==
    /\ TypeOK
    /\ conn.checks + conn.sending <= conn.subscribed
    /\ run.at \in {"token", "open", "backoff"} => run.n # 0
    /\ run.at = "backoff" => run.n < MaxAttempts
    /\ run.at = "ready" => run.n = 0

ConnTyped == conn \in Conn /\ conn.checks + conn.sending <= conn.subscribed

RunTyped ==
    /\ run \in [at: Phases, n: 0..MaxAttempts]
    /\ run.at \in {"token", "open", "backoff"} => run.n # 0
    /\ run.at = "backoff" => run.n < MaxAttempts
    /\ run.at = "ready" => run.n = 0

ClientTyped ==
    tool \in Tool /\ RunTyped /\ ConnTyped /\ outcome \in [Attempt -> Outcomes]

RunnerTyped ==
    /\ proc \in [Proc -> Process] /\ active \in [Attempt -> 0..2]
    /\ probes \in [Proc -> Nat] /\ up \in BOOLEAN

LEMMA TypedParts ==
    Typed <=> /\ ClientTyped /\ RunnerTyped /\ wire \in Seq(Message)
              /\ replies \in Seq(Reply) /\ faults \in 0..MaxFaults
BY DEF Typed, TypeOK, ClientTyped, RunTyped, ConnTyped, RunnerTyped

LEMMA TypedInit == Init => Typed
<1> SUFFICES ASSUME Init PROVE Typed OBVIOUS
<1>1. MaxAttempts \in Nat /\ MaxAttempts > 0 /\ MaxCloses \in Nat /\ MaxFaults \in Nat
  BY CommandAssumption
<1>2. tool \in Tool /\ RunTyped BY <1>1 DEF Init, Tool, Answers, RunTyped, Phases
<1>3. ConnTyped BY DEF Init, Fresh, ConnTyped, Conn
<1>4. outcome \in [Attempt -> Outcomes] BY DEF Init, Outcomes
<1>5. RunnerTyped BY DEF Init, RunnerTyped, Process
<1> QED BY <1>1, <1>2, <1>3, <1>4, <1>5, TypedParts DEF Init, ClientTyped

LEMMA ToldTyped ==
    ASSUME NEW t \in Tool, NEW yes \in BOOLEAN, NEW a \in Answers
    PROVE  Told(t, yes) \in Tool /\ Finished(t, a) \in Tool /\ Answered(t, a) \in Tool
<1>1. \A b \in Answers : Answered(t, b) \in Tool BY DEF Answered, Tool
<1>2. \A y \in BOOLEAN : Told(t, y) \in Tool BY <1>1 DEF Told, Answers
<1> QED BY <1>1, <1>2 DEF Finished

LEMMA AnsweredAs ==
    ASSUME NEW t \in Tool, NEW a
    PROVE  Answered(t, a).answer = a
BY DEF Answered, Tool

LEMMA OpenAttemptOf ==
    ASSUME Typed, Open
    PROVE  run.n \in Attempt
BY CommandAssumption DEF Typed, TypeOK, Open, Attempt

\* How an attempt settles keeps the types of the client.
LEMMA SettleTyped ==
    ASSUME Typed, Open, NEW o \in Outcomes, Settle(o)
    PROVE  outcome' \in [Attempt -> Outcomes]
BY OpenAttemptOf DEF Settle, Typed, TypeOK

LEMMA DoneTyped == Typed /\ Done => RunTyped'
BY DEF Done, Typed, TypeOK, RunTyped, Phases

LEMMA SentTyped ==
    ASSUME Typed, Open, NEW t \in {"command", "cancel"}, Send(t)
    PROVE  wire' \in Seq(Message)
<1>1. [type |-> t, of |-> run.n] \in Message BY OpenAttemptOf DEF Message
<1> QED BY <1>1 DEF Send, Typed, TypeOK

LEMMA ResolveTyped ==
    ASSUME Typed, Open, NEW t \in Tool, NEW o \in Outcomes, ResolveCanceled(t, o)
    PROVE  ClientTyped'
<1>1. outcome' \in [Attempt -> Outcomes] /\ RunTyped'
  BY SettleTyped, DoneTyped DEF ResolveCanceled
<1>2. tool' \in Tool BY ToldTyped DEF ResolveCanceled, Answers
<1>3. ConnTyped' BY DEF ResolveCanceled, Typed, TypeOK, ConnTyped, Conn
<1> QED BY <1>1, <1>2, <1>3 DEF ClientTyped

LEMMA RejectTyped ==
    ASSUME Typed, Open, NEW t \in Tool, Reject(t), UNCHANGED conn
    PROVE  ClientTyped'
<1>1. outcome' \in [Attempt -> Outcomes] BY SettleTyped DEF Reject, Outcomes
<1>2. tool' \in Tool BY ToldTyped DEF Reject, Answers
<1>3. RunTyped'
  <2>1. CASE Done BY <2>1, DoneTyped
  <2>2. CASE run.n < MaxAttempts /\ run' = [run EXCEPT !.at = "backoff"]
    BY <2>2 DEF Typed, TypeOK, RunTyped, Phases, Open
  <2> QED BY <2>1, <2>2 DEF Reject
<1>4. ConnTyped' BY DEF Typed, TypeOK, ConnTyped
<1> QED BY <1>1, <1>2, <1>3, <1>4 DEF ClientTyped

LEMMA PublishCancelTyped ==
    ASSUME Typed, Open, NEW t \in Tool, NEW c \in Conn,
           c.checks + c.sending <= c.subscribed, PublishCancel(t, c)
    PROVE  ClientTyped' /\ wire' \in Seq(Message)
<1>1. CASE UNCHANGED wire /\ ResolveCanceled(t, "canceled")
  BY <1>1, ResolveTyped DEF Typed, TypeOK, Outcomes
<1>2. CASE /\ \/ conn' = [c EXCEPT !.canceling = TRUE, !.sent = TRUE]
              \/ conn' = [c EXCEPT !.canceling = TRUE]
           /\ tool' = t /\ UNCHANGED <<run, outcome>>
           /\ UNCHANGED wire \/ Send("cancel")
  <2>1. ConnTyped' BY <1>2 DEF ConnTyped, Conn
  <2>2. wire' \in Seq(Message) BY <1>2, SentTyped DEF Typed, TypeOK
  <2> QED BY <1>2, <2>1, <2>2 DEF ClientTyped, RunTyped, Typed, TypeOK
<1> QED BY <1>1, <1>2 DEF PublishCancel

\* terminateManagedCommand keeps the types, when it cancels an attempt that is open.
LEMMA TerminateTyped ==
    ASSUME Typed, NEW t \in Tool, Terminate(t),
           t.handle # 0 /\ outcome[t.handle] = "open" => Open
    PROVE  ClientTyped' /\ wire' \in Seq(Message)
<1>1. ConnTyped /\ RunTyped BY DEF Typed, TypeOK, ConnTyped, RunTyped
<1>2. CASE t.handle = 0
  <2>1. tool' \in Tool BY <1>2 DEF Terminate, Tool
  <2> QED BY <1>1, <1>2, <2>1 DEF Terminate, ClientTyped, ConnTyped, RunTyped, Typed, TypeOK
<1>3. CASE t.handle # 0 /\ outcome[t.handle] = "open"
  <2>1. [t EXCEPT !.at = "canceling"] \in Tool BY DEF Tool
  <2>2. PublishCancel([t EXCEPT !.at = "canceling"], conn) BY <1>3 DEF Terminate
  <2> QED BY <1>1, <1>3, <2>1, <2>2, PublishCancelTyped DEF ConnTyped
<1>4. CASE t.handle # 0 /\ outcome[t.handle] # "open"
  <2>1. tool' \in Tool BY <1>4, ToldTyped DEF Terminate, Answers
  <2> QED BY <1>1, <1>4, <2>1 DEF Terminate, ClientTyped, ConnTyped, RunTyped, Typed, TypeOK
<1> QED BY <1>2, <1>3, <1>4

-----------------------------------------------------------------------------
(* What is safe: the invariant behind NothingRunsUnseen *)

Command(k) == [type |-> "command", of |-> k]

\* Attempt k has published no command.
Unsent(k) ==
    /\ ~Has(wire, Command(k))
    /\ \A i \in {1, 2} : proc[<<k, i>>] = [root |-> "none", rest |-> FALSE]

Over == {"ended", "exited"}

\* The shell of attempt k has ended (and left nothing, if clean), unless the command
\* was spawned twice.
Ended(k, clean) ==
    \/ proc[<<k, 2>>].root # "none"
    \/ proc[<<k, 1>>].root \in Over /\ (clean => ~proc[<<k, 1>>].rest)

\* What attempt k knows of its command when it settles with o.
Known(k, o) ==
    \/ o = "failed"
    \/ o = "canceled" /\ Unsent(k)
    \/ o \in {"exited", "canceled", "confirmed"} /\ Ended(k, o = "confirmed")

Ends == {"gone", "exited", "failed"}

Safe ==
    /\ \A k \in Attempt : outcome[k] = "open" <=> Open /\ k = run.n
    /\ \A k \in Attempt :
          k > run.n \/ (k = run.n /\ run.at = "token") => outcome[k] = "none"
    /\ \A k \in Attempt : outcome[k] = "none" => Unsent(k)
    /\ Open /\ ~conn.published /\ ~conn.inFlight => Unsent(run.n)
    /\ \A k \in Attempt : outcome[k] \in {"none", "open"} \/ Known(k, outcome[k])
    /\ tool.answer \in Ends => run.at = "done"

\* The runner says only what is so.
Truthful ==
    \A k \in Attempt :
        /\ Has(replies, [type |-> "exit", of |-> k]) => Ended(k, FALSE)
        /\ Has(replies, [type |-> "gone", of |-> k]) => Ended(k, TRUE)

IInv == Typed /\ Safe /\ Truthful

-----------------------------------------------------------------------------
(* What the steps of the tool and of the attempts keep *)

\* No message arrives that was not there, but a cancellation.
Fewer ==
    /\ \A k \in Attempt : Has(wire, Command(k))' => Has(wire, Command(k))
    /\ \A m : Has(replies', m) => Has(replies, m)

\* The shells are as they were, and so is what is known of them.
LEMMA KnowledgeStays ==
    ASSUME UNCHANGED proc, Fewer, NEW k \in Attempt
    PROVE  /\ Unsent(k) => Unsent(k)'
           /\ \A b \in BOOLEAN : Ended(k, b) <=> Ended(k, b)'
           /\ \A o \in Outcomes : Known(k, o) => Known(k, o)'
<1>1. Unsent(k) => Unsent(k)' BY DEF Unsent, Fewer, Command
<1>2. \A b \in BOOLEAN : Ended(k, b) <=> Ended(k, b)' BY DEF Ended
<1> QED BY <1>1, <1>2 DEF Known

LEMMA TruthStays ==
    ASSUME Truthful, UNCHANGED proc, Fewer
    PROVE  Truthful'
<1> SUFFICES ASSUME NEW k \in Attempt
             PROVE  /\ Has(replies', [type |-> "exit", of |-> k]) => Ended(k, FALSE)'
                    /\ Has(replies', [type |-> "gone", of |-> k]) => Ended(k, TRUE)'
  BY DEF Truthful
<1> QED BY KnowledgeStays DEF Truthful, Fewer

LEMMA SameMessages ==
    ASSUME UNCHANGED <<wire, replies>>
    PROVE  Fewer
BY DEF Fewer, Has

LEMMA CancelSent ==
    ASSUME Typed, Open, Send("cancel"), UNCHANGED replies
    PROVE  Fewer
<1>1. [type |-> "cancel", of |-> run.n] \in Message BY OpenAttemptOf DEF Message
<1>2. \A k \in Attempt : Command(k) # [type |-> "cancel", of |-> run.n] BY DEF Command
<1>3. \A k \in Attempt : Has(wire', Command(k)) => Has(wire, Command(k))
  BY <1>1, <1>2, AppendHas DEF Send, Typed, TypeOK
<1> QED BY <1>3 DEF Fewer, Has, Command

\* An attempt that does not settle.
LEMMA StaysSafe ==
    ASSUME Safe, Fewer, UNCHANGED <<run, outcome, proc>>,
           tool'.answer \in Ends => tool.answer \in Ends \/ run.at = "done",
           Open /\ ~conn'.published /\ ~conn'.inFlight => ~conn.published /\ ~conn.inFlight,
           Typed
    PROVE  Safe'
<1>1. \A k \in Attempt : Unsent(k) => Unsent(k)' BY KnowledgeStays
<1>2. \A k \in Attempt : outcome[k] \in Outcomes BY DEF Typed, TypeOK
<1>3. \A k \in Attempt : Known(k, outcome[k]) => Known(k, outcome[k])'
  BY <1>2, KnowledgeStays
<1>4. Open => run.n \in Attempt BY OpenAttemptOf
<1> QED BY <1>1, <1>3, <1>4 DEF Safe, Open

\* An attempt that settles with what it knows.
LEMMA SettlesSafe ==
    ASSUME Typed, Safe, Fewer, Open, UNCHANGED proc,
           NEW o \in Outcomes \ {"none", "open"}, Settle(o), Known(run.n, o),
           run'.n = run.n, run'.at \in {"done", "backoff"},
           tool'.answer \in Ends => tool.answer \in Ends \/ run'.at = "done"
    PROVE  Safe'
<1>1. \A k \in Attempt : Unsent(k) => Unsent(k)' BY KnowledgeStays
<1>2. outcome \in [Attempt -> Outcomes] BY DEF Typed, TypeOK
<1>3. \A k \in Attempt : k # run.n => outcome'[k] = outcome[k]
  BY <1>2 DEF Settle
<1>4. run.n \in Attempt /\ outcome'[run.n] = o BY <1>2, OpenAttemptOf DEF Settle
<1>5. \A k \in Attempt : \A b \in BOOLEAN : Ended(k, b) => Ended(k, b)'
  BY KnowledgeStays
<1>6. ASSUME NEW k \in Attempt
      PROVE  (outcome[k] \in {"none", "open"} \/ Known(k, outcome[k]))'
  <2>1. CASE k = run.n
    BY <1>1, <1>4, <1>5, <2>1 DEF Known
  <2>2. CASE k # run.n
    BY <1>1, <1>3, <1>5, <2>2 DEF Known, Safe
  <2> QED BY <2>1, <2>2
<1>7. ~Open' BY DEF Open
<1>8. \A k \in Attempt : (outcome[k] = "open" <=> Open /\ k = run.n)'
  BY <1>3, <1>4, <1>7 DEF Safe
<1>9. \A k \in Attempt :
        (k > run.n \/ (k = run.n /\ run.at = "token") => outcome[k] = "none")'
  <2> SUFFICES ASSUME NEW k \in Attempt, k > run.n PROVE outcome'[k] = "none" OBVIOUS
  <2>1. k # run.n BY DEF Attempt, Typed, TypeOK
  <2> QED BY <1>3, <2>1 DEF Safe
<1>10. \A k \in Attempt : (outcome[k] = "none" => Unsent(k))'
  BY <1>1, <1>3, <1>4 DEF Safe
<1>11. (tool.answer \in Ends => run.at = "done")' BY DEF Safe, Open
<1> QED BY <1>6, <1>7, <1>8, <1>9, <1>10, <1>11 DEF Safe

\* An answer of the tool that does not say that the command has ended.
Modest(t) == t.answer \in Ends => tool.answer \in Ends

LEMMA ToldModest ==
    ASSUME NEW t, Modest(t)
    PROVE  Modest(Told(t, FALSE))
BY DEF Modest, Told, Answered, Ends

LEMMA RejectSafe ==
    ASSUME Typed, Safe, Fewer, Open, UNCHANGED proc, NEW t \in Tool, Modest(t), Reject(t)
    PROVE  Safe'
<1>1. Settle("failed") /\ Known(run.n, "failed") BY DEF Reject, Known
<1>2. run'.n = run.n /\ run'.at \in {"done", "backoff"} BY DEF Reject, Done, Typed, TypeOK
<1>3. tool'.answer \in Ends => tool.answer \in Ends \/ run'.at = "done"
  BY DEF Reject, Modest, Done, Typed, TypeOK
<1> QED BY <1>1, <1>2, <1>3, SettlesSafe DEF Outcomes

LEMMA ResolveSafe ==
    ASSUME Typed, Safe, Fewer, Open, UNCHANGED proc, NEW t \in Tool,
           NEW o \in {"canceled", "confirmed"}, Known(run.n, o), ResolveCanceled(t, o)
    PROVE  Safe'
<1>1. run'.n = run.n /\ run'.at = "done" BY DEF ResolveCanceled, Done, Typed, TypeOK
<1> QED BY <1>1, SettlesSafe DEF Outcomes, ResolveCanceled

LEMMA PublishCancelSafe ==
    ASSUME Typed, Safe, Open, UNCHANGED <<proc, replies>>, NEW t \in Tool, Modest(t),
           NEW c \in Conn, ~c.published /\ ~c.inFlight => ~conn.published /\ ~conn.inFlight,
           PublishCancel(t, c)
    PROVE  Safe' /\ Fewer
<1>1. CASE UNCHANGED wire /\ ResolveCanceled(t, "canceled") /\ ~c.published /\ ~c.inFlight
  <2>1. Fewer BY <1>1, SameMessages
  <2>2. Known(run.n, "canceled") BY <1>1 DEF Safe, Known
  <2> QED BY <1>1, <2>1, <2>2, ResolveSafe
<1>2. CASE /\ \/ conn' = [c EXCEPT !.canceling = TRUE, !.sent = TRUE]
              \/ conn' = [c EXCEPT !.canceling = TRUE]
           /\ tool' = t /\ UNCHANGED <<run, outcome>>
           /\ UNCHANGED wire \/ Send("cancel")
  <2>1. Fewer BY <1>2, SameMessages, CancelSent
  <2>2. conn'.published = c.published /\ conn'.inFlight = c.inFlight BY <1>2 DEF Conn
  <2> QED BY <1>2, <2>1, <2>2, StaysSafe DEF Modest
<1> QED BY <1>1, <1>2 DEF PublishCancel

LEMMA TerminateSafe ==
    ASSUME Typed, Safe, UNCHANGED <<proc, replies>>, NEW t \in Tool, Modest(t), Terminate(t)
    PROVE  Safe' /\ Fewer
<1>1. CASE t.handle = 0
  <2>1. Fewer BY <1>1, SameMessages DEF Terminate
  <2>2. tool'.answer = t.answer BY <1>1 DEF Terminate, Tool
  <2> QED BY <1>1, <2>1, <2>2, StaysSafe DEF Terminate, Modest
<1>2. CASE t.handle # 0 /\ outcome[t.handle] = "open"
  <2>1. [t EXCEPT !.at = "canceling"] \in Tool /\ Modest([t EXCEPT !.at = "canceling"])
    BY DEF Tool, Modest
  <2>2. Open BY <1>2 DEF Safe, Tool, Attempt
  <2>3. PublishCancel([t EXCEPT !.at = "canceling"], conn) BY <1>2 DEF Terminate
  <2> QED BY <2>1, <2>2, <2>3, PublishCancelSafe DEF Typed, TypeOK
<1>3. CASE t.handle # 0 /\ outcome[t.handle] # "open"
  <2>1. Fewer BY <1>3, SameMessages DEF Terminate
  <2>2. tool'.answer = "assumed" BY <1>3 DEF Terminate, Answered, Tool
  <2> QED BY <1>3, <2>1, <2>2, StaysSafe DEF Terminate, Ends
<1> QED BY <1>1, <1>2, <1>3

\* What a step of the client has to show.
LEMMA ClientStep ==
    ASSUME IInv, ClientTyped', UNCHANGED runner, wire' \in Seq(Message),
           replies' \in Seq(Reply), faults' \in 0..MaxFaults, Safe', Fewer
    PROVE  IInv'
<1>1. UNCHANGED proc BY DEF runner
<1>2. Truthful' BY <1>1, TruthStays DEF IInv
<1>3. RunnerTyped' BY DEF RunnerTyped, runner, IInv, Typed, TypeOK
<1>4. Typed' BY <1>3 DEF Typed, TypeOK, ClientTyped, RunnerTyped, RunTyped, ConnTyped
<1> QED BY <1>2, <1>4 DEF IInv

LEMMA ToolStepKeeps == IInv /\ ToolStep => IInv'
<1> SUFFICES ASSUME IInv, ToolStep PROVE IInv' OBVIOUS
<1>1. Typed /\ Safe /\ Truthful BY DEF IInv
<1>2. UNCHANGED <<replies, runner, faults>>
  BY DEF ToolStep, Abort, QuietTimeout, NoisyTimeout, Close, ToolOnly
<1>3. replies' \in Seq(Reply) /\ faults' \in 0..MaxFaults BY <1>1, <1>2 DEF Typed, TypeOK
<1>4. UNCHANGED proc BY <1>2 DEF runner
<1>5. tool \in Tool /\ ConnTyped /\ RunTyped /\ outcome \in [Attempt -> Outcomes]
      /\ wire \in Seq(Message)
  BY <1>1 DEF Typed, TypeOK, ConnTyped, RunTyped
<1>6. ASSUME NEW t \in Tool, Modest(t), Terminate(t) PROVE IInv'
  <2>1. Safe' /\ Fewer BY <1>1, <1>2, <1>4, <1>6, TerminateSafe
  <2>2. t.handle # 0 /\ outcome[t.handle] = "open" => Open
    BY <1>1 DEF Safe, Tool, Attempt
  <2>3. ClientTyped' /\ wire' \in Seq(Message) BY <1>1, <1>6, <2>2, TerminateTyped
  <2> QED BY <1>2, <1>3, <2>1, <2>3, ClientStep
<1>7. ASSUME tool' \in Tool, UNCHANGED <<conn, outcome, wire>>, RunTyped', Safe'
      PROVE  IInv'
  <2>1. Fewer BY <1>2, <1>7, SameMessages
  <2>2. ClientTyped' BY <1>5, <1>7 DEF ClientTyped, ConnTyped
  <2> QED BY <1>2, <1>3, <1>5, <1>7, <2>1, <2>2, ClientStep
<1>8. ASSUME UNCHANGED <<run, conn, outcome, wire>>, tool' \in Tool,
             tool'.answer \in Ends => tool.answer \in Ends \/ run.at = "done"
      PROVE  IInv'
  <2>1. Fewer BY <1>2, <1>8, SameMessages
  <2>2. Safe' BY <1>1, <1>4, <1>8, <2>1, StaysSafe
  <2>3. RunTyped' BY <1>5, <1>8 DEF RunTyped
  <2> QED BY <1>7, <1>8, <2>2, <2>3
<1>9. CASE Abort
  <2> DEFINE t == [tool EXCEPT !.aborted = TRUE]
  <2>1. t \in Tool /\ Modest(t) /\ t.answer = tool.answer BY <1>5 DEF Tool, Modest
  <2>2. CASE run.at = "backoff"
    <3>1. tool' \in Tool /\ tool'.answer \in {"assumed", tool.answer}
      BY <1>9, <2>1, <2>2, ToldTyped, AnsweredAs DEF Abort, Answers
    <3>2. RunTyped' BY <1>1, <1>9, <2>2, DoneTyped DEF Abort
    <3>3. run'.n = run.n /\ run'.at = "done" BY <1>5, <1>9, <2>2 DEF Abort, Done, RunTyped
    <3>4. Fewer BY <1>2, <1>9, <2>2, SameMessages DEF Abort
    <3>5. \A k \in Attempt : outcome[k] \in Outcomes BY <1>5
    <3>6. \A k \in Attempt :
            (Unsent(k) => Unsent(k)') /\ (Known(k, outcome[k]) => Known(k, outcome[k])')
      BY <1>4, <1>9, <2>2, <3>4, <3>5, KnowledgeStays DEF Abort
    <3>7. Safe'
      BY <1>1, <1>9, <2>2, <3>1, <3>3, <3>6 DEF Abort, Safe, Open, Ends
    <3> QED BY <1>7, <1>9, <2>2, <3>1, <3>2, <3>7 DEF Abort
  <2>3. CASE run.at # "backoff" /\ tool.at = "running"
    BY <1>6, <1>9, <2>1, <2>3 DEF Abort, Tool
  <2>4. CASE run.at # "backoff" /\ tool.at # "running"
    BY <1>8, <1>9, <2>1, <2>4 DEF Abort, Tool
  <2> QED BY <2>2, <2>3, <2>4
<1>10. CASE QuietTimeout
  <2>1. tool' \in Tool /\ tool'.answer = "session"
    BY <1>5, <1>10, ToldTyped, AnsweredAs DEF QuietTimeout, Answers
  <2> QED BY <1>8, <1>10, <2>1 DEF QuietTimeout, Ends
<1>11. CASE NoisyTimeout
  BY <1>5, <1>6, <1>11 DEF NoisyTimeout, Modest
<1>12. CASE Close
  <2> DEFINE t == [tool EXCEPT !.closes = @ + 1]
  <2>1. t \in Tool /\ Modest(t) BY <1>5, <1>12, CommandAssumption DEF Close, Tool, Modest
  <2>2. CASE run.at = "done"
    <3>1. tool' \in Tool BY <1>12, <2>1, <2>2, ToldTyped DEF Close, Answers
    <3> QED BY <1>8, <1>12, <2>2, <3>1 DEF Close
  <2>3. CASE run.at # "done" BY <1>6, <1>12, <2>1, <2>3 DEF Close
  <2> QED BY <2>2, <2>3
<1> QED BY <1>9, <1>10, <1>11, <1>12 DEF ToolStep

-----------------------------------------------------------------------------
(* Attempts *)

\* The parts of the invariant, as the steps of an attempt use them.
LEMMA Parts ==
    ASSUME IInv
    PROVE  /\ Typed /\ Safe /\ Truthful
           /\ tool \in Tool /\ ConnTyped /\ RunTyped /\ outcome \in [Attempt -> Outcomes]
           /\ wire \in Seq(Message) /\ replies \in Seq(Reply) /\ faults \in 0..MaxFaults
BY DEF IInv, Typed, TypeOK, ConnTyped, RunTyped

LEMMA FaultTyped == IInv /\ Fault => faults' \in 0..MaxFaults
BY CommandAssumption, Parts DEF Fault

\* What is known stays known when a step leaves the shells and the messages.
LEMMA SameKnowledge ==
    ASSUME IInv, UNCHANGED <<wire, replies, proc>>, NEW k \in Attempt
    PROVE  /\ Fewer
           /\ Unsent(k) => Unsent(k)'
           /\ \A b \in BOOLEAN : Ended(k, b) <=> Ended(k, b)'
           /\ \A o \in Outcomes : Known(k, o) => Known(k, o)'
BY SameMessages, KnowledgeStays

\* While no attempt is open, nothing settles.
LEMMA IdleSafe ==
    ASSUME IInv, UNCHANGED <<outcome, wire, replies, proc>>, ~Open, ~Open',
           \A k \in Attempt :
              (k > run.n \/ (k = run.n /\ run.at = "token") => outcome[k] = "none")',
           (tool.answer \in Ends => run.at = "done")'
    PROVE  Safe' /\ Fewer
<1>1. \A k \in Attempt : outcome[k] \in Outcomes BY Parts
<1>2. \A k \in Attempt :
        (Unsent(k) => Unsent(k)') /\ (Known(k, outcome[k]) => Known(k, outcome[k])')
  BY <1>1, SameKnowledge
<1> QED BY <1>2, Parts, SameMessages DEF Safe

LEMMA StartKeeps == IInv /\ StartAttempt => IInv'
<1> SUFFICES ASSUME IInv, StartAttempt PROVE IInv' OBVIOUS
<1>1. UNCHANGED <<conn, outcome, wire, replies, runner, proc, faults>>
  BY DEF StartAttempt, ToolOnly, runner
<1>2. run.at = "ready" /\ run.n = 0 /\ ~Open BY Parts DEF StartAttempt, RunTyped, Open
<1>3. \A k \in Attempt : outcome[k] = "none" BY <1>2, Parts DEF Safe, Attempt
<1>4. tool' \in Tool /\ RunTyped' /\ run'.at \in {"token", "done"}
      /\ (tool.answer \in Ends => run.at = "done")'
  <2>1. CASE tool.at = "running"
    <3>1. run' = [at |-> "token", n |-> 1] /\ UNCHANGED tool BY <2>1 DEF StartAttempt
    <3>2. RunTyped' BY <3>1, CommandAssumption DEF RunTyped, Phases
    <3>3. tool.answer \notin Ends BY <1>2, Parts DEF Safe
    <3> QED BY <3>1, <3>2, <3>3, Parts
  <2>2. CASE tool.at # "running"
    <3>1. Done /\ tool' = Finished(tool, "gone") BY <2>2 DEF StartAttempt
    <3>2. tool' \in Tool BY <3>1, Parts, ToldTyped DEF Answers
    <3>3. run'.at = "done" BY <3>1, Parts DEF Done, RunTyped
    <3> QED BY <3>1, <3>2, <3>3, DoneTyped, Parts
  <2> QED BY <2>1, <2>2
<1>5. Safe' /\ Fewer BY <1>1, <1>2, <1>3, <1>4, IdleSafe DEF Open
<1>6. ClientTyped' BY <1>1, <1>4, Parts DEF ClientTyped, ConnTyped
<1> QED BY <1>1, <1>5, <1>6, Parts, ClientStep

LEMMA RetryKeeps == IInv /\ RetryAttempt => IInv'
<1> SUFFICES ASSUME IInv, RetryAttempt PROVE IInv' OBVIOUS
<1>1. UNCHANGED <<tool, conn, outcome, wire, replies, runner, proc, faults>>
  BY DEF RetryAttempt, ToolOnly, runner
<1>2. run.at = "backoff" /\ run.n \in Nat /\ run.n < MaxAttempts /\ ~Open
  BY Parts, CommandAssumption DEF RetryAttempt, RunTyped, Open
<1>3. run' = [at |-> "token", n |-> run.n + 1] BY DEF RetryAttempt
<1>4. RunTyped' BY <1>2, <1>3, CommandAssumption DEF RunTyped, Phases
<1>5. \A k \in Attempt : k > run.n => outcome[k] = "none" BY Parts DEF Safe
<1>6. \A k \in Attempt :
        (k > run.n \/ (k = run.n /\ run.at = "token") => outcome[k] = "none")'
  BY <1>1, <1>2, <1>3, <1>5 DEF Attempt
<1>7. tool.answer \notin Ends BY <1>2, Parts DEF Safe
<1>8. Safe' /\ Fewer BY <1>1, <1>2, <1>3, <1>6, <1>7, IdleSafe DEF Open
<1>9. ClientTyped' BY <1>1, <1>4, Parts DEF ClientTyped, ConnTyped
<1> QED BY <1>1, <1>8, <1>9, Parts, ClientStep

LEMMA OpenKeeps == IInv /\ OpenAttempt => IInv'
<1> SUFFICES ASSUME IInv, OpenAttempt PROVE IInv' OBVIOUS
<1>1. UNCHANGED <<wire, replies, runner, proc, faults>>
  BY DEF OpenAttempt, ToolOnly, runner
<1>2. run.at = "token" /\ run.n \in Attempt /\ ~Open
  BY Parts, CommandAssumption DEF OpenAttempt, RunTyped, Open, Attempt
<1>3. outcome[run.n] = "none" /\ Unsent(run.n) BY <1>2, Parts DEF Safe
<1>4. \A k \in Attempt : outcome[k] # "open" BY <1>2, Parts DEF Safe
<1>5. ConnTyped' BY DEF OpenAttempt, Fresh, ConnTyped, Conn
<1>6. \A k \in Attempt : outcome[k] \in Outcomes BY Parts
<1>7. \A k \in Attempt :
        (Unsent(k) => Unsent(k)') /\ \A b \in BOOLEAN : Ended(k, b) => Ended(k, b)'
  BY <1>1, SameKnowledge
<1>8. Fewer BY <1>1, SameMessages
<1>9. \A k \in Attempt : k > run.n => k # run.n BY Parts DEF RunTyped, Attempt
<1>10. CASE tool.signal
  <2>1. outcome' = [outcome EXCEPT ![run.n] = "canceled"] /\ Done
        /\ tool' = [Finished(tool, "gone") EXCEPT !.handle = run.n]
    BY <1>10 DEF OpenAttempt, Settle
  <2>2. run'.n = run.n /\ run'.at = "done" BY <2>1, Parts DEF Done, RunTyped
  <2>3. RunTyped' BY <2>1, DoneTyped, Parts
  <2>4. tool' \in Tool
    <3>1. Finished(tool, "gone") \in Tool BY Parts, ToldTyped DEF Answers
    <3> QED BY <1>2, <2>1, <3>1 DEF Tool, Attempt
  <2>5. outcome' \in [Attempt -> Outcomes] BY <2>1, Parts DEF Outcomes
  <2>6. \A k \in Attempt : k # run.n => outcome'[k] = outcome[k] BY <2>1, Parts
  <2>7. outcome'[run.n] = "canceled" BY <1>2, <2>1, Parts
  <2>8. \A k \in Attempt : (outcome[k] \in {"none", "open"} \/ Known(k, outcome[k]))'
    BY <1>3, <1>4, <1>7, <2>6, <2>7, Parts DEF Safe, Known
  <2>9. Safe'
    BY <1>4, <1>7, <1>9, <2>2, <2>6, <2>7, <2>8, Parts DEF Safe, Open
  <2> QED BY <1>1, <1>5, <1>8, <2>3, <2>4, <2>5, <2>9, Parts, ClientStep DEF ClientTyped
<1>11. CASE ~tool.signal
  <2>1. outcome' = [outcome EXCEPT ![run.n] = "open"] /\ run' = [run EXCEPT !.at = "open"]
        /\ tool' = [tool EXCEPT !.handle = run.n]
    BY <1>11 DEF OpenAttempt, Settle
  <2>2. run'.n = run.n /\ run'.at = "open" BY <2>1, Parts DEF RunTyped
  <2>3. RunTyped' BY <1>2, <2>1, Parts DEF RunTyped, Phases, Attempt
  <2>4. tool' \in Tool /\ tool'.answer = tool.answer
    <3>1. tool \in Tool BY Parts
    <3> QED BY <1>2, <2>1, <3>1 DEF Tool, Attempt
  <2>5. outcome' \in [Attempt -> Outcomes] BY <2>1, Parts DEF Outcomes
  <2>6. \A k \in Attempt : k # run.n => outcome'[k] = outcome[k] BY <2>1, Parts
  <2>7. outcome'[run.n] = "open" BY <1>2, <2>1, Parts
  <2>8. \A k \in Attempt : (outcome[k] \in {"none", "open"} \/ Known(k, outcome[k]))'
    BY <1>4, <1>7, <2>6, <2>7, Parts DEF Safe, Known
  <2>9. tool.answer \notin Ends BY <1>2, Parts DEF Safe
  <2>10. Unsent(run.n)' BY <1>2, <1>3, <1>7, <2>2 DEF Unsent
  <2>11. Safe'
    BY <1>4, <1>7, <1>9, <2>2, <2>4, <2>6, <2>7, <2>8, <2>9, <2>10, Parts DEF Safe, Open
  <2> QED BY <1>1, <1>5, <1>8, <2>3, <2>4, <2>5, <2>11, Parts, ClientStep DEF ClientTyped
<1> QED BY <1>10, <1>11

\* An attempt that does not settle, with messages typed.
LEMMA StaysKeeps ==
    ASSUME IInv, UNCHANGED <<run, outcome, runner>>, Fewer, tool' \in Tool, ConnTyped',
           wire' \in Seq(Message), replies' \in Seq(Reply), faults' \in 0..MaxFaults,
           tool'.answer \in Ends => tool.answer \in Ends,
           Open /\ ~conn'.published /\ ~conn'.inFlight => ~conn.published /\ ~conn.inFlight
    PROVE  IInv'
<1>1. UNCHANGED proc BY DEF runner
<1>2. Safe' BY <1>1, Parts, StaysSafe
<1>3. ClientTyped' BY Parts DEF ClientTyped, RunTyped
<1> QED BY <1>2, <1>3, ClientStep

LEMMA ConnCounts ==
    ASSUME NEW c \in Conn, NEW s \in 0..2, NEW p \in 0..2, NEW q \in 0..2, NEW f \in BOOLEAN
    PROVE  [c EXCEPT !.subscribed = s, !.checks = p, !.sending = q, !.inFlight = f] \in Conn
BY DEF Conn

LEMMA SubscribedTyped ==
    ASSUME IInv, conn.subscribed \in {0, 1}, Subscribed
    PROVE  ConnTyped' /\ conn'.published = conn.published /\ conn'.inFlight = conn.inFlight
<1>1. ConnTyped BY Parts
<1>2. conn' = [conn EXCEPT !.subscribed = @ + 1, !.checks = @ + 1] BY DEF Subscribed
<1>3. ConnTyped'
  <2>1. conn \in Conn /\ conn.checks + conn.sending <= conn.subscribed BY <1>1 DEF ConnTyped
  <2>2. conn.subscribed + 1 \in 0..2 /\ conn.checks + 1 \in 0..2 /\ conn.sending \in 0..2
        /\ conn.inFlight \in BOOLEAN
    BY <2>1 DEF Conn
  <2>3. conn' = [conn EXCEPT !.subscribed = conn.subscribed + 1, !.checks = conn.checks + 1,
                             !.sending = conn.sending, !.inFlight = conn.inFlight]
    BY <1>2, <2>1 DEF Conn
  <2>4. conn' \in Conn BY <2>1, <2>2, <2>3, ConnCounts
  <2>5. conn'.subscribed = conn.subscribed + 1 /\ conn'.checks = conn.checks + 1
        /\ conn'.sending = conn.sending
    BY <1>2, <2>1 DEF Conn
  <2> QED BY <2>1, <2>2, <2>4, <2>5 DEF ConnTyped, Conn
<1>4. conn'.published = conn.published /\ conn'.inFlight = conn.inFlight
  BY <1>1, <1>2 DEF ConnTyped, Conn
<1> QED BY <1>3, <1>4

LEMMA SubscribeKeeps == IInv /\ (Subscribe \/ Resubscribe) => IInv'
<1> SUFFICES ASSUME IInv, Subscribe \/ Resubscribe PROVE IInv' OBVIOUS
<1>1. UNCHANGED <<tool, run, outcome, wire, replies, runner>>
  BY DEF Subscribe, Resubscribe, ToolOnly
<1>2. faults' \in 0..MaxFaults BY Parts, FaultTyped DEF Subscribe, Resubscribe, ToolOnly
<1>3. ConnTyped' /\ conn'.published = conn.published /\ conn'.inFlight = conn.inFlight
  BY SubscribedTyped DEF Subscribe, Resubscribe
<1> QED BY <1>1, <1>2, <1>3, Parts, SameMessages, StaysKeeps

\* An attempt that is rejected.
LEMMA RejectKeeps ==
    ASSUME IInv, Open, NEW t \in Tool, Modest(t), Reject(t),
           UNCHANGED <<conn, wire, replies, runner>>, faults' \in 0..MaxFaults
    PROVE  IInv'
<1>1. Fewer /\ UNCHANGED proc BY SameMessages DEF runner
<1>2. Safe' BY <1>1, Parts, RejectSafe
<1>3. ClientTyped' BY Parts, RejectTyped
<1> QED BY <1>1, <1>2, <1>3, Parts, ClientStep

LEMMA FailsKeeps == IInv /\ (PublishFails \/ GiveUp) => IInv'
<1> SUFFICES ASSUME IInv, PublishFails \/ GiveUp PROVE IInv' OBVIOUS
<1>1. CASE PublishFails
  <2> DEFINE t == IF conn.canceling THEN Told(tool, FALSE) ELSE tool
  <2>1. t \in Tool BY Parts, ToldTyped DEF Answers
  <2>2. Modest(tool) BY DEF Modest
  <2>3. Modest(t) BY <2>2, ToldModest
  <2>4. Reject(t) BY <1>1 DEF PublishFails
  <2> HIDE DEF t
  <2> QED BY <1>1, <2>1, <2>3, <2>4, FaultTyped, RejectKeeps DEF PublishFails
<1>2. CASE GiveUp
  <2>1. faults' \in 0..MaxFaults BY <1>2, Parts, CommandAssumption DEF GiveUp
  <2> QED BY <1>2, <2>1, Parts, RejectKeeps DEF GiveUp, Modest
<1> QED BY <1>1, <1>2

\* The command is published: what is open is no longer unsent.
LEMMA PresenceKeeps == IInv /\ CheckPresence => IInv'
<1> SUFFICES ASSUME IInv, CheckPresence PROVE IInv' OBVIOUS
<1>1. Open /\ UNCHANGED <<replies, runner, faults>> BY DEF CheckPresence, ToolOnly
<1>2. CASE Reject(tool) /\ UNCHANGED <<conn, wire>>
  BY <1>1, <1>2, Parts, RejectKeeps DEF Modest
<1>3. CASE /\ conn' = [conn EXCEPT !.checks = @ - 1, !.sending = @ + 1, !.inFlight = TRUE]
           /\ Send("command")
           /\ UNCHANGED <<tool, run, outcome>>
  <2>1. ConnTyped' /\ conn'.inFlight
    <3>1. conn \in Conn /\ conn.checks + conn.sending <= conn.subscribed /\ conn.checks > 0
      BY Parts DEF CheckPresence, ConnTyped
    <3>2. conn.checks \in 1..2 /\ conn.sending \in 0..1 /\ conn.subscribed \in 0..2
      BY <3>1 DEF Conn
    <3>3. conn' \in Conn
      <4>1. conn.checks - 1 \in 0..2 /\ conn.sending + 1 \in 0..2 BY <3>2
      <4>2. conn' = [conn EXCEPT !.subscribed = conn.subscribed, !.checks = conn.checks - 1,
                                 !.sending = conn.sending + 1, !.inFlight = TRUE]
        BY <1>3, <3>1 DEF Conn
      <4> QED BY <3>1, <3>2, <4>1, <4>2, ConnCounts
    <3>4. conn'.checks = conn.checks - 1 /\ conn'.sending = conn.sending + 1
          /\ conn'.subscribed = conn.subscribed /\ conn'.inFlight
      BY <1>3, <3>1 DEF Conn
    <3> QED BY <3>1, <3>2, <3>3, <3>4 DEF ConnTyped
  <2>2. wire' \in Seq(Message) BY <1>1, <1>3, Parts, SentTyped
  <2>3. run.n \in Attempt BY <1>1, Parts, OpenAttemptOf
  <2>4. ASSUME NEW k \in Attempt, k # run.n
        PROVE  /\ Unsent(k) => Unsent(k)'
               /\ \A b \in BOOLEAN : Ended(k, b) => Ended(k, b)'
    <3>1. Command(run.n) \in Message BY <2>3 DEF Command, Message
    <3>2. wire' = Append(wire, Command(run.n)) BY <1>3 DEF Send, Command
    <3>3. Command(k) # Command(run.n) BY <2>4 DEF Command
    <3>4. Has(wire', Command(k)) => Has(wire, Command(k))
      BY <3>1, <3>2, <3>3, Parts, AppendHas
    <3>5. UNCHANGED proc BY <1>1 DEF runner
    <3> QED BY <3>4, <3>5 DEF Unsent, Ended, Command
  <2>5. outcome[run.n] = "open" BY <1>1, <2>3, Parts DEF Safe
  <2>6. \A k \in Attempt : k # run.n => (Known(k, outcome[k]) => Known(k, outcome[k])')
    BY <1>3, <2>4 DEF Known
  <2>7. Safe' BY <1>1, <1>3, <2>1, <2>3, <2>4, <2>5, <2>6, Parts DEF Safe, Open
  <2>8. Truthful'
    <3>1. \A k \in Attempt : \A b \in BOOLEAN : Ended(k, b) => Ended(k, b)'
      BY <1>1 DEF Ended, runner
    <3>2. UNCHANGED replies BY <1>1
    <3> QED BY <3>1, <3>2, Parts DEF Truthful, Has
  <2>9. Typed'
    BY <1>1, <1>3, <2>1, <2>2, Parts DEF Typed, TypeOK, ConnTyped, runner
  <2> QED BY <2>7, <2>8, <2>9 DEF IInv
<1> QED BY <1>2, <1>3 DEF CheckPresence

LEMMA AckedKeeps == IInv /\ PublishAcked => IInv'
<1> SUFFICES ASSUME IInv, PublishAcked PROVE IInv' OBVIOUS
<1> DEFINE c == [conn EXCEPT !.sending = @ - 1, !.inFlight = FALSE, !.published = TRUE]
<1>1. Open /\ UNCHANGED <<replies, runner, faults>> BY DEF PublishAcked, ToolOnly
<1>2. UNCHANGED proc BY <1>1 DEF runner
<1>3. c \in Conn /\ c.checks + c.sending <= c.subscribed /\ c.published
  <2>1. conn \in Conn /\ conn.checks + conn.sending <= conn.subscribed /\ conn.sending > 0
    BY Parts DEF PublishAcked, ConnTyped
  <2>2. conn.sending \in 1..2 /\ conn.checks \in 0..2 /\ conn.subscribed \in 0..2
    BY <2>1 DEF Conn
  <2>3. conn.sending - 1 \in 0..2 BY <2>2
  <2> DEFINE d == [conn EXCEPT !.subscribed = conn.subscribed, !.checks = conn.checks,
                               !.sending = conn.sending - 1, !.inFlight = FALSE]
  <2>4. d \in Conn BY <2>1, <2>2, <2>3, ConnCounts
  <2>5. c = [d EXCEPT !.published = TRUE] BY <2>1 DEF Conn
  <2>6. c \in Conn /\ c.published BY <2>4, <2>5 DEF Conn
  <2>7. c.checks = conn.checks /\ c.sending = conn.sending - 1
        /\ c.subscribed = conn.subscribed
    BY <2>1 DEF Conn
  <2> QED BY <2>1, <2>2, <2>6, <2>7
<1>4. (conn.canceling /\ PublishCancel(tool, c)) \/ (conn' = c /\ UNCHANGED <<tool, run, outcome, wire>>)
  BY Parts DEF PublishAcked, ConnTyped, Conn
<1> HIDE DEF c
<1>5. CASE PublishCancel(tool, c)
  <2>1. Safe' /\ Fewer BY <1>1, <1>2, <1>3, <1>5, Parts, PublishCancelSafe DEF Modest
  <2>2. ClientTyped' /\ wire' \in Seq(Message) BY <1>1, <1>3, <1>5, Parts, PublishCancelTyped
  <2> QED BY <1>1, <2>1, <2>2, Parts, ClientStep
<1>6. CASE conn' = c /\ UNCHANGED <<tool, run, outcome, wire>>
  <2>1. ConnTyped' BY <1>3, <1>6 DEF ConnTyped
  <2> QED BY <1>1, <1>3, <1>6, <2>1, Parts, SameMessages, StaysKeeps
<1> QED BY <1>4, <1>5, <1>6

LEMMA CancelFailedTyped ==
    ASSUME IInv, CancelFailed
    PROVE  /\ tool' \in Tool /\ ConnTyped' /\ (tool'.answer \in Ends => tool.answer \in Ends)
           /\ conn'.published = conn.published /\ conn'.inFlight = conn.inFlight
<1>1. tool' \in Tool BY Parts, ToldTyped DEF CancelFailed, Answers
<1>2. tool'.answer \in Ends => tool.answer \in Ends
  BY ToldModest DEF CancelFailed, Modest
<1>3. ConnTyped' BY Parts DEF CancelFailed, ConnTyped, Conn
<1>4. conn \in Conn BY Parts DEF ConnTyped
<1>5. conn'.published = conn.published /\ conn'.inFlight = conn.inFlight
  BY <1>4 DEF CancelFailed, Conn
<1> QED BY <1>1, <1>2, <1>3, <1>5

LEMMA AckTimeoutKeeps == IInv /\ AckTimeout => IInv'
<1> SUFFICES ASSUME IInv, AckTimeout PROVE IInv' OBVIOUS
<1>1. CancelFailed /\ UNCHANGED <<run, outcome, wire, replies, runner, faults>>
  BY DEF AckTimeout, ToolOnly
<1> QED BY <1>1, CancelFailedTyped, Parts, SameMessages, StaysKeeps

LEMMA ReceiveKeeps == IInv /\ Receive => IInv'
<1> SUFFICES ASSUME IInv, Receive PROVE IInv' OBVIOUS
<1> DEFINE r == Head(replies)
<1>1. UNCHANGED <<wire, runner, faults>> /\ replies' = Tail(replies) BY DEF Receive
<1>2. Has(replies, r) /\ r \in Reply /\ replies' \in Seq(Reply)
  BY <1>1, Parts, HeadHas DEF Receive
<1>3. Fewer
  <2>1. \A m : Has(replies', m) => Has(replies, m) BY <1>1, Parts, TailHas DEF Receive
  <2> QED BY <1>1, <2>1 DEF Fewer, Has, Command
<1>4. UNCHANGED proc BY <1>1 DEF runner
<1>5. r = [type |-> r.type, of |-> r.of] BY <1>2 DEF Reply
<1>6. Open /\ r.of = run.n =>
        /\ run.n \in Attempt
        /\ r.type = "exit" => Ended(run.n, FALSE)
        /\ r.type = "gone" => Ended(run.n, TRUE)
  BY <1>2, <1>5, Parts, OpenAttemptOf DEF Truthful
<1>7. CASE UNCHANGED <<tool, run, conn, outcome>>
  BY <1>1, <1>2, <1>3, <1>7, Parts, StaysKeeps DEF ConnTyped
<1>8. ASSUME Open, r.of = run.n, NEW o \in {"canceled", "confirmed"},
             o = "canceled" => r.type = "exit", o = "confirmed" => r.type = "gone",
             ResolveCanceled(tool, o)
      PROVE  IInv'
  <2>1. Known(run.n, o) BY <1>6, <1>8 DEF Known
  <2>2. Safe' BY <1>3, <1>4, <1>8, <2>1, Parts, ResolveSafe
  <2>3. ClientTyped' BY <1>8, Parts, ResolveTyped DEF Outcomes
  <2> QED BY <1>1, <1>2, <1>3, <2>2, <2>3, Parts, ClientStep
<1>9. CASE Open /\ r.of = run.n /\ r.type = "exit" /\ ResolveExited
  <2>1. Known(run.n, "exited") BY <1>6, <1>9 DEF Known
  <2>2. run'.n = run.n /\ run'.at = "done" BY <1>9, Parts DEF ResolveExited, Done, RunTyped
  <2>3. Safe' BY <1>3, <1>4, <1>9, <2>1, <2>2, Parts, SettlesSafe DEF ResolveExited, Outcomes
  <2>4. outcome' \in [Attempt -> Outcomes] /\ RunTyped'
    BY <1>9, Parts, SettleTyped, DoneTyped DEF ResolveExited, Outcomes
  <2>5. tool' \in Tool BY <1>9, Parts, ToldTyped DEF ResolveExited, Answers
  <2>6. ClientTyped' BY <1>9, <2>4, <2>5, Parts DEF ClientTyped, ConnTyped, ResolveExited
  <2> QED BY <1>1, <1>2, <1>3, <2>3, <2>6, Parts, ClientStep
<1>10. CASE CancelFailed /\ UNCHANGED <<run, outcome>>
  BY <1>1, <1>2, <1>3, <1>10, CancelFailedTyped, Parts, StaysKeeps
<1> QED BY <1>7, <1>8, <1>9, <1>10 DEF Receive

LEMMA AttemptStepKeeps == IInv /\ AttemptStep => IInv'
BY StartKeeps, OpenKeeps, RetryKeeps, SubscribeKeeps, PresenceKeeps, AckedKeeps, FailsKeeps,
   ReceiveKeeps, AckTimeoutKeeps DEF AttemptStep

-----------------------------------------------------------------------------
(* The runner *)

\* What is known of the shells stays known.
Grows ==
    \A k \in Attempt :
        (Unsent(k) => Unsent(k)') /\ \A b \in BOOLEAN : Ended(k, b) => Ended(k, b)'

LEMMA RunnerKeeps ==
    ASSUME IInv, ServerIdle, Grows, Truthful', RunnerTyped', wire' \in Seq(Message),
           replies' \in Seq(Reply), faults' \in 0..MaxFaults
    PROVE  IInv'
<1>1. \A k \in Attempt : Known(k, outcome[k]) => Known(k, outcome[k])'
  BY DEF Grows, Known, ServerIdle
<1>2. Open => run.n \in Attempt BY Parts, OpenAttemptOf
<1>3. Safe' BY <1>1, <1>2, Parts DEF Safe, Grows, ServerIdle, Open
<1>4. Typed' BY Parts DEF Typed, TypeOK, ServerIdle, RunnerTyped
<1> QED BY <1>3, <1>4 DEF IInv

LEMMA PublishTyped ==
    ASSUME IInv, NEW t \in {"exit", "gone", "left"}, NEW k \in Attempt, Publish(t, k)
    PROVE  /\ replies' \in Seq(Reply)
           /\ \A m : Has(replies', m) => Has(replies, m) \/ m = [type |-> t, of |-> k]
<1>1. [type |-> t, of |-> k] \in Reply BY DEF Reply
<1>2. replies \in Seq(Reply) BY Parts
<1> QED BY <1>1, <1>2, AppendHas DEF Publish

LEMMA PublishTrue ==
    ASSUME IInv, Grows, NEW t \in {"exit", "gone", "left"}, NEW k \in Attempt, Publish(t, k),
           t = "exit" => Ended(k, FALSE)', t = "gone" => Ended(k, TRUE)'
    PROVE  Truthful'
<1>1. \A m : Has(replies', m) => Has(replies, m) \/ m = [type |-> t, of |-> k]
  BY PublishTyped
<1> SUFFICES ASSUME NEW j \in Attempt
             PROVE  /\ Has(replies', [type |-> "exit", of |-> j]) => Ended(j, FALSE)'
                    /\ Has(replies', [type |-> "gone", of |-> j]) => Ended(j, TRUE)'
  BY DEF Truthful
<1>2. Has(replies', [type |-> "exit", of |-> j]) => Ended(j, FALSE)'
  <2> SUFFICES ASSUME Has(replies', [type |-> "exit", of |-> j]) PROVE Ended(j, FALSE)'
    OBVIOUS
  <2>1. CASE Has(replies, [type |-> "exit", of |-> j]) BY <2>1, Parts DEF Truthful, Grows
  <2>2. CASE [type |-> "exit", of |-> j] = [type |-> t, of |-> k]
    <3>1. t = "exit" /\ j = k BY <2>2
    <3> QED BY <3>1
  <2> QED BY <1>1, <2>1, <2>2
<1>3. Has(replies', [type |-> "gone", of |-> j]) => Ended(j, TRUE)'
  <2> SUFFICES ASSUME Has(replies', [type |-> "gone", of |-> j]) PROVE Ended(j, TRUE)'
    OBVIOUS
  <2>1. CASE Has(replies, [type |-> "gone", of |-> j]) BY <2>1, Parts DEF Truthful, Grows
  <2>2. CASE [type |-> "gone", of |-> j] = [type |-> t, of |-> k]
    <3>1. t = "gone" /\ j = k BY <2>2
    <3> QED BY <3>1
  <2> QED BY <1>1, <2>1, <2>2
<1> QED BY <1>2, <1>3

LEMMA TruthGrows ==
    ASSUME Truthful, Grows, \A m : Has(replies', m) => Has(replies, m)
    PROVE  Truthful'
BY DEF Truthful, Grows

LEMMA ProcOf == \A p \in Proc : p[1] \in Attempt /\ p[2] \in {1, 2} /\ p = <<p[1], p[2]>>
BY DEF Proc

LEMMA ProcIn == \A k \in Attempt : \A i \in {1, 2} : <<k, i>> \in Proc
BY DEF Proc

LEMMA RunnerParts ==
    ASSUME IInv
    PROVE  /\ proc \in [Proc -> Process] /\ active \in [Attempt -> 0..2]
           /\ probes \in [Proc -> Nat] /\ up \in BOOLEAN
BY DEF IInv, Typed, TypeOK

\* One process changes; it was spawned before, and is as ended as it was.
LEMMA ProcGrows ==
    ASSUME IInv, NEW p \in Proc, NEW v \in Process, proc' = [proc EXCEPT ![p] = v],
           proc[p] # [root |-> "none", rest |-> FALSE],
           proc[p].root # "none" => v.root # "none",
           proc[p].root \in Over => v.root \in Over /\ (~proc[p].rest => ~v.rest),
           \A k \in Attempt : Has(wire', Command(k)) => Has(wire, Command(k))
    PROVE  Grows
<1> SUFFICES ASSUME NEW k \in Attempt
             PROVE  /\ Unsent(k) => Unsent(k)'
                    /\ \A b \in BOOLEAN : Ended(k, b) => Ended(k, b)'
  BY DEF Grows
<1>1. <<k, 1>> \in Proc /\ <<k, 2>> \in Proc BY ProcIn
<1>2. \A q \in Proc : proc'[q] = IF q = p THEN v ELSE proc[q] BY RunnerParts
<1>3. ASSUME Unsent(k) PROVE Unsent(k)'
  <2>1. <<k, 1>> # p /\ <<k, 2>> # p BY <1>3 DEF Unsent
  <2> QED BY <1>1, <1>2, <1>3, <2>1 DEF Unsent, Command
<1>4. ASSUME NEW b \in BOOLEAN, Ended(k, b) PROVE Ended(k, b)'
  BY <1>1, <1>2, <1>4 DEF Ended
<1> QED BY <1>3, <1>4

\* A command is delivered: it was on its way, and what else its attempt has spawned
\* is left as it is.
LEMMA SpawnGrows ==
    ASSUME IInv, NEW k \in Attempt, NEW v \in Process, v.root # "none",
           Has(wire, Command(k)),
           proc' = [proc EXCEPT ![<<k, IF proc[<<k, 1>>].root = "none" THEN 1 ELSE 2>>] = v],
           \A j \in Attempt : Has(wire', Command(j)) => Has(wire, Command(j))
    PROVE  /\ Grows
           /\ v.root = "exited" => Ended(k, FALSE)'
<1> DEFINE i == IF proc[<<k, 1>>].root = "none" THEN 1 ELSE 2
<1>1. \A j \in Attempt : <<j, 1>> \in Proc /\ <<j, 2>> \in Proc BY ProcIn
<1>2. <<k, i>> \in Proc BY <1>1
<1>3. \A q \in Proc : proc'[q] = IF q = <<k, i>> THEN v ELSE proc[q]
  BY <1>2, RunnerParts
<1>4. ASSUME NEW j \in Attempt, Unsent(j) PROVE Unsent(j)'
  <2>1. j # k BY <1>4 DEF Unsent
  <2> QED BY <1>1, <1>3, <1>4, <2>1 DEF Unsent, Command
<1>5. ASSUME NEW j \in Attempt, NEW b \in BOOLEAN, Ended(j, b) PROVE Ended(j, b)'
  <2>1. CASE j # k BY <1>1, <1>3, <1>5, <2>1 DEF Ended
  <2>2. CASE j = k
    <3>1. CASE proc[<<k, 1>>].root = "none"
      <4>1. proc'[<<k, 2>>] = proc[<<k, 2>>] BY <1>1, <1>3, <3>1
      <4> QED BY <1>5, <2>2, <3>1, <4>1 DEF Ended, Over
    <3>2. CASE proc[<<k, 1>>].root # "none"
      <4>1. proc'[<<k, 2>>] = v BY <1>1, <1>3, <3>2
      <4> QED BY <2>2, <4>1 DEF Ended
    <3> QED BY <3>1, <3>2
  <2> QED BY <2>1, <2>2
<1>6. ASSUME v.root = "exited" PROVE Ended(k, FALSE)'
  <2>1. proc'[<<k, i>>] = v BY <1>2, <1>3
  <2> QED BY <1>6, <2>1 DEF Ended, Over
<1> QED BY <1>4, <1>5, <1>6 DEF Grows

LEMMA SameShells ==
    ASSUME UNCHANGED proc, \A k \in Attempt : Has(wire', Command(k)) => Has(wire, Command(k))
    PROVE  Grows
BY DEF Grows, Unsent, Ended, Command

LEMMA WireShrinks ==
    ASSUME IInv, wire # <<>>, wire' = Tail(wire)
    PROVE  wire' \in Seq(Message) /\ \A m : Has(wire', m) => Has(wire, m)
BY Parts, HeadHas, TailHas

LEMMA RunCommandKeeps ==
    ASSUME IInv, NEW k \in Attempt, Has(wire, Command(k)), RunCommand(k), ServerIdle,
           UNCHANGED <<probes, up, faults>>, wire' \in Seq(Message),
           \A x : Has(wire', x) => Has(wire, x)
    PROVE  IInv'
<1> DEFINE i == IF proc[<<k, 1>>].root = "none" THEN 1 ELSE 2
<1>1. <<k, i>> \in Proc /\ i \in 0..2
  <2>1. i \in {1, 2} OBVIOUS
  <2> HIDE DEF i
  <2>2. i \in 0..2 BY <2>1
  <2>3. <<k, i>> \in Proc BY <2>1, ProcIn
  <2> QED BY <2>2, <2>3
<1>2. ASSUME NEW v \in Process, v.root # "none", proc' = [proc EXCEPT ![<<k, i>>] = v],
             NEW a \in 0..2, active' = [active EXCEPT ![k] = a],
             replies' \in Seq(Reply),
             \/ UNCHANGED replies
             \/ v.root = "exited" /\ Publish("exit", k)
      PROVE  IInv'
  <2>1. Grows /\ (v.root = "exited" => Ended(k, FALSE)') BY <1>2, SpawnGrows
  <2>2. proc' \in [Proc -> Process] BY <1>1, <1>2, RunnerParts
  <2>3. active' \in [Attempt -> 0..2] BY <1>2, RunnerParts
  <2>4. RunnerTyped' BY <2>2, <2>3, RunnerParts DEF RunnerTyped
  <2>5. Truthful'
    <3>1. CASE UNCHANGED replies BY <2>1, <3>1, Parts, TruthGrows DEF Has
    <3>2. CASE v.root = "exited" /\ Publish("exit", k) BY <2>1, <3>2, PublishTrue
    <3> QED BY <1>2, <3>1, <3>2
  <2>6. faults' \in 0..MaxFaults BY Parts
  <2> QED BY <1>2, <2>1, <2>4, <2>5, <2>6, RunnerKeeps
<1>3. CASE \E rest \in BOOLEAN :
             /\ proc' = [proc EXCEPT ![<<k, i>>] = [root |-> "running", rest |-> rest]]
             /\ active' = [active EXCEPT ![k] = i]
             /\ UNCHANGED replies
  <2>1. PICK rest \in BOOLEAN :
             proc' = [proc EXCEPT ![<<k, i>>] = [root |-> "running", rest |-> rest]]
    BY <1>3
  <2> DEFINE v == [root |-> "running", rest |-> rest]
  <2>2. v \in Process /\ v.root # "none" BY DEF Process
  <2>3. replies' \in Seq(Reply) BY <1>3, Parts
  <2>4. active' = [active EXCEPT ![k] = i] /\ UNCHANGED replies BY <1>3
  <2>5. proc' = [proc EXCEPT ![<<k, i>>] = v] BY <2>1
  <2> HIDE DEF i, v
  <2> QED BY <1>1, <1>2, <2>2, <2>3, <2>4, <2>5
<1>4. CASE /\ proc' = [proc EXCEPT ![<<k, i>>] = [root |-> "exited", rest |-> FALSE]]
           /\ active' = [active EXCEPT ![k] = 0]
           /\ Publish("exit", k)
  <2> DEFINE v == [root |-> "exited", rest |-> FALSE]
  <2>1. v \in Process /\ v.root = "exited" BY DEF Process
  <2>2. replies' \in Seq(Reply) BY <1>4, PublishTyped
  <2>3. proc' = [proc EXCEPT ![<<k, i>>] = v] BY <1>4
  <2>4. active' = [active EXCEPT ![k] = 0] /\ Publish("exit", k) /\ 0 \in 0..2 BY <1>4
  <2> HIDE DEF i, v
  <2> QED BY <1>2, <2>1, <2>2, <2>3, <2>4
<1> QED BY <1>3, <1>4 DEF RunCommand

LEMMA CancelCommandKeeps ==
    ASSUME IInv, NEW k \in Attempt, CancelCommand(k), ServerIdle,
           UNCHANGED <<proc, active, up, faults>>, wire' \in Seq(Message),
           \A x : Has(wire', x) => Has(wire, x)
    PROVE  IInv'
<1>1. Grows BY SameShells
<1>2. faults' \in 0..MaxFaults BY Parts
<1>3. CASE Publish("left", k) /\ UNCHANGED probes
  <2>1. Truthful' BY <1>1, <1>3, PublishTrue
  <2>2. replies' \in Seq(Reply) BY <1>3, PublishTyped
  <2>3. RunnerTyped' BY <1>3, RunnerParts DEF RunnerTyped
  <2> QED BY <1>1, <1>2, <2>1, <2>2, <2>3, RunnerKeeps
<1>4. CASE /\ probes' = [probes EXCEPT ![<<k, active[k]>>] = @ + 1]
           /\ active[k] # 0 /\ UNCHANGED replies
  <2>1. active[k] \in {1, 2} BY <1>4, RunnerParts
  <2>2. <<k, active[k]>> \in Proc BY <2>1, ProcIn
  <2>3. probes[<<k, active[k]>>] + 1 \in Nat BY <2>2, RunnerParts
  <2>4. probes' \in [Proc -> Nat] BY <1>4, <2>2, <2>3, RunnerParts
  <2>5. RunnerTyped' BY <2>4, RunnerParts DEF RunnerTyped
  <2>6. Truthful' BY <1>1, <1>4, Parts, TruthGrows DEF Has
  <2>7. replies' \in Seq(Reply) BY <1>4, Parts
  <2> QED BY <1>1, <1>2, <2>5, <2>6, <2>7, RunnerKeeps
<1> QED BY <1>3, <1>4 DEF CancelCommand

LEMMA DeliverKeeps == IInv /\ Deliver => IInv'
<1> SUFFICES ASSUME IInv, Deliver PROVE IInv' OBVIOUS
<1> DEFINE m == Head(wire)
<1>1. UNCHANGED <<up, faults>> /\ ServerIdle /\ wire # <<>> /\ wire' = Tail(wire)
  BY DEF Deliver
<1>2. wire' \in Seq(Message) /\ \A x : Has(wire', x) => Has(wire, x) BY <1>1, WireShrinks
<1>3. m \in Message /\ Has(wire, m) BY <1>1, Parts, HeadHas
<1>4. m.of \in Attempt /\ m = [type |-> m.type, of |-> m.of] BY <1>3 DEF Message
<1>5. faults' \in 0..MaxFaults BY <1>1, Parts
<1>6. CASE UNCHANGED <<proc, active, probes, replies>>
  <2>1. Grows BY <1>2, <1>6, SameShells
  <2>2. Truthful' BY <1>6, <2>1, Parts, TruthGrows DEF Has
  <2>3. RunnerTyped' BY <1>1, <1>6, RunnerParts DEF RunnerTyped
  <2> QED BY <1>1, <1>2, <1>5, <1>6, <2>1, <2>2, <2>3, Parts, RunnerKeeps
<1>7. CASE m.type = "command" /\ RunCommand(m.of) /\ UNCHANGED probes
  <2>1. Has(wire, Command(m.of)) BY <1>3, <1>4, <1>7 DEF Command
  <2> QED BY <1>1, <1>2, <1>4, <1>7, <2>1, RunCommandKeeps
<1>8. CASE CancelCommand(m.of) /\ UNCHANGED <<proc, active>>
  BY <1>1, <1>2, <1>4, <1>8, CancelCommandKeeps
<1> QED BY <1>6, <1>7, <1>8 DEF Deliver

LEMMA ExitKeeps ==
    ASSUME IInv, NEW p \in Proc, Exit(p) PROVE IInv'
<1>1. UNCHANGED <<probes, up, wire, faults>> /\ ServerIdle /\ Publish("exit", p[1])
  BY DEF Exit
<1>2. p[1] \in Attempt /\ p[2] \in {1, 2} /\ p = <<p[1], p[2]>> BY ProcOf
<1> DEFINE v == [proc[p] EXCEPT !.root = "exited"]
<1>3. v \in Process /\ v.root = "exited" /\ v.rest = proc[p].rest BY RunnerParts DEF Process
<1>4. proc' = [proc EXCEPT ![p] = v] /\ proc[p].root = "ended" BY DEF Exit
<1>5. \A k \in Attempt : Has(wire', Command(k)) => Has(wire, Command(k))
  BY <1>1 DEF Has, Command
<1>6. proc[p] # [root |-> "none", rest |-> FALSE] BY <1>4
<1> HIDE DEF v
<1>7. Grows BY <1>3, <1>4, <1>5, <1>6, ProcGrows DEF Over
<1>8. Ended(p[1], FALSE)'
  <2>1. proc'[p] = v BY <1>4, RunnerParts
  <2> QED BY <1>2, <1>3, <2>1 DEF Ended, Over
<1>9. Truthful' BY <1>1, <1>2, <1>7, <1>8, PublishTrue
<1>10. replies' \in Seq(Reply) BY <1>1, <1>2, PublishTyped
<1>11. active' \in [Attempt -> 0..2] BY <1>2, RunnerParts DEF Exit
<1>12. proc' \in [Proc -> Process] BY <1>3, <1>4, RunnerParts
<1>13. RunnerTyped' BY <1>1, <1>11, <1>12, RunnerParts DEF RunnerTyped
<1>14. wire' \in Seq(Message) /\ faults' \in 0..MaxFaults BY <1>1, Parts
<1> QED BY <1>1, <1>7, <1>9, <1>10, <1>13, <1>14, RunnerKeeps

LEMMA ShellEndsKeeps ==
    ASSUME IInv, NEW p \in Proc, ShellEnds(p) PROVE IInv'
<1>1. UNCHANGED <<active, probes, up, wire, replies, faults>> /\ ServerIdle BY DEF ShellEnds
<1> DEFINE v == [proc[p] EXCEPT !.root = "ended"]
<1>2. v \in Process /\ v.root = "ended" /\ v.rest = proc[p].rest BY RunnerParts DEF Process
<1>3. proc' = [proc EXCEPT ![p] = v] /\ proc[p].root = "running" BY DEF ShellEnds
<1>4. \A k \in Attempt : Has(wire', Command(k)) => Has(wire, Command(k))
  BY <1>1 DEF Has, Command
<1>5. proc[p] # [root |-> "none", rest |-> FALSE] BY <1>3
<1> HIDE DEF v
<1>6. Grows BY <1>2, <1>3, <1>4, <1>5, ProcGrows DEF Over
<1>7. Truthful' BY <1>1, <1>6, Parts, TruthGrows DEF Has
<1>8. proc' \in [Proc -> Process] BY <1>2, <1>3, RunnerParts
<1>9. RunnerTyped' BY <1>1, <1>8, RunnerParts DEF RunnerTyped
<1>10. wire' \in Seq(Message) /\ replies' \in Seq(Reply) /\ faults' \in 0..MaxFaults
  BY <1>1, Parts
<1> QED BY <1>1, <1>6, <1>7, <1>9, <1>10, RunnerKeeps

LEMMA RestKeeps ==
    ASSUME IInv, NEW p \in Proc, RestEnds(p) PROVE IInv'
<1>1. UNCHANGED <<active, probes, up, wire, replies, faults>> /\ ServerIdle BY DEF RestEnds
<1> DEFINE v == [proc[p] EXCEPT !.rest = FALSE]
<1>2. v \in Process /\ v.root = proc[p].root /\ v.rest = FALSE BY RunnerParts DEF Process
<1>3. proc' = [proc EXCEPT ![p] = v] /\ proc[p].rest BY DEF RestEnds
<1>4. \A k \in Attempt : Has(wire', Command(k)) => Has(wire, Command(k))
  BY <1>1 DEF Has, Command
<1>5. proc[p] # [root |-> "none", rest |-> FALSE] BY <1>3
<1> HIDE DEF v
<1>6. Grows BY <1>2, <1>3, <1>4, <1>5, ProcGrows
<1>7. Truthful' BY <1>1, <1>6, Parts, TruthGrows DEF Has
<1>8. proc' \in [Proc -> Process] BY <1>2, <1>3, RunnerParts
<1>9. RunnerTyped' BY <1>1, <1>8, RunnerParts DEF RunnerTyped
<1>10. wire' \in Seq(Message) /\ replies' \in Seq(Reply) /\ faults' \in 0..MaxFaults
  BY <1>1, Parts
<1> QED BY <1>1, <1>6, <1>7, <1>9, <1>10, RunnerKeeps

LEMMA ProbeKeeps ==
    ASSUME IInv, NEW p \in Proc, Probe(p) PROVE IInv'
<1>1. UNCHANGED <<proc, active, up, wire, faults>> /\ ServerIdle BY DEF Probe
<1>2. p[1] \in Attempt /\ p[2] \in {1, 2} /\ p = <<p[1], p[2]>> BY ProcOf
<1>3. Grows BY <1>1, SameShells DEF Has, Command
<1>4. PICK t \in {"gone", "left"} : Publish(t, p[1]) /\ (t = "gone" => TreeGone(p))
  BY DEF Probe
<1>5. t = "gone" => Ended(p[1], TRUE)' BY <1>1, <1>2, <1>4 DEF TreeGone, Ended, Over
<1>6. Truthful' BY <1>2, <1>3, <1>4, <1>5, PublishTrue
<1>7. replies' \in Seq(Reply) BY <1>2, <1>4, PublishTyped
<1>8. probes[p] - 1 \in Nat BY RunnerParts DEF Probe
<1>9. probes' \in [Proc -> Nat] BY <1>8, RunnerParts DEF Probe
<1>10. RunnerTyped' BY <1>1, <1>9, RunnerParts DEF RunnerTyped
<1>11. wire' \in Seq(Message) /\ faults' \in 0..MaxFaults BY <1>1, Parts
<1> QED BY <1>1, <1>3, <1>6, <1>7, <1>10, <1>11, RunnerKeeps

LEMMA FaultsKeep == IInv /\ (RunnerStops \/ Lose) => IInv'
<1> SUFFICES ASSUME IInv, RunnerStops \/ Lose PROVE IInv' OBVIOUS
<1>1. faults' \in 0..MaxFaults /\ ServerIdle /\ UNCHANGED proc
  BY FaultTyped DEF RunnerStops, Lose, runner
<1>2. CASE RunnerStops
  <2>1. UNCHANGED <<wire, replies>> BY <1>2 DEF RunnerStops
  <2>2. Grows BY <1>1, <2>1, SameShells DEF Has, Command
  <2>3. Truthful' BY <2>1, <2>2, Parts, TruthGrows DEF Has
  <2>4. RunnerTyped'
    <3>1. active' \in [Attempt -> 0..2] BY <1>2 DEF RunnerStops
    <3>2. probes' \in [Proc -> Nat] BY <1>2 DEF RunnerStops
    <3>3. up' \in BOOLEAN BY <1>2 DEF RunnerStops
    <3> QED BY <1>1, <3>1, <3>2, <3>3, RunnerParts DEF RunnerTyped
  <2> QED BY <1>1, <2>1, <2>2, <2>3, <2>4, Parts, RunnerKeeps
<1>3. CASE Lose
  <2>1. RunnerTyped' BY <1>3, RunnerParts DEF Lose, runner, RunnerTyped
  <2>2. /\ wire' \in Seq(Message) /\ replies' \in Seq(Reply)
        /\ \A m : Has(wire', m) => Has(wire, m)
        /\ \A m : Has(replies', m) => Has(replies, m)
    <3>1. CASE wire # <<>> /\ wire' = Tail(wire) /\ UNCHANGED replies
      BY <3>1, WireShrinks, Parts DEF Has
    <3>2. CASE replies # <<>> /\ replies' = Tail(replies) /\ UNCHANGED wire
      BY <3>2, TailHas, HeadHas, Parts DEF Has
    <3> QED BY <1>3, <3>1, <3>2 DEF Lose
  <2>3. Grows BY <1>1, <2>2, SameShells
  <2>4. Truthful' BY <2>2, <2>3, Parts, TruthGrows
  <2> QED BY <1>1, <2>1, <2>2, <2>3, <2>4, RunnerKeeps
<1> QED BY <1>2, <1>3

LEMMA RunnerStepKeeps == IInv /\ RunnerStep => IInv'
BY DeliverKeeps, ShellEndsKeeps, ExitKeeps, RestKeeps, ProbeKeeps, FaultsKeep DEF RunnerStep

-----------------------------------------------------------------------------
(* The invariant, and what follows *)

LEMMA Starts == Init => IInv
<1> SUFFICES ASSUME Init PROVE IInv OBVIOUS
<1>1. Typed BY TypedInit
<1>2. \A k \in Attempt : Unsent(k)
  <2> SUFFICES ASSUME NEW k \in Attempt PROVE Unsent(k) OBVIOUS
  <2>1. ~Has(wire, Command(k)) BY DEF Init, Has
  <2>2. <<k, 1>> \in Proc /\ <<k, 2>> \in Proc BY ProcIn
  <2> QED BY <2>1, <2>2 DEF Init, Unsent
<1>3. Safe BY <1>2 DEF Init, Safe, Open, Ends
<1>4. Truthful BY DEF Init, Truthful, Has
<1> QED BY <1>1, <1>3, <1>4 DEF IInv

LEMMA Inductive == IInv /\ [Next]_vars => IInv'
<1> SUFFICES ASSUME IInv, [Next]_vars PROVE IInv' OBVIOUS
<1>1. CASE UNCHANGED vars
  <2>1. Fewer BY <1>1, SameMessages DEF vars
  <2> QED BY <1>1, <2>1, Parts, StaysKeeps DEF vars, ConnTyped
<1> QED BY <1>1, ToolStepKeeps, AttemptStepKeeps, RunnerStepKeeps DEF Next

LEMMA Invariant == Spec => []IInv
BY Starts, Inductive, PTL DEF Spec

\* Every variable has its type, for any number of attempts, closes and faults.
THEOREM TypeCorrect == Spec => []TypeOK
<1>1. IInv => TypeOK BY DEF IInv, Typed
<1> QED BY <1>1, Invariant, PTL

\* What an attempt or the tool reports as ended runs nowhere, for any number of
\* attempts and faults, unless its command was published twice.
THEOREM NothingIsLeft == Spec => []NothingRunsUnseen
<1>1. ASSUME IInv, NEW k \in Attempt, ~Twice(k),
             outcome[k] \notin {"open", "failed"}
      PROVE  ~Running(k) /\ ~Coming(k) /\ (outcome[k] = "confirmed" => ~proc[<<k, 1>>].rest)
  <2>1. \A q \in Proc : q[1] = k => q \in {<<k, 1>>, <<k, 2>>} BY ProcOf
  <2>2. <<k, 1>> \in Proc /\ <<k, 2>> \in Proc BY ProcIn
  <2>3. Coming(k) <=> Has(wire, Command(k)) BY DEF Coming, Has, Command
  <2>4. Unsent(k) \/ Ended(k, outcome[k] = "confirmed") BY <1>1, Parts DEF Safe, Known
  <2>5. CASE Unsent(k)
    BY <2>1, <2>3, <2>5 DEF Unsent, Running
  <2>6. CASE Ended(k, outcome[k] = "confirmed")
    <3>1. proc[<<k, 2>>].root = "none" BY <1>1 DEF Twice
    <3>2. proc[<<k, 1>>].root \in Over /\ (outcome[k] = "confirmed" => ~proc[<<k, 1>>].rest)
      BY <2>6, <3>1 DEF Ended
    <3>3. ~Coming(k) BY <1>1, <3>2 DEF Twice, Over
    <3> QED BY <2>1, <3>1, <3>2, <3>3 DEF Running, Over
  <2> QED BY <2>4, <2>5, <2>6
<1>2. IInv => CanceledIsGone BY <1>1 DEF CanceledIsGone
<1>3. IInv => EndedIsGone
  <2> SUFFICES ASSUME IInv, tool.answer \in Ends, NEW k \in Attempt, outcome[k] # "failed",
                      ~Twice(k)
               PROVE  ~Running(k) /\ ~Coming(k)
    BY DEF EndedIsGone, Ends
  <2>1. outcome[k] # "open" BY Parts DEF Safe, Open
  <2> QED BY <1>1, <2>1
<1>4. IInv => NothingRunsUnseen BY <1>2, <1>3 DEF NothingRunsUnseen
<1> QED BY <1>4, Invariant, PTL

=============================================================================
