-------------------------- MODULE AgentRuns_proofs --------------------------
(***************************************************************************)
(* Safety of AgentRuns for any number of runs, requests, approvals and     *)
(* batches.                                                                *)
(*                                                                         *)
(* A step changes the row in one of four ways (ChatGoes), lets runs only   *)
(* grow (RunGoes) and moves at most one request, to a state that knows     *)
(* enough of its run (CallGoes).  Each action is shown to be such a step,  *)
(* and such a step keeps the inductive invariant.                          *)
(***************************************************************************)
EXTENDS AgentRuns, TLAPS

\* Runs are never unstarted, and those that have ended stay so.
Grows ==
  \A r \in Runs :
    /\ run[r].status # "none" => run'[r].status # "none"
    /\ Terminal(r) => Terminal(r)'

RunGoes ==
  /\ run' \in [Runs -> RunState]
  /\ Grows
  /\ CheckedIsApproved'

RowKept ==
  chat'.run = chat.run /\ chat'.session = chat.session /\ chat'.pending = chat.pending

RowFreed == chat'.run = NoRun /\ chat'.session = NoRun /\ chat'.pending = NoAsk

RowMarked ==
  /\ chat'.run = chat.run
  /\ chat'.session = chat.session
  /\ \/ chat'.pending = NoAsk
     \/ chat'.pending # NoAsk /\ chat'.pending[1] = chat.session

RowTaken ==
  \E r \in Runs :
    /\ run[r].status # "none"
    /\ chat'.run = r
    /\ chat'.session \in {NoRun, r}
    /\ chat'.pending = NoAsk

ChatGoes == chat' \in ChatState /\ (RowKept \/ RowFreed \/ RowMarked \/ RowTaken)

JobsGo == jobs' \in [{"one", "all"} -> 0..MaxJobs]

CallGoes(p) ==
  \E w \in CallState : call' = [call EXCEPT ![p] = w] /\ Knows(w)'

CallsGo == call' = call \/ \E p \in Calls : CallGoes(p)

-----------------------------------------------------------------------------
\* Such a step keeps the invariant.

LEMMA RowStep ==
  ASSUME IInv, ChatGoes, RunGoes
  PROVE  RowIsOfOneRun'
<1>1. /\ chat.run \in OrNone(Runs)
      /\ chat'.run # NoRun => run'[chat'.run].status # "none"
  BY AgentAssumption DEF IInv, TypeOK, RowIsOfOneRun, ChatGoes, RunGoes, Grows, RowKept,
     RowFreed, RowMarked, RowTaken, ChatState, OrNone
<1>2. chat'.session \in {NoRun, chat'.run}
  BY DEF IInv, RowIsOfOneRun, ChatGoes, RowKept, RowFreed, RowMarked, RowTaken
<1>3. chat'.pending # NoAsk => chat'.session = chat'.pending[1]
  BY DEF IInv, RowIsOfOneRun, ChatGoes, RowKept, RowFreed, RowMarked, RowTaken
<1> QED BY <1>1, <1>2, <1>3 DEF RowIsOfOneRun

LEMMA StepKeeps ==
  ASSUME IInv, ChatGoes, RunGoes, JobsGo, CallsGo
  PROVE  IInv'
<1>1. call' \in [Calls -> CallState] /\ \A q \in Calls : Knows(call[q])'
  <2>1. \A q \in Calls : call'[q] = call[q] => Knows(call[q])'
    <3> SUFFICES ASSUME NEW q \in Calls, call'[q] = call[q] PROVE Knows(call[q])'
      OBVIOUS
    <3>1. Knows(call[q]) /\ call[q] \in CallState
      BY DEF IInv, TypeOK
    <3> QED BY <3>1 DEF Knows, Started, Terminal, RunGoes, Grows
  <2>2. CASE call' = call
    BY <2>1, <2>2 DEF IInv, TypeOK
  <2>3. ASSUME NEW p \in Calls, CallGoes(p)
        PROVE  call' \in [Calls -> CallState] /\ \A q \in Calls : Knows(call[q])'
    <3>1. PICK w \in CallState : call' = [call EXCEPT ![p] = w] /\ Knows(w)'
      BY <2>3 DEF CallGoes
    <3>2. call' \in [Calls -> CallState] /\ call'[p] = w
      BY <3>1 DEF IInv, TypeOK
    <3>3. Knows(call[p])'
      BY <3>1, <3>2 DEF Knows, Started, Terminal
    <3>4. \A q \in Calls : q # p => call'[q] = call[q]
      BY <3>1 DEF IInv, TypeOK
    <3> QED BY <2>1, <3>2, <3>3, <3>4
  <2> QED BY <2>2, <2>3 DEF CallsGo
<1> QED BY <1>1, RowStep DEF IInv, TypeOK, ChatGoes, RunGoes, JobsGo

-----------------------------------------------------------------------------
\* The building blocks of the actions: the runs.

LEMMA RunSame == ASSUME IInv, run' = run PROVE RunGoes
BY DEF IInv, TypeOK, RunGoes, Grows, Terminal, CheckedIsApproved

LEMMA RunMoves ==
  ASSUME IInv, NEW r \in Runs, NEW w \in RunState,
         run' = [run EXCEPT ![r] = w],
         run[r].status # "none" => w.status # "none",
         Terminal(r) => w.status \in {"canceled", "ended"},
         w.at = "checking" => <<w.asked, TRUE>> \in w.sent
  PROVE  RunGoes
<1>1. run' \in [Runs -> RunState] /\ run'[r] = w /\ \A q \in Runs \ {r} : run'[q] = run[q]
  BY DEF IInv, TypeOK
<1> QED BY <1>1 DEF IInv, RunGoes, Grows, Terminal, CheckedIsApproved

LEMMA RunCanceled ==
  ASSUME IInv, NEW r \in OrNone(Runs), run' = CanceledRun(r)
  PROVE  RunGoes /\ (Started(r) => Terminal(r)')
<1>1. CASE r \in Runs /\ run[r].status = "live"
  <2> DEFINE w == [run[r] EXCEPT !.status = "canceled"]
  <2>1. run' = [run EXCEPT ![r] = w] /\ run[r] \in RunState
    BY <1>1 DEF CanceledRun, IInv, TypeOK
  <2>2. /\ w \in RunState
        /\ w.status = "canceled" /\ w.at = run[r].at
        /\ w.asked = run[r].asked /\ w.sent = run[r].sent
    BY <2>1 DEF RunState
  <2>3. run'[r] = w
    BY <1>1, <2>1 DEF IInv, TypeOK
  <2> HIDE DEF w
  <2>4. w.at = "checking" => <<w.asked, TRUE>> \in w.sent
    BY <1>1, <2>2 DEF IInv, CheckedIsApproved
  <2>5. RunGoes
    BY <1>1, <2>1, <2>2, <2>4, RunMoves
  <2> QED BY <2>2, <2>3, <2>5 DEF Terminal
<1>2. CASE r \in Runs /\ run[r].status # "live"
  <2>1. run' = run /\ run[r] \in RunState
    BY <1>2 DEF CanceledRun, IInv, TypeOK
  <2> QED BY <1>2, <2>1, RunSame DEF Started, Terminal, RunState
<1>3. CASE r \notin Runs
  <2>1. run' = run
    BY <1>3 DEF CanceledRun, IInv, TypeOK
  <2> QED BY <1>3, <2>1, RunSame DEF Started
<1> QED BY <1>1, <1>2, <1>3

LEMMA RunClosed ==
  ASSUME IInv, NEW r \in OrNone(Runs), run' = ClosedSession(r)
  PROVE  RunGoes
<1>1. CASE r \in Runs /\ run[r].session = "open"
  <2> DEFINE w == [run[r] EXCEPT !.session = "closed"]
  <2>1. run' = [run EXCEPT ![r] = w] /\ run[r] \in RunState
    BY <1>1 DEF ClosedSession, IInv, TypeOK
  <2>2. /\ w \in RunState
        /\ w.status = run[r].status /\ w.at = run[r].at
        /\ w.asked = run[r].asked /\ w.sent = run[r].sent
    BY <2>1 DEF RunState
  <2> HIDE DEF w
  <2>3. w.at = "checking" => <<w.asked, TRUE>> \in w.sent
    BY <1>1, <2>2 DEF IInv, CheckedIsApproved
  <2> QED BY <1>1, <2>1, <2>2, <2>3, RunMoves DEF Terminal
<1>2. CASE ~(r \in Runs /\ run[r].session = "open")
  BY <1>2, RunSame DEF ClosedSession
<1> QED BY <1>1, <1>2

-----------------------------------------------------------------------------
\* The row.

LEMMA ChatSame == ASSUME IInv, chat' = chat PROVE ChatGoes
BY DEF IInv, TypeOK, ChatGoes, RowKept

LEMMA ChatWritten ==
  ASSUME IInv, NEW b \in BOOLEAN, NEW n \in 0..MaxMessages,
         chat' = [chat EXCEPT !.canceled = b, !.messages = n]
  PROVE  ChatGoes
BY DEF IInv, TypeOK, ChatState, ChatGoes, RowKept

LEMMA ChatNew == ASSUME IInv, chat' \in {NewChat, NoChat} PROVE ChatGoes
<1>1. 0 \in 0..MaxMessages
  BY AgentAssumption
<1>2. NoChat \in ChatState /\ NewChat \in ChatState
  BY <1>1 DEF NewChat, NoChat, ChatState, OrNone
<1>3. /\ NoChat.run = NoRun /\ NoChat.session = NoRun /\ NoChat.pending = NoAsk
      /\ NewChat.run = NoRun /\ NewChat.session = NoRun /\ NewChat.pending = NoAsk
  BY DEF NewChat, NoChat
<1> QED BY <1>2, <1>3 DEF ChatGoes, RowFreed

LEMMA ChatCleared ==
  ASSUME IInv, NEW r, NEW s, chat' = Cleared(r, s) PROVE ChatGoes
BY ChatSame DEF Cleared, IInv, TypeOK, ChatState, OrNone, ChatGoes, RowFreed

LEMMA ChatAssociated ==
  ASSUME IInv, NEW r, Started(r), chat' = Associated(r) PROVE ChatGoes
<1>1. SessionOf(r) \in {NoRun, r} /\ r \in Runs /\ run[r].status # "none"
  BY DEF SessionOf, Started
<1> DEFINE s == SessionOf(r)
<1>2. chat' = [chat EXCEPT !.run = r, !.session = s, !.pending = NoAsk, !.canceled = FALSE]
  BY DEF Associated
<1> HIDE DEF s
<1>3. s \in {NoRun, r}
  BY <1>1 DEF s
<1> QED BY <1>1, <1>2, <1>3 DEF IInv, TypeOK, ChatState, OrNone, ChatGoes, RowTaken

LEMMA PreparedType ==
  ASSUME IInv
  PROVE  /\ Prepared \in ChatState
         /\ Prepared.messages = chat.messages
         /\ \/ Prepared = chat
            \/ Prepared.run = NoRun /\ Prepared.session = NoRun /\ Prepared.pending = NoAsk
BY DEF Prepared, IInv, TypeOK, ChatState, OrNone

LEMMA ChatPrepared ==
  ASSUME IInv, NEW n \in 0..MaxMessages, chat' = [Prepared EXCEPT !.messages = n]
  PROVE  ChatGoes
<1> DEFINE c == Prepared
<1>1. /\ c \in ChatState
      /\ \/ c = chat
         \/ c.run = NoRun /\ c.session = NoRun /\ c.pending = NoAsk
  BY PreparedType
<1>2. chat' = [c EXCEPT !.messages = n]
  OBVIOUS
<1> HIDE DEF c
<1> QED BY <1>1, <1>2 DEF ChatState, ChatGoes, RowKept, RowFreed

LEMMA Deleted ==
  ASSUME IInv, NEW left \in [{"one", "all"} -> 0..MaxJobs],
         DeleteDocument(left) \/ DeleteNextBatch(left)
  PROVE  ChatGoes /\ JobsGo
<1>1. chat.messages \in 0..MaxMessages
  BY DEF IInv, TypeOK, ChatState
<1>2. Prepared.messages = chat.messages
  BY PreparedType
<1>3. MaxMessages \in Nat /\ MaxJobs \in Nat
  BY AgentAssumption
<1>4. CASE DeleteDocument(left)
  <2>1. CASE chat' = NoChat /\ jobs' = left
    BY <2>1, ChatNew DEF JobsGo
  <2>2. CASE /\ chat.messages > 1
             /\ chat' = [Prepared EXCEPT !.messages = @ - 1]
             /\ left["one"] < MaxJobs
             /\ jobs' = [left EXCEPT !["one"] = @ + 1]
    <3>1. chat' = [Prepared EXCEPT !.messages = chat.messages - 1]
      BY <1>2, <2>2
    <3>2. chat.messages - 1 \in 0..MaxMessages
      BY <1>1, <1>3, <2>2
    <3>3. JobsGo
      BY <1>3, <2>2 DEF JobsGo
    <3> QED BY <3>1, <3>2, <3>3, ChatPrepared
  <2> QED BY <1>4, <2>1, <2>2 DEF DeleteDocument
<1>5. CASE DeleteNextBatch(left)
  <2>1. CASE ~chat.exists /\ jobs' = left /\ UNCHANGED chat
    BY <2>1, ChatSame DEF JobsGo
  <2>2. CASE /\ chat.exists
             /\ chat' = IF chat.messages = 0 THEN NoChat
                        ELSE [Prepared EXCEPT !.messages = @ - 1]
             /\ left["all"] < MaxJobs
             /\ jobs' = [left EXCEPT !["all"] = @ + 1]
    <3>1. ASSUME chat.messages = 0 PROVE ChatGoes
      BY <2>2, <3>1, ChatNew
    <3>2. ASSUME chat.messages # 0 PROVE ChatGoes
      <4>1. chat' = [Prepared EXCEPT !.messages = chat.messages - 1]
        BY <1>2, <2>2, <3>2
      <4>2. chat.messages - 1 \in 0..MaxMessages
        BY <1>1, <1>3, <3>2
      <4> QED BY <4>1, <4>2, ChatPrepared
    <3>3. JobsGo
      BY <1>3, <2>2 DEF JobsGo
    <3> QED BY <3>1, <3>2, <3>3
  <2> QED BY <1>5, <2>1, <2>2 DEF DeleteNextBatch
<1> QED BY <1>4, <1>5

LEMMA JobsSame == ASSUME IInv, jobs' = jobs PROVE JobsGo
BY DEF IInv, TypeOK, JobsGo

-----------------------------------------------------------------------------
\* The requests.

LEMMA IdleType == Idle \in CallState /\ Idle.at = "idle"
<1>1. 0 \in 0..MaxAttempts
  BY AgentAssumption
<1> QED BY <1>1 DEF Idle, CallState, OrNone, AllOperations

LEMMA CallReturns == ASSUME IInv, NEW p \in Calls, Return(p) PROVE CallsGo
<1>1. Knows(Idle)'
  BY IdleType DEF Knows, Idle
<1> QED BY <1>1, IdleType DEF Return, CallsGo, CallGoes

Places ==
  {"idle", "save", "message", "trigger", "associate", "cleanup", "close",
   "cancel", "clear", "retrieve", "read", "authorize", "verify", "send",
   "shut", "again"}

\* A request moves to a state that knows what it has to know.
LEMMA CallMoves ==
  ASSUME IInv, RunGoes, NEW p \in Calls, NEW w \in CallState,
         call' = [call EXCEPT ![p] = w],
         w.at \in {"authorize", "verify", "send"} => w.ask \in Ask,
         w.at \in {"associate", "cleanup", "retrieve", "cancel"} => Started(w.run)',
         w.at \in {"read", "clear"} => w.run \in Runs /\ Terminal(w.run)',
         w.at = "close" =>
           Started(w.run)' /\ (w.op # "stop" => Terminal(w.run)'),
         w.at = "shut" /\ w.run # NoRun =>
           Started(w.run)' /\ ("cancel" \notin w.todo => Terminal(w.run)')
  PROVE  CallsGo
<1>1. Knows(w)'
  BY DEF Knows
<1> QED BY <1>1 DEF CallsGo, CallGoes

LEMMA StartedStays == ASSUME RunGoes, NEW r, Started(r) PROVE Started(r)'
BY DEF Started, RunGoes, Grows

LEMMA TerminalStays ==
  ASSUME RunGoes, NEW r, r \in Runs, Terminal(r) PROVE Terminal(r)' /\ Started(r)'
BY DEF Started, Terminal, RunGoes, Grows

\* A request goes on with the same variables.
LEMMA CallGoesOn ==
  ASSUME IInv, RunGoes, NEW p \in Calls, NEW at \in Places, Goto(p, at),
         NEW c \in CallState, c = call[p],
         at \in {"authorize", "verify", "send"} => c.ask \in Ask,
         at \in {"associate", "cleanup", "retrieve", "cancel"} => Started(c.run)',
         at \in {"read", "clear", "close"} =>
           c.run \in Runs /\ Terminal(c.run)' /\ Started(c.run)',
         at # "shut"
  PROVE  CallsGo
<1>1. PICK w \in CallState : w = [c EXCEPT !.at = at]
  BY DEF CallState, Places
<1>2. w.at = at /\ w.run = c.run /\ w.ask = c.ask
  BY <1>1 DEF CallState
<1>3. call' = [call EXCEPT ![p] = w]
  BY <1>1 DEF Goto
<1> QED BY <1>2, <1>3, CallMoves

LEMMA CallOf ==
  ASSUME IInv, NEW p \in Calls
  PROVE  call[p] \in CallState /\ Knows(call[p])
BY DEF IInv, TypeOK

-----------------------------------------------------------------------------
\* Each action is such a step.

Steps == ChatGoes /\ RunGoes /\ JobsGo /\ CallsGo

LEMMA SnapshotType ==
  ASSUME IInv, NEW op \in AllOperations, NEW at \in Places
  PROVE  /\ Snapshot(op, at) \in CallState
         /\ Snapshot(op, at).op = op /\ Snapshot(op, at).at = at
         /\ Snapshot(op, at).run = chat.run
         /\ chat.run # NoRun => Started(chat.run)
<1>1. 0 \in 0..MaxAttempts
  BY AgentAssumption
<1>2. chat.run \in OrNone(Runs) /\ chat.session \in OrNone(Runs)
  BY DEF IInv, TypeOK, ChatState
<1>3. chat.run # NoRun => Started(chat.run)
  BY <1>2 DEF Started, OrNone, IInv, RowIsOfOneRun
<1> QED BY <1>1, <1>2, <1>3 DEF Snapshot, Idle, CallState, Places, OrNone

LEMMA StartSteps ==
  ASSUME IInv, NEW p \in Calls, Start(p)
  PROVE  Steps
<1>0. PICK c \in CallState : c = call[p] /\ Knows(c)
  BY CallOf
<1> USE <1>0
<1>1. CASE StartReads(p)
  <2>1. PICK at \in {"save", "message"} :
          call' = [call EXCEPT ![p] = [Idle EXCEPT !.op = "start", !.at = at]]
    BY <1>1 DEF StartReads, Begin
  <2>2. PICK w \in CallState : w = [Idle EXCEPT !.op = "start", !.at = at]
    BY <2>1, IdleType DEF CallState, AllOperations
  <2>3. RunGoes /\ ChatGoes /\ JobsGo
    BY <1>1, RunSame, ChatSame, JobsSame DEF StartReads
  <2>4. w.at = at
    BY <2>2, IdleType DEF CallState
  <2>5. CallsGo
    BY <2>1, <2>2, <2>3, <2>4, CallMoves
  <2> QED BY <2>3, <2>5 DEF Steps
<1>2. CASE SaveChat(p)
  <2>1. RunGoes /\ ChatGoes /\ JobsGo
    BY <1>2, RunSame, ChatSame, ChatNew, JobsSame DEF SaveChat
  <2>2. CallsGo
    BY <1>2, <2>1, CallGoesOn DEF SaveChat, Places
  <2> QED BY <2>1, <2>2 DEF Steps
<1>3. CASE SaveMessage(p)
  <2>1. PICK n \in 0..MaxMessages : chat' = [chat EXCEPT !.canceled = FALSE, !.messages = n]
    <3>1. PICK n \in Enlarged(chat.messages) : chat' = [chat EXCEPT !.canceled = FALSE, !.messages = n]
      BY <1>3 DEF SaveMessage
    <3>2. n \in 1..MaxMessages
      BY DEF Enlarged
    <3>3. n \in 0..MaxMessages
      BY <3>2, AgentAssumption
    <3> QED BY <3>1, <3>3
  <2>2. RunGoes /\ ChatGoes /\ JobsGo
    BY <1>3, <2>1, RunSame, ChatWritten, JobsSame DEF SaveMessage
  <2>3. CallsGo
    BY <1>3, <2>2, CallGoesOn DEF SaveMessage, Places
  <2> QED BY <2>2, <2>3 DEF Steps
<1>4. CASE ChatIsMissing(p)
  BY <1>4, RunSame, ChatSame, JobsSame, CallReturns DEF ChatIsMissing, Steps
<1>5. CASE Regenerate(p)
  <2>1. RunGoes /\ ChatGoes /\ JobsGo
    BY <1>5, RunSame, ChatSame, JobsSame DEF Regenerate
  <2>2. CallsGo
    BY <1>5, <2>1, CallGoesOn DEF Regenerate, Places
  <2> QED BY <2>1, <2>2 DEF Steps
<1>6. CASE Trigger(p)
  <2>1. PICK r \in Runs :
          /\ \/ /\ run[r].status = "none"
                /\ \E s \in Sessions :
                     run' = [run EXCEPT ![r].status = "live", ![r].session = s]
             \/ run[r].status # "none" /\ run' = run
          /\ call' = [call EXCEPT ![p].at = "associate", ![p].run = r]
    BY <1>6 DEF Trigger
  <2>2. RunGoes /\ Started(r)'
    <3>1. ASSUME run[r].status # "none", run' = run
          PROVE  RunGoes /\ Started(r)'
      BY <3>1, RunSame DEF Started
    <3>2. ASSUME run[r].status = "none", NEW s \in Sessions,
                 run' = [run EXCEPT ![r].status = "live", ![r].session = s]
          PROVE  RunGoes /\ Started(r)'
      <4> DEFINE w == [run[r] EXCEPT !.status = "live", !.session = s]
      <4>1. run[r] \in RunState /\ run' = [run EXCEPT ![r] = w]
        BY <3>2 DEF IInv, TypeOK
      <4>2. w \in RunState /\ w.status = "live" /\ w.at = run[r].at
            /\ w.asked = run[r].asked /\ w.sent = run[r].sent
        BY <4>1, AgentAssumption DEF RunState
      <4>3. run'[r] = w
        BY <4>1 DEF IInv, TypeOK
      <4> HIDE DEF w
      <4>4. w.at = "checking" => <<w.asked, TRUE>> \in w.sent
        BY <4>2 DEF IInv, CheckedIsApproved
      <4>5. ~Terminal(r)
        BY <3>2 DEF Terminal
      <4>6. RunGoes
        BY <3>2, <4>1, <4>2, <4>4, <4>5, RunMoves
      <4> QED BY <4>2, <4>3, <4>6 DEF Started
    <3> QED BY <2>1, <3>1, <3>2
  <2>3. PICK w \in CallState : w = [c EXCEPT !.at = "associate", !.run = r]
    BY DEF CallState, OrNone
  <2>4. w.at = "associate" /\ w.run = r /\ call' = [call EXCEPT ![p] = w]
    <3>1. w.at = "associate" /\ w.run = r
      BY <2>3 DEF CallState
    <3>2. call' = [call EXCEPT ![p] = [call[p] EXCEPT !.at = "associate", !.run = r]]
      BY <2>1
    <3> QED BY <2>3, <3>1, <3>2
  <2>5. CallsGo
    BY <2>2, <2>3, <2>4, CallMoves
  <2>6. ChatGoes /\ JobsGo
    BY <1>6, ChatSame, JobsSame DEF Trigger
  <2> QED BY <2>2, <2>5, <2>6 DEF Steps
<1>7. CASE Associate(p)
  <2>1. Started(c.run) /\ chat' = Associated(c.run)
    BY <1>7 DEF Associate, At, Knows
  <2>2. ChatGoes
    BY <2>1, ChatAssociated
  <2> QED BY <1>7, <2>2, RunSame, JobsSame, CallReturns DEF Associate, Steps
<1>8. CASE AssociationFails(p)
  <2>1. RunGoes /\ ChatGoes /\ JobsGo
    BY <1>8, RunSame, ChatSame, JobsSame DEF AssociationFails
  <2>2. PICK late \in SUBSET {"associate"} :
          call' = [call EXCEPT ![p].at = "cleanup",
                               ![p].todo = {"close", "cancel", "clear"} \cup late]
    BY <1>8 DEF AssociationFails
  <2>3. PICK w \in CallState :
          w = [c EXCEPT !.at = "cleanup", !.todo = {"close", "cancel", "clear"} \cup late]
    BY DEF CallState
  <2>4. w.at = "cleanup" /\ w.run = c.run /\ call' = [call EXCEPT ![p] = w]
    <3>1. w.at = "cleanup" /\ w.run = c.run
      BY <2>3 DEF CallState
    <3>2. call' = [call EXCEPT ![p] =
                     [call[p] EXCEPT !.at = "cleanup",
                                     !.todo = {"close", "cancel", "clear"} \cup late]]
      BY <2>2
    <3> QED BY <2>3, <3>1, <3>2
  <2>5. Started(c.run)'
    BY <1>8, <2>1, StartedStays DEF AssociationFails, At, Knows
  <2>6. CallsGo
    BY <2>1, <2>3, <2>4, <2>5, CallMoves
  <2> QED BY <2>1, <2>6 DEF Steps
<1>9. CASE Cleanup(p)
  <2>1. Started(c.run) /\ c.at = "cleanup" /\ c.run \in OrNone(Runs)
    BY <1>9 DEF Cleanup, At, Knows, CallState
  <2>2. JobsGo
    BY <1>9, JobsSame DEF Cleanup
  <2>3. RunGoes
    <3>1. \/ run' = run
          \/ run' = ClosedSession(SessionOf(c.run))
          \/ run' = CanceledRun(c.run)
      BY <1>9 DEF Cleanup
    <3>2. SessionOf(c.run) \in OrNone(Runs)
      BY <2>1 DEF SessionOf, OrNone
    <3> QED BY <2>1, <3>1, <3>2, RunSame, RunClosed, RunCanceled
  <2>4. ChatGoes
    <3>1. \/ chat' = chat
          \/ chat' = Cleared(c.run, NoRun)
          \/ chat' = Associated(c.run)
      BY <1>9 DEF Cleanup
    <3> QED BY <2>1, <3>1, ChatSame, ChatCleared, ChatAssociated
  <2>5. CallsGo
    <3>1. PICK x \in c.todo :
            call' = [call EXCEPT ![p] =
                       IF call[p].todo = {x} THEN Idle
                       ELSE [call[p] EXCEPT !.todo = @ \ {x}]]
      BY <1>9 DEF Cleanup
    <3>2. CASE c.todo = {x}
      <4>1. Return(p)
        BY <3>1, <3>2 DEF Return
      <4> QED BY <4>1, CallReturns
    <3>3. CASE c.todo # {x}
      <4>1. PICK w \in CallState : w = [c EXCEPT !.todo = c.todo \ {x}]
        BY DEF CallState
      <4>2. w.at = "cleanup" /\ w.run = c.run /\ call' = [call EXCEPT ![p] = w]
        <5>1. w.at = "cleanup" /\ w.run = c.run
          BY <2>1, <4>1 DEF CallState
        <5>2. call' = [call EXCEPT ![p] = [call[p] EXCEPT !.todo = call[p].todo \ {x}]]
          BY <3>1, <3>3
        <5> QED BY <4>1, <5>1, <5>2
      <4>3. Started(c.run)'
        BY <2>1, <2>3, StartedStays
      <4> QED BY <2>3, <4>1, <4>2, <4>3, CallMoves
    <3> QED BY <3>2, <3>3
  <2> QED BY <2>2, <2>3, <2>4, <2>5 DEF Steps
<1> QED BY <1>1, <1>2, <1>3, <1>4, <1>5, <1>6, <1>7, <1>8, <1>9 DEF Start

LEMMA StopSteps ==
  ASSUME IInv, NEW p \in Calls, Stop(p)
  PROVE  Steps
<1>0. PICK c \in CallState : c = call[p] /\ Knows(c)
  BY CallOf
<1> USE <1>0
<1>1. ASSUME NEW op \in {"stop", "forget"}, NEW at \in {"close", "retrieve"},
             op = "stop" <=> at = "close",
             chat.run # NoRun, Begin(p, op, Snapshot(op, at)),
             UNCHANGED <<chat, run, jobs>>
      PROVE  Steps
  <2>1. RunGoes /\ ChatGoes /\ JobsGo
    BY <1>1, RunSame, ChatSame, JobsSame
  <2>2. PICK w \in CallState : w = Snapshot(op, at)
    BY SnapshotType DEF AllOperations, Places
  <2>3. w.op = op /\ w.at = at /\ Started(w.run)
    BY <1>1, <2>2, SnapshotType DEF AllOperations, Places
  <2>4. Started(w.run)'
    BY <2>1, <2>3, StartedStays
  <2>5. CallsGo
    BY <1>1, <2>1, <2>2, <2>3, <2>4, CallMoves DEF Begin
  <2> QED BY <2>1, <2>5 DEF Steps
<1>2. CASE StopReads(p)
  BY <1>1, <1>2 DEF StopReads
<1>3. CASE ResumeReads(p)
  BY <1>1, <1>3 DEF ResumeReads
<1>4. CASE ResumeRetrieves(p)
  <2>1. RunGoes /\ ChatGoes /\ JobsGo
    BY <1>4, RunSame, ChatSame, JobsSame DEF ResumeRetrieves
  <2>2. CASE Terminal(c.run) /\ Goto(p, "close")
    <3>1. Started(c.run)
      BY <1>4 DEF ResumeRetrieves, At, Knows
    <3>2. Terminal(c.run)' /\ Started(c.run)'
      BY <2>1, <2>2, <3>1, TerminalStays DEF Started
    <3>3. CallsGo
      BY <2>1, <2>2, <3>1, <3>2, CallGoesOn DEF Places, Started
    <3> QED BY <2>1, <3>3 DEF Steps
  <2>3. CASE Return(p)
    BY <2>1, <2>3, CallReturns DEF Steps
  <2> QED BY <1>4, <2>2, <2>3 DEF ResumeRetrieves
<1>5. CASE StatusRetrieves(p)
  <2>1. RunGoes /\ ChatGoes /\ JobsGo
    BY <1>5, RunSame, ChatSame, JobsSame DEF StatusRetrieves
  <2>2. PICK r \in Runs :
          /\ Terminal(r)
          /\ call' = [call EXCEPT ![p] =
                        [Idle EXCEPT !.op = "forget", !.at = "read", !.run = r]]
    BY <1>5 DEF StatusRetrieves, Begin
  <2>3. PICK w \in CallState :
          w = [Idle EXCEPT !.op = "forget", !.at = "read", !.run = r]
    BY IdleType DEF CallState, AllOperations, OrNone
  <2>4. w.at = "read" /\ w.run = r
    BY <2>3, IdleType DEF CallState
  <2>5. Terminal(r)'
    BY <2>1, <2>2, TerminalStays
  <2>6. CallsGo
    BY <2>1, <2>2, <2>3, <2>4, <2>5, CallMoves
  <2> QED BY <2>1, <2>6 DEF Steps
<1>6. CASE StatusReads(p)
  <2>1. RunGoes /\ ChatGoes /\ JobsGo
    BY <1>6, RunSame, ChatSame, JobsSame DEF StatusReads
  <2>2. c.run \in Runs /\ Terminal(c.run)
    BY <1>6 DEF StatusReads, At, Knows
  <2>3. Terminal(c.run)' /\ Started(c.run)'
    BY <2>1, <2>2, TerminalStays
  <2>4. CASE call' = [call EXCEPT ![p].at = "close", ![p].session = chat.session]
    <3>1. PICK w \in CallState : w = [c EXCEPT !.at = "close", !.session = chat.session]
      BY DEF CallState, IInv, TypeOK, ChatState
    <3>2. w.at = "close" /\ w.run = c.run
      BY <3>1 DEF CallState
    <3>3. call' = [call EXCEPT ![p] =
                     [call[p] EXCEPT !.at = "close", !.session = chat.session]]
      BY <2>4
    <3>4. CallsGo
      BY <2>1, <2>3, <3>1, <3>2, <3>3, CallMoves
    <3> QED BY <2>1, <3>4 DEF Steps
  <2>5. CASE Return(p)
    BY <2>1, <2>5, CallReturns DEF Steps
  <2> QED BY <1>6, <2>4, <2>5 DEF StatusReads
<1>7. CASE CloseSession(p)
  <2>1. c.session \in OrNone(Runs) /\ c.at = "close" /\ Started(c.run)
        /\ (c.op # "stop" => Terminal(c.run))
    BY <1>7 DEF CloseSession, CallState, Knows
  <2>2. RunGoes /\ ChatGoes /\ JobsGo
    BY <1>7, <2>1, RunClosed, ChatSame, JobsSame DEF CloseSession
  <2>3. Started(c.run)'
    BY <2>1, <2>2, StartedStays
  <2>4. CASE c.op = "stop"
    <3>1. Goto(p, "cancel")
      BY <1>7, <2>4 DEF CloseSession, Goto
    <3>2. CallsGo
      BY <2>2, <2>3, <3>1, CallGoesOn DEF Places
    <3> QED BY <2>2, <3>2 DEF Steps
  <2>5. CASE c.op # "stop"
    <3>1. PICK w \in CallState : w = [c EXCEPT !.at = "clear", !.session = NoRun]
      BY DEF CallState, OrNone
    <3>2. w.at = "clear" /\ w.run = c.run
      BY <3>1 DEF CallState
    <3>3. call' = [call EXCEPT ![p] = [call[p] EXCEPT !.at = "clear", !.session = NoRun]]
      BY <1>7, <2>5 DEF CloseSession
    <3>4. c.run \in Runs /\ Terminal(c.run)'
      BY <2>1, <2>2, <2>5, TerminalStays DEF Started
    <3>5. CallsGo
      BY <2>2, <3>1, <3>2, <3>3, <3>4, CallMoves
    <3> QED BY <2>2, <3>5 DEF Steps
  <2> QED BY <2>4, <2>5
<1>8. CASE CancelRun(p)
  <2>1. Started(c.run) /\ c.run \in OrNone(Runs)
    BY <1>8 DEF CancelRun, CallState, Knows
  <2>2. RunGoes /\ ChatGoes /\ JobsGo /\ Terminal(c.run)'
    BY <1>8, <2>1, RunCanceled, ChatSame, JobsSame DEF CancelRun
  <2>3. Started(c.run)' /\ c.run \in Runs
    BY <2>1, <2>2, StartedStays DEF Started
  <2>4. CallsGo
    BY <1>8, <2>2, <2>3, CallGoesOn DEF CancelRun, Places
  <2> QED BY <2>2, <2>4 DEF Steps
<1>9. CASE ClearRun(p)
  BY <1>9, RunSame, ChatCleared, JobsSame, CallReturns DEF ClearRun, Steps
<1> QED BY <1>2, <1>3, <1>4, <1>5, <1>6, <1>7, <1>8, <1>9 DEF Stop

LEMMA ApproveSteps ==
  ASSUME IInv, NEW p \in Calls, Approve(p)
  PROVE  Steps
<1>0. PICK c \in CallState : c = call[p] /\ Knows(c)
  BY CallOf
<1> USE <1>0
<1>1. CASE UserDecides(p)
  <2>1. RunGoes /\ ChatGoes /\ JobsGo
    BY <1>1, RunSame, ChatSame, JobsSame DEF UserDecides
  <2>2. chat.pending \in Ask /\ chat.session \in OrNone(Runs)
    BY <1>1 DEF UserDecides, IInv, TypeOK, ChatState
  <2>3. PICK w \in CallState :
          w = [Idle EXCEPT !.op = "approve", !.at = "authorize",
                           !.session = chat.session, !.ask = chat.pending]
    BY <2>2, IdleType DEF CallState, AllOperations
  <2>4. w.at = "authorize" /\ w.ask \in Ask
    BY <2>2, <2>3, IdleType DEF CallState
  <2>5. CallsGo
    BY <1>1, <2>1, <2>3, <2>4, CallMoves DEF UserDecides, Begin
  <2> QED BY <2>1, <2>5 DEF Steps
<1>2. CASE AuthorizeDecision(p)
  <2>1. RunGoes /\ ChatGoes /\ JobsGo
    BY <1>2, RunSame, ChatSame, JobsSame DEF AuthorizeDecision
  <2>2. CASE call' = [call EXCEPT ![p].at = "verify", ![p].run = chat.run]
    <3>1. PICK w \in CallState : w = [c EXCEPT !.at = "verify", !.run = chat.run]
      BY DEF CallState, IInv, TypeOK, ChatState
    <3>2. w.at = "verify" /\ w.ask = c.ask
      BY <3>1 DEF CallState
    <3>3. call' = [call EXCEPT ![p] = [call[p] EXCEPT !.at = "verify", !.run = chat.run]]
      BY <2>2
    <3>4. c.ask \in Ask
      BY <1>2 DEF AuthorizeDecision, At, Knows
    <3>5. CallsGo
      BY <2>1, <3>1, <3>2, <3>3, <3>4, CallMoves
    <3> QED BY <2>1, <3>5 DEF Steps
  <2>3. CASE Return(p)
    BY <2>1, <2>3, CallReturns DEF Steps
  <2> QED BY <1>2, <2>2, <2>3 DEF AuthorizeDecision
<1>3. CASE VerifyDecision(p)
  <2>1. RunGoes /\ ChatGoes /\ JobsGo
    BY <1>3, RunSame, ChatSame, JobsSame DEF VerifyDecision
  <2>2. CASE Goto(p, "send")
    <3>1. c.ask \in Ask
      BY <1>3 DEF VerifyDecision, At, Knows
    <3>2. CallsGo
      BY <2>1, <2>2, <3>1, CallGoesOn DEF Places
    <3> QED BY <2>1, <3>2 DEF Steps
  <2>3. CASE Return(p)
    BY <2>1, <2>3, CallReturns DEF Steps
  <2> QED BY <1>3, <2>2, <2>3 DEF VerifyDecision
<1>4. CASE SendDecision(p)
  <2>1. c.ask \in Ask
    BY <1>4 DEF SendDecision, At, Knows
  <2>2. PICK b \in BOOLEAN :
          run' = [run EXCEPT ![c.session].sent = @ \cup {<<c.ask[2], b>>}]
    BY <1>4 DEF SendDecision
  <2>3. <<c.ask[2], b>> \in Decision
    BY <2>1 DEF Ask, Decision
  <2>4. RunGoes
    <3>1. CASE c.session \in Runs
      <4> DEFINE r == c.session
                 w == [run[r] EXCEPT !.sent = run[r].sent \cup {<<c.ask[2], b>>}]
      <4>1. run[r] \in RunState /\ run' = [run EXCEPT ![r] = w]
        BY <2>2, <3>1 DEF IInv, TypeOK
      <4>2. w \in RunState /\ w.status = run[r].status /\ w.at = run[r].at
            /\ w.asked = run[r].asked /\ run[r].sent \subseteq w.sent
        BY <2>3, <4>1 DEF RunState
      <4> HIDE DEF w
      <4>3. w.at = "checking" => <<w.asked, TRUE>> \in w.sent
        BY <3>1, <4>2 DEF IInv, CheckedIsApproved
      <4> QED BY <3>1, <4>1, <4>2, <4>3, RunMoves DEF Terminal
    <3>2. CASE c.session \notin Runs
      <4>1. run' = run
        BY <2>2, <3>2 DEF IInv, TypeOK
      <4> QED BY <4>1, RunSame
    <3> QED BY <3>1, <3>2
  <2> QED BY <1>4, <2>4, ChatSame, JobsSame, CallReturns DEF SendDecision, Steps
<1> QED BY <1>1, <1>2, <1>3, <1>4 DEF Approve

\* A snapshot for a deletion knows what is to be shut.
LEMMA ShutType ==
  ASSUME IInv, RunGoes, run' = run, NEW p \in Calls, NEW w \in CallState,
         w.at = "shut", w.run = chat.run, w.todo = ToStop,
         call' = [call EXCEPT ![p] = w]
  PROVE  CallsGo
<1>1. w.run # NoRun => "cancel" \in w.todo
  BY DEF ToStop
<1>2. w.run # NoRun => Started(w.run)'
  <2>1. chat.run \in OrNone(Runs)
    BY DEF IInv, TypeOK, ChatState
  <2>2. chat.run # NoRun => Started(chat.run)
    BY <2>1 DEF IInv, RowIsOfOneRun, Started, OrNone
  <2> QED BY <2>2 DEF Started
<1> QED BY <1>1, <1>2, CallMoves

LEMMA DeleteSteps ==
  ASSUME IInv, NEW p \in Calls, Delete(p)
  PROVE  Steps
<1>0. PICK c \in CallState : c = call[p] /\ Knows(c)
  BY CallOf
<1> USE <1>0
<1>a. ASSUME NEW op \in {"delete", "deleteAll"}
      PROVE  \E w \in CallState :
               /\ w = [Snapshot(op, "shut") EXCEPT !.todo = ToStop]
               /\ w.at = "shut" /\ w.run = chat.run /\ w.todo = ToStop
  <2>1. PICK v \in CallState :
          v = Snapshot(op, "shut") /\ v.at = "shut" /\ v.run = chat.run
    BY SnapshotType DEF AllOperations, Places
  <2>2. ToStop \subseteq {"close", "cancel"}
    BY DEF ToStop
  <2>3. PICK w \in CallState : w = [v EXCEPT !.todo = ToStop]
    BY <2>2 DEF CallState
  <2> QED BY <2>1, <2>3 DEF CallState
<1>b. ASSUME NEW op \in {"delete", "deleteAll"},
             Begin(p, op, [Snapshot(op, "shut") EXCEPT !.todo = ToStop]),
             run' = run
      PROVE  CallsGo
  <2>1. PICK w \in CallState :
          /\ w = [Snapshot(op, "shut") EXCEPT !.todo = ToStop]
          /\ w.at = "shut" /\ w.run = chat.run /\ w.todo = ToStop
    BY <1>a
  <2>2. call' = [call EXCEPT ![p] = w]
    BY <1>b, <2>1 DEF Begin
  <2> QED BY <1>b, <2>1, <2>2, RunSame, ShutType
<1>1. CASE DeleteReads(p)
  BY <1>1, <1>b, RunSame, ChatSame, JobsSame DEF DeleteReads, Steps
<1>2. CASE DeleteReadsAgain(p)
  <2>1. RunGoes /\ ChatGoes /\ JobsGo
    BY <1>2, RunSame, ChatSame, JobsSame DEF DeleteReadsAgain
  <2>2. c.attempt \in 0..MaxAttempts
    BY DEF CallState
  <2>3. CASE call' = [call EXCEPT ![p] =
               [Snapshot("delete", "shut") EXCEPT !.todo = ToStop,
                                                  !.attempt = call[p].attempt]]
    <3>1. PICK v \in CallState :
            /\ v = [Snapshot("delete", "shut") EXCEPT !.todo = ToStop]
            /\ v.at = "shut" /\ v.run = chat.run /\ v.todo = ToStop
      BY <1>a
    <3>2. PICK w \in CallState : w = [v EXCEPT !.attempt = c.attempt]
      BY <2>2 DEF CallState
    <3>3. w.at = "shut" /\ w.run = chat.run /\ w.todo = ToStop
      BY <3>1, <3>2 DEF CallState
    <3>4. call' = [call EXCEPT ![p] = w]
      BY <2>3, <3>1, <3>2
    <3>5. CallsGo
      BY <1>2, <2>1, <3>3, <3>4, ShutType DEF DeleteReadsAgain
    <3> QED BY <2>1, <3>5 DEF Steps
  <2>4. CASE Return(p)
    BY <2>1, <2>4, CallReturns DEF Steps
  <2> QED BY <1>2, <2>3, <2>4 DEF DeleteReadsAgain
<1>3. CASE FenceChats(p)
  <2>1. ChatGoes
    <3>1. CASE chat' = chat
      BY <3>1, ChatSame
    <3>2. CASE chat' = [chat EXCEPT !.deleting = TRUE]
      BY <3>2 DEF IInv, TypeOK, ChatState, ChatGoes, RowKept
    <3> QED BY <1>3, <3>1, <3>2 DEF FenceChats
  <2> QED BY <1>3, <1>b, <2>1, RunSame, JobsSame DEF FenceChats, Steps
<1>4. CASE Shut(p)
  <2>1. PICK x \in c.todo :
          /\ run' = IF x = "close" THEN ClosedSession(c.session) ELSE CanceledRun(c.run)
          /\ call' = [call EXCEPT ![p].todo = @ \ {x}]
    BY <1>4 DEF Shut
  <2>2. c.at = "shut" /\ c.run \in OrNone(Runs) /\ c.session \in OrNone(Runs)
    BY <1>4 DEF Shut, CallState
  <2>3. RunGoes /\ (x # "close" /\ Started(c.run) => Terminal(c.run)')
    BY <2>1, <2>2, RunClosed, RunCanceled
  <2>4. ChatGoes /\ JobsGo
    BY <1>4, ChatSame, JobsSame DEF Shut
  <2>5. PICK w \in CallState : w = [c EXCEPT !.todo = c.todo \ {x}]
    BY DEF CallState
  <2>6. w.at = "shut" /\ w.run = c.run /\ w.todo = c.todo \ {x}
    BY <2>2, <2>5 DEF CallState
  <2>7. call' = [call EXCEPT ![p] = w]
    BY <2>1, <2>5
  <2>8. ASSUME c.run # NoRun
        PROVE  Started(c.run)' /\ ("cancel" \notin w.todo => Terminal(c.run)')
    <3>1. Started(c.run) /\ ("cancel" \notin c.todo => Terminal(c.run))
      BY <2>2, <2>8 DEF Knows
    <3>2. Started(c.run)'
      BY <2>3, <3>1, StartedStays
    <3>3. CASE "cancel" \notin c.todo
      BY <2>3, <3>1, <3>2, <3>3, TerminalStays DEF Started
    <3>4. CASE "cancel" \in c.todo /\ "cancel" \notin w.todo
      <4>1. x = "cancel"
        BY <2>6, <3>4
      <4> QED BY <2>3, <3>1, <3>2, <4>1
    <3> QED BY <3>2, <3>3, <3>4
  <2>9. CallsGo
    BY <2>3, <2>5, <2>6, <2>7, <2>8, CallMoves
  <2> QED BY <2>3, <2>4, <2>9 DEF Steps
<1>5. CASE DeleteChat(p)
  <2>1. RunGoes
    BY <1>5, RunSame DEF DeleteChat
  <2>2. CASE ~chat.exists /\ Return(p) /\ UNCHANGED <<chat, jobs>>
    BY <2>1, <2>2, ChatSame, JobsSame, CallReturns DEF Steps
  <2>3. CASE DeleteDocument(jobs) /\ Return(p)
    <3>1. jobs \in [{"one", "all"} -> 0..MaxJobs]
      BY DEF IInv, TypeOK
    <3> QED BY <2>1, <2>3, <3>1, Deleted, CallReturns DEF Steps
  <2>4. CASE /\ call' = [call EXCEPT ![p] =
                  IF @.attempt + 1 < MaxAttempts
                  THEN [Idle EXCEPT !.op = "delete", !.at = "again",
                                    !.attempt = call[p].attempt + 1]
                  ELSE Idle]
             /\ UNCHANGED <<chat, jobs>>
    <3>1. CASE c.attempt + 1 < MaxAttempts
      <4>1. c.attempt + 1 \in 0..MaxAttempts
        BY <3>1, AgentAssumption DEF CallState
      <4>2. PICK w \in CallState :
              w = [Idle EXCEPT !.op = "delete", !.at = "again", !.attempt = c.attempt + 1]
        BY <4>1, IdleType DEF CallState, AllOperations
      <4>3. w.at = "again" /\ call' = [call EXCEPT ![p] = w]
        <5>1. w.at = "again"
          BY <4>2, IdleType DEF CallState
        <5> QED BY <2>4, <3>1, <4>2, <5>1
      <4>4. CallsGo
        BY <2>1, <4>2, <4>3, CallMoves
      <4> QED BY <2>1, <2>4, <4>4, ChatSame, JobsSame DEF Steps
    <3>2. CASE ~(c.attempt + 1 < MaxAttempts)
      <4>1. Return(p)
        BY <2>4, <3>2 DEF Return
      <4> QED BY <2>1, <2>4, <4>1, ChatSame, JobsSame, CallReturns DEF Steps
    <3> QED BY <3>1, <3>2
  <2> QED BY <1>5, <2>2, <2>3, <2>4 DEF DeleteChat
<1>6. CASE DeleteAllChats(p)
  <2>1. jobs \in [{"one", "all"} -> 0..MaxJobs]
    BY DEF IInv, TypeOK
  <2> QED BY <1>6, <2>1, RunSame, Deleted, CallReturns DEF DeleteAllChats, Steps
<1> QED BY <1>1, <1>2, <1>3, <1>4, <1>5, <1>6 DEF Delete

LEMMA BatchSteps ==
  ASSUME IInv, DeleteBatch \/ DeleteAllBatch \/ MarkCanceled
  PROVE  Steps
<1>1. CASE DeleteBatch
  <2> DEFINE left == [jobs EXCEPT !["one"] = @ - 1]
  <2>1. left \in [{"one", "all"} -> 0..MaxJobs]
    BY <1>1, AgentAssumption DEF DeleteBatch, IInv, TypeOK
  <2>2. RunGoes /\ CallsGo
    BY <1>1, RunSame DEF DeleteBatch, CallsGo
  <2>3. \/ jobs' = left /\ UNCHANGED chat
        \/ DeleteDocument(left)
    BY <1>1 DEF DeleteBatch
  <2> HIDE DEF left
  <2>4. ChatGoes /\ JobsGo
    BY <2>1, <2>3, ChatSame, Deleted DEF JobsGo
  <2> QED BY <2>2, <2>4 DEF Steps
<1>2. CASE DeleteAllBatch
  <2> DEFINE left == [jobs EXCEPT !["all"] = @ - 1]
  <2>1. left \in [{"one", "all"} -> 0..MaxJobs]
    BY <1>2, AgentAssumption DEF DeleteAllBatch, IInv, TypeOK
  <2>2. RunGoes /\ CallsGo
    BY <1>2, RunSame DEF DeleteAllBatch, CallsGo
  <2>3. DeleteNextBatch(left)
    BY <1>2 DEF DeleteAllBatch
  <2> HIDE DEF left
  <2> QED BY <2>1, <2>2, <2>3, Deleted DEF Steps
<1>3. CASE MarkCanceled
  <2>1. ChatGoes
    BY <1>3 DEF MarkCanceled, IInv, TypeOK, ChatState, ChatGoes, RowKept
  <2> QED BY <1>3, <2>1, RunSame, JobsSame DEF MarkCanceled, CallsGo, Steps
<1> QED BY <1>1, <1>2, <1>3

LEMMA WorkerSteps ==
  ASSUME IInv, NEW r \in Runs, Worker(r) \/ Vanish(r)
  PROVE  Steps
<1>0. PICK v \in RunState : v = run[r]
  BY DEF IInv, TypeOK
<1> USE <1>0
<1>a. v.at = "checking" => <<v.asked, TRUE>> \in v.sent
  BY DEF IInv, CheckedIsApproved
<1>b. JobsGo /\ CallsGo
  BY JobsSame DEF Worker, AskForApproval, ReceiveDecision, FindSessionClosed,
     RunOperation, DenyOperation, UnmarkRequest, EndStream, ClearOwnRun, Vanish, CallsGo
\* A worker that goes anywhere but to an operation.
<1>c. ASSUME NEW w \in RunState, run' = [run EXCEPT ![r] = w], w.at # "checking",
             \/ w.status = v.status
             \/ w.status = "ended" /\ v.status = "live"
      PROVE  RunGoes
  BY <1>c, RunMoves DEF Terminal
<1>d. ASSUME NEW at \in {"answered", "denied"}, WorkerGoes(r, at)
      PROVE  RunGoes
  <2>1. PICK w \in RunState : w = [v EXCEPT !.at = at]
    BY DEF RunState
  <2>2. w.at = at /\ w.status = v.status
    BY <2>1 DEF RunState
  <2>3. run' = [run EXCEPT ![r] = w]
    BY <1>d, <2>1 DEF WorkerGoes
  <2> QED BY <1>c, <2>2, <2>3
<1>1. CASE AskForApproval(r)
  <2>1. v.asked + 1 \in 1..MaxAsks /\ v.asked + 1 \in 0..MaxAsks
    BY <1>1, AgentAssumption DEF AskForApproval, RunState
  <2>2. PICK w \in RunState : w = [v EXCEPT !.at = "waiting", !.asked = v.asked + 1]
    BY <2>1 DEF RunState
  <2>3. w.at = "waiting" /\ w.status = v.status
    BY <2>2 DEF RunState
  <2>4. run' = [run EXCEPT ![r] = [run[r] EXCEPT !.at = "waiting", !.asked = run[r].asked + 1]]
    BY <1>1 DEF AskForApproval
  <2>5. RunGoes
    BY <1>c, <2>2, <2>3, <2>4
  <2>6. ChatGoes
    <3>1. CASE chat' = chat
      BY <3>1, ChatSame
    <3>2. CASE NamesWorker(r) /\ chat' = [chat EXCEPT !.pending = <<r, v.asked + 1>>]
      <4>1. PICK a \in Ask : a = <<r, v.asked + 1>>
        BY <2>1 DEF Ask
      <4>2. a # NoAsk /\ a[1] = r
        BY <4>1, AgentAssumption DEF Ask
      <4>3. chat' = [chat EXCEPT !.pending = a] /\ chat.session = r
        BY <3>2, <4>1 DEF NamesWorker
      <4> QED BY <4>2, <4>3 DEF IInv, TypeOK, ChatState, ChatGoes, RowMarked
    <3> QED BY <1>1, <3>1, <3>2 DEF AskForApproval
  <2> QED BY <1>b, <2>5, <2>6 DEF Steps
<1>2. CASE ReceiveDecision(r)
  <2>1. PICK d \in v.sent \ v.read, next \in {"waiting", "checking", "answered"} :
          /\ next = "checking" => d[1] = v.asked /\ d[2]
          /\ run' = [run EXCEPT ![r].read = @ \cup {d}, ![r].at = next,
                               ![r].input = IF next = "checking" THEN d[1] ELSE 0]
    BY <1>2 DEF ReceiveDecision
  <2>2. d \in Decision /\ d[1] \in 1..MaxAsks /\ d[2] \in BOOLEAN /\ d = <<d[1], d[2]>>
    BY <2>1 DEF RunState, Decision
  <2>3. PICK n \in 0..MaxAsks : n = IF next = "checking" THEN d[1] ELSE 0
    BY <2>1, <2>2, AgentAssumption
  <2>4. PICK w \in RunState :
          w = [v EXCEPT !.read = v.read \cup {d}, !.at = next, !.input = n]
    BY <2>2, <2>3 DEF RunState
  <2>5. w.at = next /\ w.status = v.status /\ w.asked = v.asked /\ w.sent = v.sent
    BY <2>4 DEF RunState
  <2>6. run' = [run EXCEPT ![r] =
                  [run[r] EXCEPT !.read = run[r].read \cup {d}, !.at = next, !.input = n]]
    BY <2>1, <2>3
  <2>7. next = "checking" => d = <<v.asked, TRUE>>
    BY <2>1, <2>2
  <2>8. w.at = "checking" => <<w.asked, TRUE>> \in w.sent
    BY <2>1, <2>5, <2>7
  <2>9. RunGoes
    BY <2>4, <2>5, <2>6, <2>8, RunMoves DEF Terminal
  <2> QED BY <1>2, <1>b, <2>9, ChatSame DEF ReceiveDecision, Steps
<1>3. CASE FindSessionClosed(r)
  BY <1>3, <1>b, <1>d, ChatSame DEF FindSessionClosed, Steps
<1>4. CASE RunOperation(r)
  BY <1>4, <1>b, <1>d, ChatSame DEF RunOperation, Steps
<1>5. CASE DenyOperation(r)
  BY <1>5, <1>b, <1>d, ChatSame DEF DenyOperation, Steps
<1>6. CASE UnmarkRequest(r)
  <2>1. PICK at \in {"stopping", "working"} :
          run' = [run EXCEPT ![r].at = at, ![r].input = 0]
    BY <1>6 DEF UnmarkRequest
  <2>2. 0 \in 0..MaxAsks
    BY AgentAssumption
  <2>3. PICK w \in RunState : w = [v EXCEPT !.at = at, !.input = 0]
    BY <2>2 DEF RunState
  <2>4. w.at = at /\ w.status = v.status
    BY <2>3 DEF RunState
  <2>5. run' = [run EXCEPT ![r] = [run[r] EXCEPT !.at = at, !.input = 0]]
    BY <2>1
  <2>6. RunGoes
    BY <1>c, <2>3, <2>4, <2>5
  <2>7. ChatGoes
    <3>1. CASE chat' = chat
      BY <3>1, ChatSame
    <3>2. CASE chat' = [chat EXCEPT !.pending = NoAsk]
      BY <3>2 DEF IInv, TypeOK, ChatState, ChatGoes, RowMarked
    <3> QED BY <1>6, <3>1, <3>2 DEF UnmarkRequest
  <2> QED BY <1>b, <2>6, <2>7 DEF Steps
<1>7. CASE EndStream(r)
  <2>1. PICK closed \in {run, ClosedSession(SessionOf(r))} :
          run' = [closed EXCEPT ![r].at = "clearing"]
    BY <1>7 DEF EndStream
  <2>2. \/ run' = [run EXCEPT ![r].at = "clearing"]
        \/ run' = [[run EXCEPT ![r].session = "closed"] EXCEPT ![r].at = "clearing"]
    BY <2>1, AgentAssumption DEF ClosedSession, SessionOf
  <2>3. RunGoes
    <3>1. CASE run' = [run EXCEPT ![r].at = "clearing"]
      <4>1. PICK w \in RunState : w = [v EXCEPT !.at = "clearing"]
        BY DEF RunState
      <4>2. w.at = "clearing" /\ w.status = v.status
        BY <4>1 DEF RunState
      <4>3. run' = [run EXCEPT ![r] = w]
        BY <3>1, <4>1
      <4> QED BY <1>c, <4>1, <4>2, <4>3
    <3>2. CASE run' = [[run EXCEPT ![r].session = "closed"] EXCEPT ![r].at = "clearing"]
      <4>1. PICK w \in RunState : w = [v EXCEPT !.session = "closed", !.at = "clearing"]
        BY DEF RunState
      <4>2. w.at = "clearing" /\ w.status = v.status
        BY <4>1 DEF RunState
      <4>3. run' = [run EXCEPT ![r] =
                      [run[r] EXCEPT !.session = "closed", !.at = "clearing"]]
        BY <3>2 DEF IInv, TypeOK
      <4> QED BY <1>c, <4>1, <4>2, <4>3
    <3> QED BY <2>2, <3>1, <3>2
  <2>4. ChatGoes
    <3>1. CASE chat' = chat
      BY <3>1, ChatSame
    <3>2. ASSUME NEW n \in Enlarged(chat.messages) \cup {chat.messages},
                 chat' = [chat EXCEPT !.canceled = FALSE, !.messages = n]
          PROVE  ChatGoes
      <4>1. chat.messages \in 0..MaxMessages
        BY DEF IInv, TypeOK, ChatState
      <4>2. n \in 1..MaxMessages \/ n = chat.messages
        BY DEF Enlarged
      <4>3. n \in 0..MaxMessages
        BY <4>1, <4>2, AgentAssumption
      <4> QED BY <3>2, <4>3, ChatWritten
    <3> QED BY <1>7, <3>1, <3>2 DEF EndStream
  <2> QED BY <1>b, <2>3, <2>4 DEF Steps
<1>8. CASE ClearOwnRun(r) \/ Vanish(r)
  <2>1. PICK s : /\ s = IF v.status = "live" THEN "ended" ELSE v.status
                 /\ run' = [run EXCEPT ![r].at = "gone", ![r].status = s]
    BY <1>8 DEF ClearOwnRun, Vanish
  <2>2. PICK w \in RunState : w = [v EXCEPT !.at = "gone", !.status = s]
    BY <2>1 DEF RunState
  <2>3. w.at = "gone" /\ w.status = s
    BY <2>2 DEF RunState
  <2>4. run' = [run EXCEPT ![r] = [run[r] EXCEPT !.at = "gone", !.status = s]]
    BY <2>1
  <2>5. RunGoes
    BY <1>c, <2>1, <2>2, <2>3, <2>4
  <2>6. ChatGoes
    BY <1>8, ChatSame, ChatCleared DEF ClearOwnRun, Vanish
  <2> QED BY <1>b, <2>5, <2>6 DEF Steps
<1> QED BY <1>1, <1>2, <1>3, <1>4, <1>5, <1>6, <1>7, <1>8 DEF Worker

-----------------------------------------------------------------------------
\* The invariant, and what follows from it.

LEMMA InitKeeps == Init => IInv
<1> SUFFICES ASSUME Init PROVE IInv
  OBVIOUS
<1>1. 0 \in 0..MaxMessages /\ 0 \in 0..MaxAsks /\ 0 \in 0..MaxJobs /\ 0 \in 0..MaxAttempts
  BY AgentAssumption
<1>2. chat \in ChatState /\ RowIsOfOneRun
  <2>1. PICK b \in BOOLEAN :
          chat = [exists |-> b, run |-> NoRun, session |-> NoRun, pending |-> NoAsk,
                  canceled |-> FALSE, deleting |-> FALSE, messages |-> 0]
    BY DEF Init, NoChat, NewChat
  <2>2. chat \in ChatState
    BY <1>1, <2>1 DEF ChatState, OrNone
  <2> QED BY <2>1, <2>2 DEF RowIsOfOneRun
<1>3. run \in [Runs -> RunState] /\ CheckedIsApproved
  BY <1>1 DEF Init, NotStarted, RunState, CheckedIsApproved
<1>4. jobs \in [{"one", "all"} -> 0..MaxJobs]
  BY <1>1 DEF Init
<1>5. call \in [Calls -> CallState] /\ \A p \in Calls : call[p].at = "idle"
  BY <1>1, IdleType DEF Init, Idle
<1>6. \A p \in Calls : Knows(call[p])
  BY <1>5 DEF Knows
<1> QED BY <1>2, <1>3, <1>4, <1>5, <1>6 DEF IInv, TypeOK

LEMMA NextKeeps == IInv /\ [Next]_vars => IInv'
<1> SUFFICES ASSUME IInv, [Next]_vars PROVE Steps
  BY StepKeeps DEF Steps
<1>1. ASSUME NEW p \in Calls, Start(p) PROVE Steps
  BY <1>1, StartSteps
<1>2. ASSUME NEW p \in Calls, Stop(p) PROVE Steps
  BY <1>2, StopSteps
<1>3. ASSUME NEW p \in Calls, Approve(p) PROVE Steps
  BY <1>3, ApproveSteps
<1>4. ASSUME NEW p \in Calls, Delete(p) PROVE Steps
  BY <1>4, DeleteSteps
<1>5. ASSUME NEW p \in Calls, Abandon(p) PROVE Steps
  BY <1>5, RunSame, ChatSame, JobsSame, CallReturns DEF Abandon, Steps
<1>6. CASE MarkCanceled \/ DeleteBatch \/ DeleteAllBatch
  BY <1>6, BatchSteps
<1>7. ASSUME NEW r \in Runs, Worker(r) \/ Vanish(r) PROVE Steps
  BY <1>7, WorkerSteps
<1>8. CASE UNCHANGED vars
  BY <1>8, RunSame, ChatSame, JobsSame DEF vars, CallsGo, Steps
<1> QED BY <1>1, <1>2, <1>3, <1>4, <1>5, <1>6, <1>7, <1>8 DEF Next

LEMMA Invariance == Spec => []IInv
<1> QED BY InitKeeps, NextKeeps, PTL DEF Spec

\* The variables keep their types: the row, the runs, the deletion batches and
\* the requests under way, for any number of each.
THEOREM TypeCorrect == Spec => []TypeOK
<1>1. IInv => TypeOK
  BY DEF IInv
<1> QED BY <1>1, Invariance, PTL

\* Whoever writes the row of a chat, and in whatever order their calls take
\* effect, it names one run that was started, the session of that run, and a
\* request of that session (setActiveTriggerRun and its callers).
THEOREM OneRun == Spec => []RowIsOfOneRun
<1>1. IInv => RowIsOfOneRun
  BY DEF IInv
<1> QED BY <1>1, Invariance, PTL

\* The worker runs an operation only if the user approved the very request it
\* waits for, however answers are delayed, repeated or sent to a new request.
THEOREM NothingIsUnapproved == Spec => NothingUnapproved
<1>1. IInv /\ [Next]_vars =>
        [\A r \in Runs : RunOperation(r) => <<run[r].asked, TRUE>> \in run[r].sent]_vars
  BY DEF IInv, CheckedIsApproved, RunOperation, WorkerAt
<1> QED BY <1>1, Invariance, PTL DEF Spec, NothingUnapproved

\* A call that clears the row, or deletes the chat for the snapshot it read,
\* takes a run off the row only if that run has ended or was canceled: the row
\* is compared with the run that the call has seen end or has canceled.
THEOREM NotForgotten == Spec => RunningIsNotForgotten
<1>1. ASSUME IInv, [Next]_vars, NEW p \in Calls, ClearRun(p), chat'.run # chat.run
      PROVE  ~Live(chat.run)
  <2>1. Knows(call[p]) /\ call[p].at = "clear"
    BY <1>1 DEF IInv, ClearRun
  <2>2. Terminal(call[p].run)
    BY <2>1 DEF Knows
  <2>3. chat.run = call[p].run
    BY <1>1 DEF ClearRun, Cleared
  <2> QED BY <2>2, <2>3 DEF Terminal, Live
<1>2. ASSUME IInv, [Next]_vars, NEW p \in Calls, DeleteChat(p), chat'.run # chat.run
      PROVE  ~Live(chat.run)
  <2>1. Knows(call[p]) /\ call[p].at = "shut" /\ call[p].todo = {}
    BY <1>2 DEF IInv, DeleteChat, At
  <2>2. chat.run = call[p].run
    BY <1>2 DEF DeleteChat, IsCurrent
  <2>3. CASE chat.run # NoRun
    <3>1. Terminal(chat.run)
      BY <2>1, <2>2, <2>3 DEF Knows
    <3> QED BY <3>1 DEF Terminal, Live
  <2>4. CASE chat.run = NoRun
    <3>1. PICK c \in ChatState : c = Prepared /\ c.run = NoRun
      BY <1>2, <2>4, PreparedType
    <3>2. \/ chat' = chat
          \/ chat' = NoChat
          \/ chat' = [c EXCEPT !.messages = c.messages - 1]
      BY <1>2, <3>1 DEF DeleteChat, DeleteDocument
    <3>3. chat'.run = NoRun
      BY <2>4, <3>1, <3>2 DEF NoChat, ChatState
    <3> QED BY <1>2, <2>4, <3>3
  <2> QED BY <2>3, <2>4
<1>3. IInv /\ [Next]_vars =>
        [/\ \E p \in Calls : ClearRun(p) \/ DeleteChat(p)
         /\ chat'.run # chat.run
         => ~Live(chat.run)]_vars
  BY <1>1, <1>2
<1> QED BY <1>3, Invariance, PTL DEF Spec, RunningIsNotForgotten

-----------------------------------------------------------------------------
\* The session of a run that works.

Reading == {"retrieve", "close", "shut"}

\* A request that closes a session has read it together with the run it is about.
SnapshotFits(c) ==
  /\ c.at \in Reading => c.session \in {NoRun, c.run}
  /\ c.at = "shut" => c.op \in {"delete", "deleteAll"}

SnapshotsFit == \A p \in Calls : SnapshotFits(call[p])

LEMMA FitMoves ==
  ASSUME IInv, SnapshotsFit, NEW p \in Calls, NEW w,
         call' = [call EXCEPT ![p] = w], SnapshotFits(w)
  PROVE  SnapshotsFit'
<1>1. \A q \in Calls : call'[q] = IF q = p THEN w ELSE call[q]
  BY DEF IInv, TypeOK
<1> QED BY <1>1 DEF SnapshotsFit, SnapshotFits

\* It goes where no snapshot is used.
LEMMA FitLeaves ==
  ASSUME IInv, SnapshotsFit, NEW p \in Calls, NEW w,
         call' = [call EXCEPT ![p] = w], w.at \notin Reading
  PROVE  SnapshotsFit'
<1>1. SnapshotFits(w)
  BY DEF SnapshotFits, Reading
<1> QED BY <1>1, FitMoves

LEMMA FitGoesOn ==
  ASSUME IInv, SnapshotsFit, NEW p \in Calls, NEW at \in Places \ Reading, Goto(p, at)
  PROVE  SnapshotsFit'
<1>1. call[p] \in CallState
  BY DEF IInv, TypeOK
<1>2. PICK w : w = [call[p] EXCEPT !.at = at]
  OBVIOUS
<1>3. w.at = at
  BY <1>1, <1>2 DEF CallState
<1>4. call' = [call EXCEPT ![p] = w]
  BY <1>2 DEF Goto
<1> QED BY <1>3, <1>4, FitLeaves

LEMMA FitReturns ==
  ASSUME IInv, SnapshotsFit, NEW p \in Calls, Return(p)
  PROVE  SnapshotsFit'
BY IdleType, FitLeaves DEF Return, Reading

LEMMA FitStays == ASSUME SnapshotsFit, call' = call PROVE SnapshotsFit'
BY DEF SnapshotsFit, SnapshotFits

LEMMA FitStart ==
  ASSUME IInv, SnapshotsFit, NEW p \in Calls, Start(p)
  PROVE  SnapshotsFit'
<1>0. call[p] \in CallState
  BY DEF IInv, TypeOK
<1>1. CASE StartReads(p)
  <2>1. PICK w : w = [Idle EXCEPT !.op = "start",
                                  !.at = IF chat.exists THEN "message" ELSE "save"]
    OBVIOUS
  <2>2. w.at \notin Reading
    BY <2>1 DEF Idle, Reading
  <2> QED BY <1>1, <2>1, <2>2, FitLeaves DEF StartReads, Begin
<1>2. CASE SaveChat(p) \/ SaveMessage(p) \/ Regenerate(p)
  BY <1>2, FitGoesOn DEF SaveChat, SaveMessage, Regenerate, Places, Reading
<1>3. CASE ChatIsMissing(p) \/ Associate(p)
  BY <1>3, FitReturns DEF ChatIsMissing, Associate
<1>4. CASE Trigger(p)
  <2>1. PICK r \in Runs : call' = [call EXCEPT ![p].at = "associate", ![p].run = r]
    BY <1>4 DEF Trigger
  <2>2. PICK w : w = [call[p] EXCEPT !.at = "associate", !.run = r]
    OBVIOUS
  <2>3. w.at \notin Reading
    BY <1>0, <2>2 DEF CallState, Reading
  <2> QED BY <2>1, <2>2, <2>3, FitLeaves
<1>5. CASE AssociationFails(p)
  <2>1. PICK todo : call' = [call EXCEPT ![p].at = "cleanup", ![p].todo = todo]
    BY <1>5 DEF AssociationFails
  <2>2. PICK w : w = [call[p] EXCEPT !.at = "cleanup", !.todo = todo]
    OBVIOUS
  <2>3. w.at \notin Reading
    BY <1>0, <2>2 DEF CallState, Reading
  <2> QED BY <2>1, <2>2, <2>3, FitLeaves
<1>6. CASE Cleanup(p)
  <2>1. PICK w : /\ call' = [call EXCEPT ![p] = w]
                 /\ w = Idle \/ \E todo : w = [call[p] EXCEPT !.todo = todo]
    BY <1>6 DEF Cleanup
  <2>2. w.at \notin Reading
    BY <1>0, <1>6, <2>1, IdleType DEF Cleanup, At, CallState, Reading
  <2> QED BY <2>1, <2>2, FitLeaves
<1> QED BY <1>1, <1>2, <1>3, <1>4, <1>5, <1>6 DEF Start

LEMMA FitStop ==
  ASSUME IInv, SnapshotsFit, NEW p \in Calls, Stop(p)
  PROVE  SnapshotsFit'
<1>0. call[p] \in CallState /\ SnapshotFits(call[p])
  BY DEF IInv, TypeOK, SnapshotsFit
<1>1. ASSUME NEW op, NEW at, at # "shut", call' = [call EXCEPT ![p] = Snapshot(op, at)]
      PROVE  SnapshotsFit'
  <2>1. PICK w : w = Snapshot(op, at)
    OBVIOUS
  <2>2. w.at = at /\ w.session = chat.session /\ w.run = chat.run
    BY <2>1 DEF Snapshot, Idle
  <2>3. SnapshotFits(w)
    BY <1>1, <2>2 DEF SnapshotFits, IInv, RowIsOfOneRun
  <2> QED BY <1>1, <2>1, <2>3, FitMoves
<1>2. CASE StopReads(p) \/ ResumeReads(p)
  BY <1>1, <1>2 DEF StopReads, ResumeReads, Begin
<1>3. CASE ResumeRetrieves(p)
  <2>1. PICK w : w = [call[p] EXCEPT !.at = "close"]
    OBVIOUS
  <2>2. SnapshotFits(w)
    BY <1>0, <1>3, <2>1 DEF ResumeRetrieves, At, CallState, SnapshotFits, Reading
  <2> QED BY <1>3, <2>1, <2>2, FitMoves, FitReturns DEF ResumeRetrieves, Goto
<1>4. CASE StatusRetrieves(p)
  <2>1. PICK r : call' = [call EXCEPT ![p] =
                            [Idle EXCEPT !.op = "forget", !.at = "read", !.run = r]]
    BY <1>4 DEF StatusRetrieves, Begin
  <2>2. PICK w : w = [Idle EXCEPT !.op = "forget", !.at = "read", !.run = r]
    OBVIOUS
  <2>3. w.at \notin Reading
    BY <2>2 DEF Idle, Reading
  <2> QED BY <2>1, <2>2, <2>3, FitLeaves
<1>5. CASE StatusReads(p)
  <2>1. CASE chat.run = call[p].run /\
             call' = [call EXCEPT ![p].at = "close", ![p].session = chat.session]
    <3>1. PICK w : w = [call[p] EXCEPT !.at = "close", !.session = chat.session]
      OBVIOUS
    <3>2. SnapshotFits(w)
      BY <1>0, <2>1, <3>1 DEF CallState, SnapshotFits, IInv, RowIsOfOneRun
    <3> QED BY <2>1, <3>1, <3>2, FitMoves
  <2> QED BY <1>5, <2>1, FitReturns DEF StatusReads
<1>6. CASE CloseSession(p)
  <2>1. PICK w : /\ call' = [call EXCEPT ![p] = w]
                 /\ \/ w = [call[p] EXCEPT !.at = "cancel"]
                    \/ w = [call[p] EXCEPT !.at = "clear", !.session = NoRun]
    BY <1>6 DEF CloseSession
  <2>2. w.at \notin Reading
    BY <1>0, <2>1 DEF CallState, Reading
  <2> QED BY <2>1, <2>2, FitLeaves
<1>7. CASE CancelRun(p)
  BY <1>7, FitGoesOn DEF CancelRun, Places, Reading
<1>8. CASE ClearRun(p)
  BY <1>8, FitReturns DEF ClearRun
<1> QED BY <1>2, <1>3, <1>4, <1>5, <1>6, <1>7, <1>8 DEF Stop

LEMMA FitApprove ==
  ASSUME IInv, SnapshotsFit, NEW p \in Calls, Approve(p)
  PROVE  SnapshotsFit'
<1>0. call[p] \in CallState
  BY DEF IInv, TypeOK
<1>1. CASE UserDecides(p)
  <2>1. PICK w : w = [Idle EXCEPT !.op = "approve", !.at = "authorize",
                                  !.session = chat.session, !.ask = chat.pending]
    OBVIOUS
  <2>2. w.at \notin Reading
    BY <2>1 DEF Idle, Reading
  <2> QED BY <1>1, <2>1, <2>2, FitLeaves DEF UserDecides, Begin
<1>2. CASE AuthorizeDecision(p)
  <2>1. PICK w : w = [call[p] EXCEPT !.at = "verify", !.run = chat.run]
    OBVIOUS
  <2>2. w.at \notin Reading
    BY <1>0, <2>1 DEF CallState, Reading
  <2> QED BY <1>2, <2>1, <2>2, FitLeaves, FitReturns DEF AuthorizeDecision
<1>3. CASE VerifyDecision(p) \/ SendDecision(p)
  BY <1>3, FitGoesOn, FitReturns DEF VerifyDecision, SendDecision, Places, Reading
<1> QED BY <1>1, <1>2, <1>3 DEF Approve

LEMMA FitDelete ==
  ASSUME IInv, SnapshotsFit, NEW p \in Calls, Delete(p)
  PROVE  SnapshotsFit'
<1>0. call[p] \in CallState /\ SnapshotFits(call[p])
  BY DEF IInv, TypeOK, SnapshotsFit
<1>1. ASSUME NEW w, call' = [call EXCEPT ![p] = w],
             w.op \in {"delete", "deleteAll"},
             w.session = chat.session, w.run = chat.run
      PROVE  SnapshotsFit'
  <2>1. SnapshotFits(w)
    BY <1>1 DEF SnapshotFits, IInv, RowIsOfOneRun
  <2> QED BY <1>1, <2>1, FitMoves
<1>2. CASE DeleteReads(p)
  <2>1. PICK w : w = [Snapshot("delete", "shut") EXCEPT !.todo = ToStop]
    OBVIOUS
  <2>2. w.op = "delete" /\ w.session = chat.session /\ w.run = chat.run
    BY <2>1 DEF Snapshot, Idle
  <2> QED BY <1>1, <1>2, <2>1, <2>2 DEF DeleteReads, Begin
<1>3. CASE DeleteReadsAgain(p)
  <2>1. PICK w : w = [Snapshot("delete", "shut") EXCEPT !.todo = ToStop,
                                                         !.attempt = call[p].attempt]
    OBVIOUS
  <2>2. w.op = "delete" /\ w.session = chat.session /\ w.run = chat.run
    BY <2>1 DEF Snapshot, Idle
  <2> QED BY <1>1, <1>3, <2>1, <2>2, FitReturns DEF DeleteReadsAgain
<1>4. CASE FenceChats(p)
  <2>1. PICK w : w = [Snapshot("deleteAll", "shut") EXCEPT !.todo = ToStop]
    OBVIOUS
  <2>2. w.op = "deleteAll" /\ w.session = chat.session /\ w.run = chat.run
    BY <2>1 DEF Snapshot, Idle
  <2> QED BY <1>1, <1>4, <2>1, <2>2 DEF FenceChats, Begin
<1>5. CASE Shut(p)
  <2>1. PICK todo : call' = [call EXCEPT ![p].todo = todo]
    BY <1>5 DEF Shut
  <2>2. PICK w : w = [call[p] EXCEPT !.todo = todo]
    OBVIOUS
  <2>3. SnapshotFits(w)
    BY <1>0, <2>2 DEF CallState, SnapshotFits
  <2> QED BY <2>1, <2>2, <2>3, FitMoves
<1>6. CASE DeleteChat(p)
  <2>1. ASSUME NEW n, call' = [call EXCEPT ![p] =
                 [Idle EXCEPT !.op = "delete", !.at = "again", !.attempt = n]]
        PROVE  SnapshotsFit'
    <3>1. PICK w : w = [Idle EXCEPT !.op = "delete", !.at = "again", !.attempt = n]
      OBVIOUS
    <3>2. w.at \notin Reading
      BY <3>1 DEF Idle, Reading
    <3> QED BY <2>1, <3>1, <3>2, FitLeaves
  <2> QED BY <1>6, <2>1, FitReturns DEF DeleteChat, Return
<1>7. CASE DeleteAllChats(p)
  BY <1>7, FitReturns DEF DeleteAllChats
<1> QED BY <1>2, <1>3, <1>4, <1>5, <1>6, <1>7 DEF Delete

LEMMA FitNext == IInv /\ SnapshotsFit /\ [Next]_vars => SnapshotsFit'
<1> SUFFICES ASSUME IInv, SnapshotsFit, [Next]_vars PROVE SnapshotsFit'
  OBVIOUS
<1>1. ASSUME NEW p \in Calls, Start(p) \/ Stop(p) \/ Approve(p) \/ Delete(p)
      PROVE  SnapshotsFit'
  BY <1>1, FitStart, FitStop, FitApprove, FitDelete
<1>2. ASSUME NEW p \in Calls, Abandon(p) PROVE SnapshotsFit'
  BY <1>2, FitReturns DEF Abandon
<1>3. CASE MarkCanceled \/ DeleteBatch \/ DeleteAllBatch
  BY <1>3, FitStays DEF MarkCanceled, DeleteBatch, DeleteAllBatch
<1>4. ASSUME NEW r \in Runs, Worker(r) \/ Vanish(r) PROVE SnapshotsFit'
  BY <1>4, FitStays DEF Worker, AskForApproval, ReceiveDecision, FindSessionClosed,
     RunOperation, DenyOperation, UnmarkRequest, EndStream, ClearOwnRun, Vanish
<1>5. CASE UNCHANGED vars
  BY <1>5, FitStays DEF vars
<1> QED BY <1>1, <1>2, <1>3, <1>4, <1>5 DEF Next

LEMMA FitAlways == Spec => []SnapshotsFit
<1>1. Init => SnapshotsFit
  BY IdleType DEF Init, SnapshotsFit, SnapshotFits, Reading
<1> QED BY <1>1, FitNext, Invariance, PTL DEF Spec

\* The step closes the session of the run r, which was open.
Closes(r) == run[r].session = "open" /\ run'[r].session = "closed"

LEMMA OnlyItsSession ==
  ASSUME IInv, NEW s, NEW r \in Runs, run' = ClosedSession(s), Closes(r)
  PROVE  s = r
BY DEF ClosedSession, Closes, IInv, TypeOK

LEMMA CancelKeepsSessions ==
  ASSUME IInv, NEW s, NEW r \in Runs, run' = CanceledRun(s)
  PROVE  ~Closes(r)
<1>1. run'[r].session = run[r].session
  BY DEF CanceledRun, IInv, TypeOK, RunState
<1> QED BY <1>1 DEF Closes

\* A call that closes the session of a run either stops the run, or has seen it end.
LEMMA CallCloses ==
  ASSUME IInv, SnapshotsFit, NEW p \in Calls, NEW r \in Runs, Closes(r),
         Start(p) \/ Stop(p) \/ Approve(p) \/ Delete(p)
  PROVE  ~Live(r) \/ Stopping(r)
<1>0. call[p] \in CallState /\ Knows(call[p]) /\ SnapshotFits(call[p]) /\ run \in [Runs -> RunState]
  BY DEF IInv, TypeOK, SnapshotsFit
<1>a. NoRun # r
  BY AgentAssumption
<1>b. ASSUME run' = run PROVE FALSE
  BY <1>b DEF Closes
<1>1. CASE Start(p)
  <2>1. CASE Trigger(p)
    <3>1. PICK q \in Runs, s \in Sessions :
            \/ run' = run
            \/ run' = [run EXCEPT ![q].status = "live", ![q].session = s]
      BY <1>b, <2>1 DEF Trigger
    <3>2. s # "closed"
      BY AgentAssumption
    <3>3. run'[r].session \in {run[r].session, s}
      BY <1>0, <3>1 DEF RunState
    <3> QED BY <3>2, <3>3 DEF Closes
  <2>2. CASE Cleanup(p)
    <3>1. \/ run' = run
          \/ run' = ClosedSession(SessionOf(call[p].run))
          \/ run' = CanceledRun(call[p].run)
      BY <2>2 DEF Cleanup
    <3>2. SessionOf(call[p].run) = r
      BY <1>b, <3>1, OnlyItsSession, CancelKeepsSessions
    <3>3. call[p].run = r /\ call[p].op = "start"
      BY <1>a, <2>2, <3>2 DEF SessionOf, Cleanup, At
    <3> QED BY <3>3 DEF Stopping
  <2> QED BY <1>1, <1>b, <2>1, <2>2 DEF Start, StartReads, SaveChat, SaveMessage,
             ChatIsMissing, Regenerate, Associate, AssociationFails
<1>2. CASE Stop(p)
  <2>1. CASE CloseSession(p)
    <3>1. call[p].session = r /\ call[p].at = "close"
      BY <2>1, OnlyItsSession DEF CloseSession
    <3>2. call[p].run = r
      BY <1>0, <1>a, <3>1 DEF SnapshotFits, Reading
    <3>3. CASE call[p].op = "stop"
      BY <3>2, <3>3 DEF Stopping
    <3>4. CASE call[p].op # "stop"
      BY <1>0, <3>1, <3>2, <3>4 DEF Knows, Terminal, Live
    <3> QED BY <3>3, <3>4
  <2>2. CASE CancelRun(p)
    BY <2>2, CancelKeepsSessions DEF CancelRun
  <2> QED BY <1>2, <1>b, <2>1, <2>2 DEF Stop, StopReads, ResumeReads, ResumeRetrieves,
             StatusRetrieves, StatusReads, ClearRun
<1>3. CASE Approve(p)
  <2>1. CASE SendDecision(p)
    <3>1. PICK d : run' = [run EXCEPT ![call[p].session].sent = run[call[p].session].sent \cup {d}]
      BY <2>1 DEF SendDecision
    <3>2. run'[r].session = run[r].session
      BY <1>0, <3>1 DEF RunState
    <3> QED BY <3>2 DEF Closes
  <2> QED BY <1>3, <1>b, <2>1 DEF Approve, UserDecides, AuthorizeDecision, VerifyDecision
<1>4. CASE Delete(p)
  <2>1. CASE Shut(p)
    <3>1. call[p].session = r /\ call[p].at = "shut"
      BY <2>1, OnlyItsSession, CancelKeepsSessions DEF Shut
    <3>2. call[p].run = r /\ call[p].op \in {"delete", "deleteAll"}
      BY <1>0, <1>a, <3>1 DEF SnapshotFits, Reading
    <3> QED BY <3>2 DEF Stopping
  <2> QED BY <1>4, <1>b, <2>1 DEF Delete, DeleteReads, DeleteReadsAgain, FenceChats,
             DeleteChat, DeleteAllChats
<1> QED BY <1>1, <1>2, <1>3, <1>4

\* A worker closes its own session only, at the end of its stream.
LEMMA WorkerCloses ==
  ASSUME IInv, NEW q \in Runs, NEW r \in Runs, Closes(r), Worker(q) \/ Vanish(q)
  PROVE  run'[r].at = "clearing"
<1>0. run \in [Runs -> RunState]
  BY DEF IInv, TypeOK
<1>a. NoRun # r
  BY AgentAssumption
<1>b. ASSUME run'[r].session = run[r].session PROVE FALSE
  BY <1>b DEF Closes
<1>1. CASE EndStream(q)
  <2>1. \/ run' = [run EXCEPT ![q].at = "clearing"]
        \/ run' = [ClosedSession(SessionOf(q)) EXCEPT ![q].at = "clearing"]
    BY <1>1 DEF EndStream
  <2>2. CASE run' = [run EXCEPT ![q].at = "clearing"]
    BY <1>0, <1>b, <2>2 DEF RunState
  <2>3. CASE run' = [ClosedSession(SessionOf(q)) EXCEPT ![q].at = "clearing"]
    <3>1. \/ run' = [run EXCEPT ![q].at = "clearing"]
          \/ run' = [[run EXCEPT ![q].session = "closed"] EXCEPT ![q].at = "clearing"]
      BY <2>3, AgentAssumption DEF ClosedSession, SessionOf
    <3>2. CASE run' = [[run EXCEPT ![q].session = "closed"] EXCEPT ![q].at = "clearing"]
      <4>1. q = r
        BY <1>0, <1>b, <3>2 DEF RunState
      <4> QED BY <1>0, <3>2, <4>1 DEF RunState
    <3> QED BY <2>2, <3>1, <3>2
  <2> QED BY <2>1, <2>2, <2>3
<1>2. CASE AskForApproval(q)
  BY <1>0, <1>2, <1>b DEF AskForApproval, RunState
<1>3. CASE ReceiveDecision(q)
  <2>1. PICK d \in run[q].sent \ run[q].read, next \in {"waiting", "checking", "answered"} :
          run' = [run EXCEPT ![q].read = @ \cup {d}, ![q].at = next,
                             ![q].input = IF next = "checking" THEN d[1] ELSE 0]
    BY <1>3 DEF ReceiveDecision
  <2> QED BY <1>0, <1>b, <2>1 DEF RunState
<1>4. CASE FindSessionClosed(q) \/ RunOperation(q) \/ DenyOperation(q)
  BY <1>0, <1>4, <1>b DEF FindSessionClosed, RunOperation, DenyOperation, WorkerGoes, RunState
<1>5. CASE UnmarkRequest(q)
  BY <1>0, <1>5, <1>b DEF UnmarkRequest, RunState
<1>6. CASE ClearOwnRun(q) \/ Vanish(q)
  BY <1>0, <1>6, <1>b DEF ClearOwnRun, Vanish, RunState
<1> QED BY <1>1, <1>2, <1>3, <1>4, <1>5, <1>6 DEF Worker

\* The status poll, the reconnecting page and every other call with an old read of
\* the row close only the session of the run they have seen end or are stopping:
\* the session was read in the row with its run (agent-status-route.ts,
\* agent-resume-route.ts).
THEOREM SessionIsKept == Spec => SessionOfRunningIsKept
<1>1. ASSUME IInv, SnapshotsFit, [Next]_vars, NEW r \in Runs, Closes(r)
      PROVE  ~Live(r) \/ run'[r].at = "clearing" \/ Stopping(r)
  <2>1. run' # run
    BY <1>1 DEF Closes
  <2>2. CASE \E p \in Calls : Start(p) \/ Stop(p) \/ Approve(p) \/ Delete(p)
    BY <1>1, <2>2, CallCloses
  <2>3. CASE \E q \in Runs : Worker(q) \/ Vanish(q)
    BY <1>1, <2>3, WorkerCloses
  <2> QED BY <1>1, <2>1, <2>2, <2>3 DEF Next, vars, Abandon, MarkCanceled, DeleteBatch,
             DeleteAllBatch
<1>2. IInv /\ SnapshotsFit /\ [Next]_vars =>
        [\A r \in Runs :
           /\ run[r].session = "open"
           /\ run'[r].session = "closed"
           => ~Live(r) \/ run'[r].at = "clearing" \/ Stopping(r)]_vars
  BY <1>1 DEF Closes
<1> QED BY <1>2, Invariance, FitAlways, PTL DEF Spec, SessionOfRunningIsKept
=============================================================================
