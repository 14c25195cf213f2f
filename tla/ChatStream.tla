----------------------------- MODULE ChatStream -----------------------------
(***************************************************************************)
(* The streams of one chat in ask mode and what stops them. A request to   *)
(* /api/chat (lib/api/chat-handler.ts) streams an answer and works on when *)
(* its reader goes away. The tab stops it through Convex                   *)
(* (cancelStreamFromClient), which marks the chat and publishes to Redis;  *)
(* the handler subscribes there, and polls the mark while Redis is not     *)
(* available (lib/utils/stream-cancellation.ts). The answer is stored by   *)
(* the handler at its end, or by the tab that stopped it, or not at all if *)
(* the user replaces it (app/hooks/useChatHandlers.ts).                    *)
(*                                                                         *)
(* The row, the mark and the channel belong to the chat, not to a run. The *)
(* model notes with the mark and the publication which run they were meant *)
(* for; no guard looks at that. One tab is modelled; its mutations are     *)
(* executed one by one and in order, which Convex's client guarantees.     *)
(***************************************************************************)
EXTENDS Naturals, Sequences

CONSTANTS
    Requests,   \* bound: requests to /api/chat, each with the answer it streams
    MaxFaults   \* bound: what goes wrong (Fault)

ASSUME ChatAssumption == Requests \in Nat /\ MaxFaults \in Nat

VARIABLES
    row,        \* chats: active_stream_id and canceled_at
    stored,     \* messages: the answers that are stored
    trailing,   \* messages: those after the last user message
    asked,      \* messages: the turn of the last user message
    run,        \* the handler of each run
    starting,   \* the calls of startStream under way
    published,  \* publishCancellation, scheduled
    redis,      \* whether Redis is available
    tab,        \* the tab: the run it reads, its mutations, what comes after them, its turn
    shown,      \* the tab: the answers it shows
    stale,      \* a request to resume found no producer and is about to clear the row
    discarded,  \* observer: answers that the user gave up, until the tab stores them
    ordered,    \* observer: no turn reached into another one
    faults

messages == <<stored, trailing, asked>>
vars == <<row, messages, run, starting, published, redis, tab, shown, stale,
          discarded, ordered, faults>>

-----------------------------------------------------------------------------
(* Types *)

\* The runs, in the order in which they were asked for.
Run == 1..Requests
NoRun == 0

PCs == {"none", "posted", "opening", "streaming", "clearing", "saving", "done", "dead"}
Listening == {"none", "pubsub", "broken", "poll"}

\* What a handler holds: whether it saves a user message and of which turn, how
\* it listens, the cancellation that aborted it, skipSave, isPreemptive; and the
\* cancellation that its save met (observer).
Handler == [pc: PCs, sends: BOOLEAN, turn: Nat, listen: Listening, cut: Run \cup {NoRun},
            skip: BOOLEAN, timer: BOOLEAN, refused: Run \cup {NoRun}]
Idle == [pc |-> "none", sends |-> FALSE, turn |-> 0, listen |-> "none", cut |-> NoRun,
         skip |-> FALSE, timer |-> FALSE, refused |-> NoRun]

Mutation == [op: {"save", "cancel"}, of: Run, skip: BOOLEAN]
            \cup [op: {"delete"}, of: {NoRun}, skip: {FALSE}]
Row == [stream: Run \cup {NoRun}, canceled: Run \cup {NoRun}]
Cleared == [stream |-> NoRun, canceled |-> NoRun]
Tab == [view: Run \cup {NoRun}, queue: Seq(Mutation), then: {"nothing", "send", "regenerate"},
        turn: Nat]

Init ==
    /\ row = Cleared
    /\ stored = {} /\ trailing = {} /\ asked = 0
    /\ run = [g \in Run |-> Idle]
    /\ starting = {}
    /\ published = {}
    /\ redis = TRUE
    /\ tab = [view |-> NoRun, queue |-> <<>>, then |-> "nothing", turn |-> 0]
    /\ shown = {}
    /\ stale = FALSE
    /\ discarded = {}
    /\ ordered = TRUE
    /\ faults = 0

\* Something goes wrong: a handler dies, its time runs out, Redis fails, the page is
\* loaded anew.
Fault == faults < MaxFaults /\ faults' = faults + 1

Goes(g, pc) == run' = [run EXCEPT ![g].pc = pc]
NoMessage == UNCHANGED messages
NoStop == UNCHANGED <<published, redis>>
Observed == UNCHANGED <<discarded, ordered, faults>>
Tabbed == UNCHANGED <<tab, shown>>

-----------------------------------------------------------------------------
(* The handler *)

Aborted(q) == q.cut # NoRun \/ q.timer

\* handleInitialChatAndUserMessage: saveMessage of the user clears the mark.
SaveUser(g) ==
    /\ run[g].pc = "posted"
    /\ Goes(g, "opening")
    /\ IF run[g].sends
       THEN /\ row' = [row EXCEPT !.canceled = NoRun]
            /\ asked' = run[g].turn
            /\ trailing' = {}
            /\ ordered' = (ordered /\ asked < run[g].turn)
            /\ UNCHANGED stored
       ELSE UNCHANGED <<row, ordered>> /\ NoMessage
    /\ UNCHANGED <<starting, stale, discarded, faults>> /\ NoStop /\ Tabbed

\* Mutant of Subscribe: the handler relies on Redis.
SubscribeOnly(g) ==
    /\ run[g].pc = "opening"
    /\ run' = [run EXCEPT ![g].pc = "streaming", ![g].listen = "pubsub"]
    /\ starting' = starting \cup {g}
    /\ UNCHANGED <<row, stale>> /\ NoMessage /\ NoStop /\ Observed /\ Tabbed
\* createCancellationSubscriber, after which the stream begins and startStream
\* is called beside it.
Subscribe(g) ==
    /\ run[g].pc = "opening"
    /\ run' = [run EXCEPT ![g].pc = "streaming",
                          ![g].listen = IF redis THEN "pubsub" ELSE "poll"]
    /\ starting' = starting \cup {g}
    /\ UNCHANGED <<row, stale>> /\ NoMessage /\ NoStop /\ Observed /\ Tabbed

\* startStream: the stream is registered and the mark is cleared, whenever the
\* mutation is executed.
StartStream(g) ==
    /\ g \in starting
    /\ starting' = starting \ {g}
    /\ row' = [stream |-> g, canceled |-> NoRun]
    /\ UNCHANGED <<run, stale>> /\ NoMessage /\ NoStop /\ Observed /\ Tabbed

\* startPollingFallback: the connection of the subscriber has failed.
FallBack(g) ==
    /\ run[g].listen = "broken" /\ ~Aborted(run[g])
    /\ run' = [run EXCEPT ![g].listen = "poll"]
    /\ UNCHANGED <<row, starting, stale>> /\ NoMessage /\ NoStop /\ Observed /\ Tabbed

\* createCancellationPoller: the mark is seen, whoever set it.
Poll(g) ==
    /\ run[g].listen = "poll" /\ ~Aborted(run[g])
    /\ row.canceled # NoRun
    /\ run' = [run EXCEPT ![g].cut = row.canceled]
    /\ UNCHANGED <<row, starting, stale>> /\ NoMessage /\ NoStop /\ Observed /\ Tabbed

\* createPreemptiveTimeout: the time of the request runs out.
TimeOut(g) ==
    /\ run[g].pc = "streaming" /\ ~run[g].timer
    /\ Fault
    /\ run' = [run EXCEPT ![g].timer = TRUE]
    /\ UNCHANGED <<row, starting, stale, discarded, ordered>> /\ NoMessage /\ NoStop /\ Tabbed

\* Mutant of Finish: the subscriber is not stopped.
FinishListening(g) ==
    /\ run[g].pc = "streaming"
    /\ Goes(g, "clearing")
    /\ UNCHANGED <<row, starting, stale>> /\ NoMessage /\ NoStop /\ Observed /\ Tabbed
\* onFinish: the answer is complete or was aborted; nobody listens any more.
Finish(g) ==
    /\ run[g].pc = "streaming"
    /\ run' = [run EXCEPT ![g].pc = "clearing", ![g].listen = "none"]
    /\ UNCHANGED <<row, starting, stale>> /\ NoMessage /\ NoStop /\ Observed /\ Tabbed

\* updateChat, prepareForNewStream: the row is cleared, whichever run it is about.
Clear(g) ==
    /\ run[g].pc = "clearing"
    /\ row' = Cleared
    /\ Goes(g, "saving")
    /\ UNCHANGED <<starting, stale>> /\ NoMessage /\ NoStop /\ Observed /\ Tabbed

\* shouldSkipAbortedMessageSave, for an answer with content
SkipsSave(q) == q.skip /\ q.cut # NoRun /\ ~q.timer

\* Mutants of UpdateOnly: the poll never hears of skipSave; the time ran out.
UpdateNever(q) == FALSE
UpdateWhenAborted(q) == Aborted(q)
\* shouldUseUpdateOnlyForAbortedSave
UpdateOnly(q) == q.cut # NoRun /\ ~q.timer

Store(g) ==
    /\ stored' = stored \cup {g}
    /\ trailing' = IF g \in stored THEN trailing ELSE trailing \cup {g}
    /\ ordered' = (ordered /\ run[g].turn = asked)
    /\ UNCHANGED asked

\* saveMessage of the answer: nothing of an answer that is stored is replaced,
\* and none is stored anew in a chat that is marked as canceled.
Save(g) ==
    LET q == run[g] IN
    /\ q.pc = "saving"
    /\ IF SkipsSave(q) \/ UpdateOnly(q) \/ g \in stored
       THEN UNCHANGED <<messages, ordered>> /\ Goes(g, "done")
       ELSE IF row.canceled # NoRun
       THEN /\ UNCHANGED <<messages, ordered>>
            /\ run' = [run EXCEPT ![g].pc = "done", ![g].refused = row.canceled]
       ELSE Store(g) /\ Goes(g, "done")
    /\ UNCHANGED <<row, starting, stale, discarded, faults>> /\ NoStop /\ Tabbed

\* The handler throws or its function is killed.
Die(g) ==
    /\ run[g].pc \in {"posted", "opening", "streaming", "clearing", "saving"}
    /\ Fault
    /\ run' = [run EXCEPT ![g].pc = "dead", ![g].listen = "none"]
    /\ UNCHANGED <<row, starting, stale, discarded, ordered>> /\ NoMessage /\ NoStop /\ Tabbed

Handles(g) ==
    \/ SaveUser(g) \/ Subscribe(g) \/ StartStream(g) \/ FallBack(g) \/ Poll(g)
    \/ TimeOut(g) \/ Finish(g) \/ Clear(g) \/ Save(g) \/ Die(g)

-----------------------------------------------------------------------------
(* Redis *)

\* The connections of all subscribers fail.
RedisFails ==
    /\ redis
    /\ Fault
    /\ redis' = FALSE
    /\ run' = [g \in Run |-> [run[g] EXCEPT !.listen = IF @ = "pubsub" THEN "broken" ELSE @]]
    /\ UNCHANGED <<row, starting, published, stale, discarded, ordered>> /\ NoMessage /\ Tabbed

RedisRecovers ==
    /\ ~redis
    /\ redis' = TRUE
    /\ UNCHANGED <<row, run, starting, published, stale>> /\ NoMessage /\ Observed /\ Tabbed

\* publishCancellation: whoever subscribes at this moment aborts; nobody hears
\* it later.
Publish(m) ==
    /\ m \in published
    /\ published' = published \ {m}
    /\ run' = [g \in Run |->
                 IF redis /\ run[g].listen = "pubsub" /\ ~Aborted(run[g])
                 THEN [run[g] EXCEPT !.cut = m.of, !.skip = m.skip]
                 ELSE run[g]]
    /\ UNCHANGED <<row, starting, redis, stale>> /\ NoMessage /\ Observed /\ Tabbed

-----------------------------------------------------------------------------
(* The tab *)

Does(op, g, skip) == <<[op |-> op, of |-> g, skip |-> skip]>>
Ready == tab.then = "nothing" /\ tab.view = NoRun

\* The next request to /api/chat, for the turn at hand or a new one.
Posts(g, sends) ==
    /\ run[g].pc = "none" /\ \A h \in Run : h < g => run[h].pc # "none"
    /\ LET turn == tab.turn + (IF sends THEN 1 ELSE 0) IN
       /\ run' = [run EXCEPT ![g] = [Idle EXCEPT !.pc = "posted", !.sends = sends, !.turn = turn]]
       /\ tab' = [tab EXCEPT !.view = g, !.then = "nothing", !.turn = turn]

\* handleSubmit, when no answer is being streamed.
Send(g) ==
    /\ Ready
    /\ Posts(g, TRUE)
    /\ UNCHANGED <<row, starting, stale, shown>> /\ NoMessage /\ NoStop /\ Observed

\* The answer is being shown.
See(g) ==
    /\ tab.view = g
    /\ run[g].pc \in {"streaming", "clearing", "saving"}
    /\ shown' = shown \cup {g}
    /\ UNCHANGED <<row, run, starting, stale, tab>> /\ NoMessage /\ NoStop /\ Observed

\* The stream has ended.
StreamEnds ==
    /\ tab.view # NoRun
    /\ run[tab.view].pc \in {"done", "dead"}
    /\ tab' = [tab EXCEPT !.view = NoRun]
    /\ UNCHANGED <<row, run, starting, stale, shown>> /\ NoMessage /\ NoStop /\ Observed

\* stopActiveStream without skipSave: what is shown is saved, and the run is
\* canceled. handleStop waits for neither; to send another message at once
\* (handleSendNow, handleSubmit) both are awaited.
Stop(then) ==
    LET g == tab.view IN
    /\ tab.then = "nothing" /\ g # NoRun
    /\ tab' = [tab EXCEPT !.view = NoRun, !.then = then,
                          !.queue = @ \o (IF g \in shown THEN Does("save", g, FALSE) ELSE <<>>)
                                      \o Does("cancel", g, FALSE)]
    /\ discarded' = IF g \in shown THEN discarded ELSE discarded \cup {g}
    /\ UNCHANGED <<row, run, starting, stale, shown, ordered, faults>> /\ NoMessage /\ NoStop

\* The runs of the turn at hand.
OfTurn == {g \in Run : run[g].pc # "none" /\ run[g].turn = tab.turn}

\* handleRegenerate, handleRetry: the run that is under way is canceled, with
\* skipSave; the answers to the last message are deleted if any is shown.
Replace ==
    LET g == tab.view IN
    /\ tab.then = "nothing" /\ tab.turn > 0
    /\ tab' = [tab EXCEPT !.view = NoRun, !.then = "regenerate",
                          !.queue = @ \o (IF g # NoRun THEN Does("cancel", g, TRUE) ELSE <<>>)
                                      \o (IF shown \cap OfTurn # {} THEN Does("delete", NoRun, FALSE)
                                          ELSE <<>>)]
    /\ shown' = shown \ OfTurn
    /\ discarded' = discarded \cup OfTurn
    /\ UNCHANGED <<row, run, starting, stale, ordered, faults>> /\ NoMessage /\ NoStop

\* The user has asked for another answer in place of this one (observer).
Replaced(g) == tab.then = "regenerate" /\ g \in OfTurn

\* The mutations are done: the next request is made.
Proceed(g) ==
    /\ tab.then # "nothing" /\ tab.queue = <<>>
    /\ Posts(g, tab.then = "send")
    /\ ordered' = (ordered /\ (tab.then = "regenerate" => asked = tab.turn))
    /\ UNCHANGED <<row, starting, stale, shown, discarded, faults>> /\ NoMessage /\ NoStop

\* cancelStreamFromClient: the mark, and the publication in any case.
CancelStream(m) ==
    /\ row' = IF row.stream # NoRun \/ row.canceled = NoRun
              THEN [stream |-> NoRun, canceled |-> m.of] ELSE row
    /\ published' = published \cup {[of |-> m.of, skip |-> m.skip]}
    /\ NoMessage /\ UNCHANGED <<discarded, ordered>>

\* saveAssistantMessage: the first who stores the answer wins.
SaveShown(m) ==
    /\ Store(m.of)
    /\ discarded' = IF Replaced(m.of) THEN discarded ELSE discarded \ {m.of}
    /\ UNCHANGED <<row, published>>

\* deleteLastAssistantMessage: the answers after the last user message.
DeleteTrailing ==
    /\ stored' = stored \ trailing
    /\ trailing' = {}
    /\ ordered' = (ordered /\ asked = tab.turn)
    /\ UNCHANGED <<row, published, asked, discarded>>

\* The next mutation of the tab is executed.
Mutate ==
    /\ tab.queue # <<>>
    /\ tab' = [tab EXCEPT !.queue = Tail(@)]
    /\ LET m == Head(tab.queue) IN
       \/ m.op = "cancel" /\ CancelStream(m)
       \/ m.op = "save" /\ SaveShown(m)
       \/ m.op = "delete" /\ DeleteTrailing
    /\ UNCHANGED <<run, starting, redis, stale, shown, faults>>

\* The page is loaded anew: what was not done is lost, what is stored is shown.
\* An answer that is still due is resumed (useAutoResume and the route behind
\* it), unless its producer cannot be reached.
Load ==
    LET g == row.stream
        due == g # NoRun /\ trailing = {}
        live == due /\ redis /\ run[g].pc \in {"streaming", "clearing", "saving"}
    IN
    /\ tab' = [tab EXCEPT !.view = IF live THEN g ELSE NoRun, !.queue = <<>>, !.then = "nothing",
                          !.turn = asked]
    /\ shown' = stored
    /\ stale' = (stale \/ (due /\ ~live))
    /\ discarded' = discarded \ stored
    /\ ordered' = (ordered /\ (live => run[g].turn = asked))
    /\ Fault
    /\ UNCHANGED <<row, run, starting>> /\ NoMessage /\ NoStop

\* clearStaleActiveStream
ClearStale ==
    /\ stale
    /\ stale' = FALSE
    /\ row' = Cleared
    /\ UNCHANGED <<run, starting>> /\ NoMessage /\ NoStop /\ Observed /\ Tabbed

Uses(g) == Send(g) \/ See(g) \/ Proceed(g)
-----------------------------------------------------------------------------

Next ==
    \/ \E g \in Run : Handles(g) \/ Uses(g)
    \/ \E m \in published : Publish(m)
    \/ \E then \in {"nothing", "send"} : Stop(then)
    \/ StreamEnds \/ Replace \/ Mutate \/ Load \/ ClearStale
    \/ RedisFails \/ RedisRecovers

Spec == Init /\ [][Next]_vars

-----------------------------------------------------------------------------
(* Properties *)

\* Types; and a handler listens only while it streams.
TypeOK ==
    /\ row \in Row
    /\ stored \subseteq Run /\ trailing \subseteq stored /\ asked \in Nat
    /\ run \in [Run -> Handler]
    /\ starting \subseteq Run
    /\ published \subseteq [of: Run, skip: BOOLEAN]
    /\ redis \in BOOLEAN /\ stale \in BOOLEAN /\ ordered \in BOOLEAN
    /\ tab \in Tab
    /\ shown \subseteq Run /\ discarded \subseteq Run
    /\ faults \in 0..MaxFaults
    /\ \A g \in Run : run[g].listen # "none" <=> run[g].pc = "streaming"

\* An answer that the user replaced, or stopped before it said anything, does
\* not come back once its run was aborted for that, whether the handler heard of
\* skipSave, or only saw the mark ("Safety net for aborted streams when Redis
\* skipSave signal was missed").
DiscardedIsGone ==
    ordered /\ tab.queue = <<>> =>
        \A g \in discarded : run[g].cut # NoRun /\ ~run[g].timer => g \notin stored

\* An answer that the user has not given up is kept once its run has ended: the
\* tab or the handler has stored it, whoever came first and however it ended. Only
\* a cancellation that was meant for another run can cut it short or refuse it.
FinishedIsKept ==
    ordered =>
        \A g \in Run \ discarded :
            (/\ run[g].pc = "done"
             /\ run[g].cut \in {g, NoRun}
             /\ run[g].refused \in {g, NoRun})
            => g \in stored

\* A handler whose stream is registered hears of a stop for as long as the mark
\* stands, although Redis may fail before, between and after: it polls the mark,
\* or is about to, or it subscribes and a publication is still to come.
StopIsHeard ==
    \A g \in Run :
        (/\ row.canceled # NoRun
         /\ run[g].pc = "streaming" /\ g \notin starting
         /\ ~Aborted(run[g]))
        => \/ run[g].listen \in {"broken", "poll"}
           \/ run[g].listen = "pubsub" /\ redis /\ published # {}
=============================================================================
