-------------------------- MODULE ChatStream_proofs --------------------------
(***************************************************************************)
(* What holds of the streams of a chat for any number of requests and      *)
(* faults: the types; that no handler misses a stop while its mark stands; *)
(* that an answer that was given up does not come back; and that one that  *)
(* was not given up is kept. That a stop is heard needs to know that a     *)
(* handler relies on its subscription only while Redis is available. The   *)
(* arguments on the answers stand before their sections.                   *)
(***************************************************************************)
EXTENDS ChatStream, SequenceTheorems, TLAPS

\* Nobody relies on a connection that has failed.
SubscribedToRedis == \A g \in Run : run[g].listen = "pubsub" => redis

\* StopIsHeard is inductive with it.
Inv == TypeOK /\ SubscribedToRedis /\ StopIsHeard

\* A handler that listens only while it streams.
Sound == {q \in Handler : q.listen # "none" <=> q.pc = "streaming"}

\* What TypeOK says of everything but the handlers.
RestOK ==
  /\ row \in Row
  /\ stored \subseteq Run /\ trailing \subseteq stored /\ asked \in Nat
  /\ starting \subseteq Run
  /\ published \subseteq [of: Run, skip: BOOLEAN]
  /\ redis \in BOOLEAN /\ stale \in BOOLEAN /\ ordered \in BOOLEAN
  /\ tab \in Tab
  /\ shown \subseteq Run /\ discarded \subseteq Run
  /\ faults \in 0..MaxFaults

LEMMA Split == TypeOK <=> run \in [Run -> Sound] /\ RestOK
BY DEF TypeOK, Sound, RestOK

LEMMA SplitNext == TypeOK' <=> (run \in [Run -> Sound] /\ RestOK)'
BY DEF TypeOK, Sound, RestOK

\* What becomes of a handler, shape by shape.
LEMMA Shapes ==
  ASSUME NEW q \in Sound
  PROVE  /\ \A v \in PCs : (q.pc # "streaming" /\ v # "streaming") => [q EXCEPT !.pc = v] \in Sound
         /\ \A l \in Listening \ {"none"} :
              (q.pc = "streaming" => [q EXCEPT !.listen = l] \in Sound)
              /\ [q EXCEPT !.pc = "streaming", !.listen = l] \in Sound
         /\ \A v \in PCs \ {"streaming"} : [q EXCEPT !.pc = v, !.listen = "none"] \in Sound
         /\ \A c \in Run \cup {NoRun} : [q EXCEPT !.cut = c] \in Sound
         /\ \A c \in Run \cup {NoRun}, s \in BOOLEAN : [q EXCEPT !.cut = c, !.skip = s] \in Sound
         /\ \A c \in Run \cup {NoRun} :
              q.pc = "saving" => [q EXCEPT !.pc = "done", !.refused = c] \in Sound
         /\ [q EXCEPT !.timer = TRUE] \in Sound
BY DEF Sound, Handler, Listening, PCs

LEMMA One ==
  ASSUME run \in [Run -> Sound], NEW g \in Run, NEW h \in Sound, run' = [run EXCEPT ![g] = h]
  PROVE  run' \in [Run -> Sound]
OBVIOUS

LEMMA InitIsTyped == Init => TypeOK
<1> SUFFICES ASSUME Init PROVE TypeOK OBVIOUS
<1>1. Idle \in Sound
  BY DEF Idle, Handler, PCs, Listening, Sound
<1>2. run \in [Run -> Sound]
  BY <1>1 DEF Init
<1>3. tab \in Tab
  BY DEF Init, Tab
<1>4. row \in Row
  BY DEF Init, Row, Cleared
<1>5. faults \in 0..MaxFaults
  BY ChatAssumption DEF Init
<1>6. RestOK
  BY <1>3, <1>4, <1>5 DEF Init, RestOK
<1> QED BY <1>2, <1>6, Split

LEMMA HandlerIsTyped ==
  ASSUME TypeOK, NEW g \in Run, Handles(g)
  PROVE  TypeOK'
<1> USE DEF RestOK, NoMessage, NoStop, Observed, Tabbed, messages
<1>q. run \in [Run -> Sound] /\ run[g] \in Sound /\ RestOK
  BY Split
<1>1. CASE SaveUser(g)
  <2>1. run' = [run EXCEPT ![g] = [run[g] EXCEPT !.pc = "opening"]] /\ run[g].pc = "posted"
    BY <1>1 DEF SaveUser, Goes
  <2>2. run' \in [Run -> Sound]
    BY <1>q, <2>1, One, Shapes DEF PCs
  <2>3. row' \in Row
    BY <1>1, <1>q DEF SaveUser, Row
  <2>4. asked' \in Nat /\ stored' = stored /\ trailing' \subseteq stored
    BY <1>1, <1>q DEF SaveUser, Handler, Sound
  <2>5. ordered' \in BOOLEAN
    BY <1>1, <1>q DEF SaveUser
  <2>6. RestOK'
    BY <1>1, <1>q, <2>3, <2>4, <2>5 DEF SaveUser
  <2> QED BY <2>2, <2>6, SplitNext
<1>2. CASE Subscribe(g)
  <2> DEFINE l == IF redis THEN "pubsub" ELSE "poll"
  <2>1. run' = [run EXCEPT ![g] = [run[g] EXCEPT !.pc = "streaming", !.listen = l]]
    BY <1>2 DEF Subscribe
  <2>2. l \in Listening \ {"none"}
    BY DEF Listening
  <2> HIDE DEF l
  <2>3. run' \in [Run -> Sound]
    BY <1>q, <2>1, <2>2, One, Shapes
  <2>4. RestOK'
    BY <1>2, <1>q DEF Subscribe
  <2> QED BY <2>3, <2>4, SplitNext
<1>3. CASE StartStream(g)
  <2>1. row' \in Row
    BY <1>3 DEF StartStream, Row
  <2> QED BY <1>3, <1>q, <2>1, SplitNext DEF StartStream
<1>4. CASE FallBack(g)
  <2>1. run[g].pc = "streaming"
    BY <1>4, <1>q DEF FallBack, Sound
  <2>2. run' = [run EXCEPT ![g] = [run[g] EXCEPT !.listen = "poll"]]
    BY <1>4 DEF FallBack
  <2>3. run' \in [Run -> Sound]
    BY <1>q, <2>1, <2>2, One, Shapes DEF Listening
  <2> QED BY <1>4, <1>q, <2>3, SplitNext DEF FallBack
<1>5. CASE Poll(g)
  <2>1. run' = [run EXCEPT ![g] = [run[g] EXCEPT !.cut = row.canceled]]
    BY <1>5 DEF Poll
  <2>2. row.canceled \in Run \cup {NoRun}
    BY <1>q DEF Row
  <2>3. run' \in [Run -> Sound]
    BY <1>q, <2>1, <2>2, One, Shapes
  <2> QED BY <1>5, <1>q, <2>3, SplitNext DEF Poll
<1>6. CASE TimeOut(g)
  <2>1. run' = [run EXCEPT ![g] = [run[g] EXCEPT !.timer = TRUE]]
    BY <1>6 DEF TimeOut
  <2>2. run' \in [Run -> Sound]
    BY <1>q, <2>1, One, Shapes
  <2>3. faults' \in 0..MaxFaults
    BY <1>6, <1>q, ChatAssumption DEF TimeOut, Fault
  <2> QED BY <1>6, <1>q, <2>2, <2>3, SplitNext DEF TimeOut
<1>7. CASE Finish(g)
  <2>1. run' = [run EXCEPT ![g] = [run[g] EXCEPT !.pc = "clearing", !.listen = "none"]]
    BY <1>7 DEF Finish
  <2>2. run' \in [Run -> Sound]
    BY <1>q, <2>1, One, Shapes DEF PCs
  <2> QED BY <1>7, <1>q, <2>2, SplitNext DEF Finish
<1>8. CASE Clear(g)
  <2>1. run' = [run EXCEPT ![g] = [run[g] EXCEPT !.pc = "saving"]] /\ run[g].pc = "clearing"
    BY <1>8 DEF Clear, Goes
  <2>2. run' \in [Run -> Sound]
    BY <1>q, <2>1, One, Shapes DEF PCs
  <2>3. row' \in Row
    BY <1>8 DEF Clear, Cleared, Row
  <2> QED BY <1>8, <1>q, <2>2, <2>3, SplitNext DEF Clear
<1>9. CASE Save(g)
  <2>1. /\ run[g].pc = "saving"
        /\ \/ run' = [run EXCEPT ![g] = [run[g] EXCEPT !.pc = "done"]]
           \/ run' = [run EXCEPT ![g] = [run[g] EXCEPT !.pc = "done", !.refused = row.canceled]]
    BY <1>9 DEF Save, Goes
  <2>2. row.canceled \in Run \cup {NoRun}
    BY <1>q DEF Row
  <2>3. run' \in [Run -> Sound]
    BY <1>q, <2>1, <2>2, One, Shapes DEF PCs
  <2>4. stored' \subseteq Run /\ trailing' \subseteq stored' /\ asked' \in Nat /\ ordered' \in BOOLEAN
    BY <1>9, <1>q DEF Save, Store
  <2> QED BY <1>9, <1>q, <2>3, <2>4, SplitNext DEF Save
<1>10. CASE Die(g)
  <2>1. run' = [run EXCEPT ![g] = [run[g] EXCEPT !.pc = "dead", !.listen = "none"]]
    BY <1>10 DEF Die
  <2>2. run' \in [Run -> Sound]
    BY <1>q, <2>1, One, Shapes DEF PCs
  <2>3. faults' \in 0..MaxFaults
    BY <1>10, <1>q, ChatAssumption DEF Die, Fault
  <2> QED BY <1>10, <1>q, <2>2, <2>3, SplitNext DEF Die
<1> QED BY <1>1, <1>2, <1>3, <1>4, <1>5, <1>6, <1>7, <1>8, <1>9, <1>10 DEF Handles

LEMMA RedisIsTyped ==
  ASSUME TypeOK, RedisFails \/ RedisRecovers \/ \E m \in published : Publish(m)
  PROVE  TypeOK'
<1> USE DEF RestOK, NoMessage, NoStop, Observed, Tabbed, messages
<1>q. run \in [Run -> Sound] /\ RestOK
  BY Split
<1>1. CASE RedisFails
  <2>1. \A g \in Run :
          [run[g] EXCEPT !.listen = IF @ = "pubsub" THEN "broken" ELSE @] \in Sound
    BY <1>q DEF Sound, Handler, Listening
  <2>2. run' \in [Run -> Sound]
    BY <1>1, <2>1 DEF RedisFails
  <2>3. faults' \in 0..MaxFaults
    BY <1>1, <1>q, ChatAssumption DEF RedisFails, Fault
  <2> QED BY <1>1, <1>q, <2>2, <2>3, SplitNext DEF RedisFails
<1>2. CASE RedisRecovers
  BY <1>2, <1>q, SplitNext DEF RedisRecovers
<1>3. CASE \E m \in published : Publish(m)
  <2>1. PICK m \in published : Publish(m)
    BY <1>3
  <2>2. m.of \in Run \cup {NoRun} /\ m.skip \in BOOLEAN
    BY <1>q
  <2>3. \A g \in Run : [run[g] EXCEPT !.cut = m.of, !.skip = m.skip] \in Sound
    BY <1>q, <2>2, Shapes
  <2>4. run' \in [Run -> Sound]
    BY <1>q, <2>1, <2>3 DEF Publish
  <2> QED BY <1>q, <2>1, <2>4, SplitNext DEF Publish
<1> QED BY <1>1, <1>2, <1>3

LEMMA TabIsTyped ==
  ASSUME TypeOK,
         \/ \E g \in Run : Uses(g)
         \/ \E then \in {"nothing", "send"} : Stop(then)
         \/ StreamEnds \/ Replace \/ Mutate \/ Load \/ ClearStale
  PROVE  TypeOK'
<1> USE DEF RestOK, NoMessage, NoStop, Observed, Tabbed, messages
<1>q. run \in [Run -> Sound] /\ RestOK
  BY Split
<1>s. /\ \A op \in {"save", "cancel"}, g \in Run, skip \in BOOLEAN :
           Does(op, g, skip) \in Seq(Mutation)
      /\ Does("delete", NoRun, FALSE) \in Seq(Mutation)
  BY DEF Does, Mutation
<1>e. <<>> \in Seq(Mutation)
  BY EmptySeq
<1>p. \A g \in Run, sends \in BOOLEAN :
        Posts(g, sends) => run' \in [Run -> Sound] /\ tab' \in Tab
  <2> SUFFICES ASSUME NEW g \in Run, NEW sends \in BOOLEAN, Posts(g, sends)
               PROVE  run' \in [Run -> Sound] /\ tab' \in Tab
    OBVIOUS
  <2> DEFINE turn == tab.turn + (IF sends THEN 1 ELSE 0)
  <2>1. turn \in Nat
    BY <1>q DEF Tab
  <2>2. [Idle EXCEPT !.pc = "posted", !.sends = sends, !.turn = turn] \in Sound
    BY <2>1 DEF Idle, Sound, Handler, PCs, Listening
  <2>3. run' \in [Run -> Sound]
    BY <1>q, <2>2, One DEF Posts
  <2>4. tab' \in Tab
    BY <1>q, <2>1 DEF Posts, Tab
  <2> QED BY <2>3, <2>4
<1>1. ASSUME NEW g \in Run, Send(g) PROVE TypeOK'
  BY <1>1, <1>p, <1>q, SplitNext DEF Send
<1>2. ASSUME NEW g \in Run, See(g) PROVE TypeOK'
  BY <1>2, <1>q, SplitNext DEF See
<1>3. ASSUME NEW g \in Run, Proceed(g) PROVE TypeOK'
  <2>1. ordered' \in BOOLEAN
    BY <1>3, <1>q DEF Proceed
  <2>2. Posts(g, tab.then = "send")
    BY <1>3 DEF Proceed
  <2>3. run' \in [Run -> Sound] /\ tab' \in Tab
    BY <1>p, <2>2
  <2> QED BY <1>3, <1>q, <2>1, <2>3, SplitNext DEF Proceed
<1>4. ASSUME NEW then \in {"nothing", "send"}, Stop(then) PROVE TypeOK'
  <2> DEFINE g == tab.view
             saved == IF g \in shown THEN Does("save", g, FALSE) ELSE <<>>
             queue == tab.queue \o saved \o Does("cancel", g, FALSE)
  <2>1. g \in Run
    BY <1>4, <1>q DEF Stop, Tab
  <2>2. saved \in Seq(Mutation) /\ Does("cancel", g, FALSE) \in Seq(Mutation)
    BY <1>s, <1>e, <2>1
  <2>3. queue \in Seq(Mutation)
    <3> HIDE DEF saved
    <3>1. tab.queue \in Seq(Mutation)
      BY <1>q DEF Tab
    <3>2. tab.queue \o saved \in Seq(Mutation)
      BY <2>2, <3>1, ConcatProperties
    <3> QED BY <2>2, <3>2, ConcatProperties
  <2>4. tab' = [tab EXCEPT !.view = NoRun, !.then = then, !.queue = queue]
    BY <1>4 DEF Stop
  <2> HIDE DEF queue
  <2>5. tab' \in Tab
    BY <1>q, <2>3, <2>4 DEF Tab
  <2> QED BY <1>4, <1>q, <2>1, <2>5, SplitNext DEF Stop
<1>5. CASE StreamEnds
  <2>1. tab' \in Tab
    BY <1>5, <1>q DEF StreamEnds, Tab
  <2> QED BY <1>5, <1>q, <2>1, SplitNext DEF StreamEnds
<1>6. CASE Replace
  <2> DEFINE g == tab.view
             canceled == IF g # NoRun THEN Does("cancel", g, TRUE) ELSE <<>>
             deleted == IF shown \cap OfTurn # {} THEN Does("delete", NoRun, FALSE) ELSE <<>>
             queue == tab.queue \o canceled \o deleted
  <2>1. canceled \in Seq(Mutation) /\ deleted \in Seq(Mutation)
    BY <1>q, <1>s, <1>e DEF Tab
  <2>2. queue \in Seq(Mutation)
    <3> HIDE DEF canceled, deleted
    <3>1. tab.queue \in Seq(Mutation)
      BY <1>q DEF Tab
    <3>2. tab.queue \o canceled \in Seq(Mutation)
      BY <2>1, <3>1, ConcatProperties
    <3> QED BY <2>1, <3>2, ConcatProperties
  <2>3. tab' = [tab EXCEPT !.view = NoRun, !.then = "regenerate", !.queue = queue]
    BY <1>6 DEF Replace
  <2> HIDE DEF queue
  <2>4. tab' \in Tab
    BY <1>q, <2>2, <2>3 DEF Tab
  <2>5. shown' \subseteq Run /\ discarded' \subseteq Run
    BY <1>6, <1>q DEF Replace, OfTurn
  <2> QED BY <1>6, <1>q, <2>4, <2>5, SplitNext DEF Replace
<1>7. CASE Mutate
  <2> DEFINE m == Head(tab.queue)
  <2>1. tab' \in Tab /\ m \in Mutation
    <3>1. tab.queue \in Seq(Mutation) /\ tab.queue # <<>>
      BY <1>7, <1>q DEF Mutate, Tab
    <3>2. Tail(tab.queue) \in Seq(Mutation) /\ m \in Mutation
      BY <3>1, HeadTailProperties
    <3>3. tab' = [tab EXCEPT !.queue = Tail(tab.queue)]
      BY <1>7 DEF Mutate
    <3> QED BY <1>q, <3>2, <3>3 DEF Tab
  <2>2. CASE m.op = "cancel" /\ CancelStream(m)
    <3>1. m.of \in Run /\ m.skip \in BOOLEAN
      BY <2>1, <2>2 DEF Mutation
    <3>2. row' \in Row
      BY <1>q, <2>2, <3>1 DEF CancelStream, Row
    <3>3. published' \subseteq [of: Run, skip: BOOLEAN]
      BY <1>q, <2>2, <3>1 DEF CancelStream
    <3> QED BY <1>7, <1>q, <2>1, <2>2, <3>2, <3>3, SplitNext DEF Mutate, CancelStream
  <2>3. CASE m.op = "save" /\ SaveShown(m)
    <3>1. m.of \in Run
      BY <2>1, <2>3 DEF Mutation
    <3>2. stored' \subseteq Run /\ trailing' \subseteq stored' /\ asked' \in Nat /\ ordered' \in BOOLEAN
      BY <1>q, <2>3, <3>1 DEF SaveShown, Store
    <3> QED BY <1>7, <1>q, <2>1, <2>3, <3>2, SplitNext DEF Mutate, SaveShown
  <2>4. CASE m.op = "delete" /\ DeleteTrailing
    BY <1>7, <1>q, <2>1, <2>4, SplitNext DEF Mutate, DeleteTrailing
  <2> QED BY <1>7, <2>2, <2>3, <2>4 DEF Mutate
<1>8. CASE Load
  <2> DEFINE live == /\ row.stream # NoRun /\ trailing = {}
                     /\ redis /\ run[row.stream].pc \in {"streaming", "clearing", "saving"}
             view == IF live THEN row.stream ELSE NoRun
  <2>0. view \in Run \cup {NoRun}
    BY <1>q DEF Row
  <2>1. tab' \in Tab
    <3>1. tab' = [tab EXCEPT !.view = view, !.queue = <<>>, !.then = "nothing", !.turn = asked]
      BY <1>8 DEF Load
    <3> HIDE DEF view
    <3> QED BY <1>e, <1>q, <2>0, <3>1 DEF Tab
  <2> QED BY <1>8, <1>q, <2>1, SplitNext, ChatAssumption DEF Load, Fault
<1>9. CASE ClearStale
  <2>1. row' \in Row
    BY <1>9 DEF ClearStale, Cleared, Row
  <2> QED BY <1>9, <1>q, <2>1, SplitNext DEF ClearStale
<1> QED BY <1>1, <1>2, <1>3, <1>4, <1>5, <1>6, <1>7, <1>8, <1>9 DEF Uses

LEMMA StepIsTyped == TypeOK /\ [Next]_vars => TypeOK'
<1> SUFFICES ASSUME TypeOK, [Next]_vars PROVE TypeOK' OBVIOUS
<1>1. CASE Next
  BY <1>1, HandlerIsTyped, RedisIsTyped, TabIsTyped DEF Next, Uses
<1>2. CASE UNCHANGED vars
  BY <1>2 DEF vars, messages, TypeOK
<1> QED BY <1>1, <1>2

\* Every reachable state is well typed, and a handler listens only while it
\* streams, for any number of requests and faults.
THEOREM TypeCorrect == Spec => []TypeOK
BY InitIsTyped, StepIsTyped, PTL DEF Spec

-----------------------------------------------------------------------------
(* Stops *)

\* Nothing that a handler listens to has changed.
LEMMA Undisturbed ==
  ASSUME Inv, UNCHANGED <<run, starting, redis>>,
         row'.canceled \in {NoRun, row.canceled}, published \subseteq published'
  PROVE  SubscribedToRedis' /\ StopIsHeard'
BY DEF Inv, SubscribedToRedis, StopIsHeard, Aborted

\* One handler moves, and hears of stops or need not.
LEMMA OneHears ==
  ASSUME Inv, NEW g \in Run, NEW h, run' = [run EXCEPT ![g] = h],
         UNCHANGED <<redis, published>>, starting \ {g} \subseteq starting',
         row'.canceled \in {NoRun, row.canceled},
         h.listen = "pubsub" => redis,
         \/ h.pc # "streaming" \/ Aborted(h) \/ g \in starting'
         \/ row'.canceled = NoRun \/ h.listen \in {"broken", "poll"}
  PROVE  SubscribedToRedis' /\ StopIsHeard'
<1>1. \A k \in Run : run'[k] = IF k = g THEN h ELSE run[k]
  BY DEF Inv, TypeOK
<1>2. SubscribedToRedis'
  BY <1>1 DEF Inv, SubscribedToRedis
<1>3. StopIsHeard'
  BY <1>1 DEF Inv, StopIsHeard, Aborted
<1> QED BY <1>2, <1>3

LEMMA HandlerHears ==
  ASSUME Inv, NEW g \in Run, Handles(g)
  PROVE  SubscribedToRedis' /\ StopIsHeard'
<1> USE DEF NoMessage, NoStop, Observed, Tabbed, messages
<1>q. run \in [Run -> Sound] /\ run[g] \in Sound /\ RestOK
  BY Split DEF Inv
<1>p. run[g].listen = "pubsub" => redis
  BY DEF Inv, SubscribedToRedis
<1>1. CASE SaveUser(g)
  <2> DEFINE h == [run[g] EXCEPT !.pc = "opening"]
  <2>1. run' = [run EXCEPT ![g] = h] /\ UNCHANGED <<redis, published, starting>>
    BY <1>1 DEF SaveUser, Goes
  <2>2. h.pc = "opening" /\ h.listen = run[g].listen
    BY <1>q DEF Sound, Handler
  <2>3. row'.canceled \in {NoRun, row.canceled}
    BY <1>1, <1>q DEF SaveUser, RestOK, Row
  <2> HIDE DEF h
  <2> QED BY <1>p, <2>1, <2>2, <2>3, OneHears
<1>2. CASE Subscribe(g)
  <2> DEFINE h == [run[g] EXCEPT !.pc = "streaming", !.listen = IF redis THEN "pubsub" ELSE "poll"]
  <2>1. run' = [run EXCEPT ![g] = h] /\ UNCHANGED <<redis, published, row>> /\ starting' = starting \cup {g}
    BY <1>2 DEF Subscribe
  <2>2. h.listen = "pubsub" => redis
    BY <1>q DEF Sound, Handler
  <2> HIDE DEF h
  <2> QED BY <2>1, <2>2, OneHears
<1>3. CASE StartStream(g)
  <2>1. run' = [run EXCEPT ![g] = run[g]]
    BY <1>3, <1>q DEF StartStream
  <2>2. row'.canceled = NoRun /\ starting' = starting \ {g} /\ UNCHANGED <<redis, published>>
    BY <1>3 DEF StartStream
  <2> QED BY <1>p, <2>1, <2>2, OneHears
<1>4. CASE FallBack(g)
  <2> DEFINE h == [run[g] EXCEPT !.listen = "poll"]
  <2>1. run' = [run EXCEPT ![g] = h] /\ UNCHANGED <<redis, published, starting, row>>
    BY <1>4 DEF FallBack
  <2>2. h.listen = "poll"
    BY <1>q DEF Sound, Handler
  <2> HIDE DEF h
  <2> QED BY <2>1, <2>2, OneHears
<1>5. CASE Poll(g)
  <2> DEFINE h == [run[g] EXCEPT !.cut = row.canceled]
  <2>1. run' = [run EXCEPT ![g] = h] /\ UNCHANGED <<redis, published, starting, row>> /\ row.canceled # NoRun
    BY <1>5 DEF Poll
  <2>2. h.cut = row.canceled /\ h.listen = run[g].listen
    BY <1>q DEF Sound, Handler
  <2>3. Aborted(h)
    BY <2>1, <2>2 DEF Aborted
  <2> HIDE DEF h
  <2> QED BY <1>p, <2>1, <2>2, <2>3, OneHears
<1>6. CASE TimeOut(g)
  <2> DEFINE h == [run[g] EXCEPT !.timer = TRUE]
  <2>1. run' = [run EXCEPT ![g] = h] /\ UNCHANGED <<redis, published, starting, row>>
    BY <1>6 DEF TimeOut
  <2>2. h.timer /\ h.listen = run[g].listen
    BY <1>q DEF Sound, Handler
  <2>3. Aborted(h)
    BY <2>2 DEF Aborted
  <2> HIDE DEF h
  <2> QED BY <1>p, <2>1, <2>2, <2>3, OneHears
<1>7. ASSUME NEW pc \in {"clearing", "dead"},
             run' = [run EXCEPT ![g] = [run[g] EXCEPT !.pc = pc, !.listen = "none"]],
             UNCHANGED <<redis, published, starting, row>>
      PROVE  SubscribedToRedis' /\ StopIsHeard'
  <2> DEFINE h == [run[g] EXCEPT !.pc = pc, !.listen = "none"]
  <2>1. h.pc # "streaming" /\ h.listen = "none"
    BY <1>q, <1>7 DEF Sound, Handler
  <2> HIDE DEF h
  <2> QED BY <1>7, <2>1, OneHears DEF h
<1>8. CASE Finish(g)
  BY <1>7, <1>8 DEF Finish
<1>9. CASE Die(g)
  BY <1>7, <1>9 DEF Die
<1>10. CASE Clear(g)
  <2> DEFINE h == [run[g] EXCEPT !.pc = "saving"]
  <2>1. run' = [run EXCEPT ![g] = h] /\ UNCHANGED <<redis, published, starting>>
    BY <1>10 DEF Clear, Goes
  <2>2. h.pc = "saving" /\ h.listen = run[g].listen /\ row'.canceled = NoRun
    BY <1>10, <1>q DEF Sound, Handler, Clear, Cleared
  <2> HIDE DEF h
  <2> QED BY <1>p, <2>1, <2>2, OneHears
<1>11. CASE Save(g)
  <2>1. PICK h \in {[run[g] EXCEPT !.pc = "done"],
                    [run[g] EXCEPT !.pc = "done", !.refused = row.canceled]} :
          run' = [run EXCEPT ![g] = h]
    BY <1>11 DEF Save, Goes
  <2>2. UNCHANGED <<redis, published, starting, row>>
    BY <1>11 DEF Save
  <2>3. h.pc = "done" /\ h.listen = run[g].listen
    BY <1>q, <2>1 DEF Sound, Handler
  <2> QED BY <1>p, <2>1, <2>2, <2>3, OneHears
<1> QED BY <1>1, <1>2, <1>3, <1>4, <1>5, <1>6, <1>8, <1>9, <1>10, <1>11 DEF Handles

LEMMA RedisHears ==
  ASSUME Inv, RedisFails \/ RedisRecovers \/ \E m \in published : Publish(m)
  PROVE  SubscribedToRedis' /\ StopIsHeard'
<1> USE DEF NoMessage, Observed, Tabbed, messages
<1>q. run \in [Run -> Sound] /\ RestOK
  BY Split DEF Inv
<1>1. CASE RedisFails
  <2>1. /\ run' = [g \in Run |-> [run[g] EXCEPT !.listen = IF @ = "pubsub" THEN "broken" ELSE @]]
        /\ UNCHANGED <<row, starting>>
    BY <1>1 DEF RedisFails
  <2>2. ASSUME NEW g \in Run
        PROVE  /\ run'[g].listen = (IF run[g].listen = "pubsub" THEN "broken" ELSE run[g].listen)
               /\ run'[g].pc = run[g].pc /\ run'[g].cut = run[g].cut
               /\ run'[g].timer = run[g].timer
    <3>1. run[g] \in Handler
      BY <1>q DEF Sound
    <3> QED BY <2>1, <3>1 DEF Handler
  <2>3. SubscribedToRedis'
    BY <2>2 DEF SubscribedToRedis
  <2>4. StopIsHeard'
    BY <2>1, <2>2 DEF Inv, StopIsHeard, Aborted
  <2> QED BY <2>3, <2>4
<1>2. CASE RedisRecovers
  BY <1>2 DEF RedisRecovers, Inv, SubscribedToRedis, StopIsHeard, Aborted
<1>3. ASSUME NEW m \in published, Publish(m)
      PROVE  SubscribedToRedis' /\ StopIsHeard'
  <2>1. m.of # NoRun
    BY <1>q, ChatAssumption DEF RestOK, Run, NoRun
  <2>2. /\ run' = [g \in Run |->
                     IF redis /\ run[g].listen = "pubsub" /\ ~Aborted(run[g])
                     THEN [run[g] EXCEPT !.cut = m.of, !.skip = m.skip]
                     ELSE run[g]]
        /\ UNCHANGED <<row, starting, redis>>
    BY <1>3 DEF Publish
  <2>3. ASSUME NEW g \in Run
        PROVE  /\ run'[g].listen = run[g].listen /\ run'[g].pc = run[g].pc
               /\ (redis /\ run[g].listen = "pubsub") => (run'[g].cut # NoRun \/ run'[g].timer)
               /\ (run[g].cut # NoRun \/ run[g].timer) => (run'[g].cut # NoRun \/ run'[g].timer)
    <3>1. run[g] \in Handler
      BY <1>q DEF Sound
    <3> QED BY <2>1, <2>2, <3>1 DEF Handler, Aborted
  <2>4. SubscribedToRedis'
    BY <2>2, <2>3 DEF Inv, SubscribedToRedis
  <2>5. StopIsHeard'
    BY <2>2, <2>3 DEF Inv, StopIsHeard, Aborted
  <2> QED BY <2>4, <2>5
<1> QED BY <1>1, <1>2, <1>3

LEMMA TabHears ==
  ASSUME Inv,
         \/ \E g \in Run : Uses(g)
         \/ \E then \in {"nothing", "send"} : Stop(then)
         \/ StreamEnds \/ Replace \/ Mutate \/ Load \/ ClearStale
  PROVE  SubscribedToRedis' /\ StopIsHeard'
<1> USE DEF NoMessage, NoStop, Observed, Tabbed, messages
<1>q. run \in [Run -> Sound] /\ RestOK
  BY Split DEF Inv
<1>p. ASSUME NEW g \in Run, NEW sends \in BOOLEAN, Posts(g, sends),
             UNCHANGED <<redis, published, starting, row>>
      PROVE  SubscribedToRedis' /\ StopIsHeard'
  <2> DEFINE h == [Idle EXCEPT !.pc = "posted", !.sends = sends,
                               !.turn = tab.turn + (IF sends THEN 1 ELSE 0)]
  <2>1. run' = [run EXCEPT ![g] = h]
    BY <1>p DEF Posts
  <2>2. h.pc = "posted" /\ h.listen = "none"
    BY DEF Idle
  <2> HIDE DEF h
  <2> QED BY <1>p, <2>1, <2>2, OneHears
<1>1. ASSUME NEW g \in Run, Uses(g) PROVE SubscribedToRedis' /\ StopIsHeard'
  <2>1. CASE Send(g)
    BY <1>p, <2>1 DEF Send
  <2>2. CASE See(g)
    BY <2>2, Undisturbed DEF See
  <2>3. CASE Proceed(g)
    BY <1>p, <2>3 DEF Proceed
  <2> QED BY <1>1, <2>1, <2>2, <2>3 DEF Uses
<1>2. ASSUME NEW then \in {"nothing", "send"}, Stop(then)
      PROVE  SubscribedToRedis' /\ StopIsHeard'
  BY <1>2, Undisturbed DEF Stop
<1>3. CASE StreamEnds
  BY <1>3, Undisturbed DEF StreamEnds
<1>4. CASE Replace
  BY <1>4, Undisturbed DEF Replace
<1>5. CASE Mutate
  <2> DEFINE m == Head(tab.queue)
  <2>1. UNCHANGED <<run, starting, redis>>
    BY <1>5 DEF Mutate
  <2>2. CASE CancelStream(m)
    <3>1. published' # {}
      BY <2>2 DEF CancelStream
    <3>2. ASSUME NEW g \in Run, run[g].pc = "streaming"
          PROVE  run[g].listen \in {"broken", "poll"} \/ (run[g].listen = "pubsub" /\ redis)
      <4>1. run[g] \in Handler /\ run[g].listen # "none"
        BY <1>q, <3>2 DEF Sound
      <4>2. run[g].listen \in Listening
        BY <4>1 DEF Handler
      <4> QED BY <4>1, <4>2 DEF Listening, Inv, SubscribedToRedis
    <3>3. StopIsHeard'
      BY <2>1, <3>1, <3>2 DEF StopIsHeard
    <3> QED BY <2>1, <3>3 DEF Inv, SubscribedToRedis
  <2>3. CASE SaveShown(m)
    BY <2>1, <2>3, Undisturbed DEF SaveShown
  <2>4. CASE DeleteTrailing
    BY <2>1, <2>4, Undisturbed DEF DeleteTrailing
  <2> QED BY <1>5, <2>2, <2>3, <2>4 DEF Mutate
<1>6. CASE Load
  BY <1>6, Undisturbed DEF Load
<1>7. CASE ClearStale
  BY <1>7, Undisturbed DEF ClearStale, Cleared
<1> QED BY <1>1, <1>2, <1>3, <1>4, <1>5, <1>6, <1>7

LEMMA InvStep == Inv /\ [Next]_vars => Inv'
<1> SUFFICES ASSUME Inv, [Next]_vars PROVE SubscribedToRedis' /\ StopIsHeard'
  BY StepIsTyped DEF Inv
<1>1. CASE Next
  BY <1>1, HandlerHears, RedisHears, TabHears DEF Next
<1>2. CASE UNCHANGED vars
  BY <1>2, Undisturbed DEF vars
<1> QED BY <1>1, <1>2

\* A handler whose stream is registered misses no stop while its mark stands,
\* however often Redis fails and comes back.
THEOREM NoStopIsMissed == Spec => []StopIsHeard
<1>1. Init => Inv
  BY InitIsTyped DEF Inv, SubscribedToRedis, StopIsHeard, Init, Cleared, Idle
<1> QED BY <1>1, InvStep, PTL DEF Spec, Inv
-----------------------------------------------------------------------------
(* Answers. What becomes of an answer is decided by three that act without   *)
(* waiting for each other: the handler that stores it, the mutations that the *)
(* tab has queued, and the cancellation that is under way. The invariant      *)
(* relates what each of them will still do.                                   *)

\* What the mutations of a queue will do.
WillSave(q, g) == \E i \in 1..Len(q) : q[i].op = "save" /\ q[i].of = g
WillDelete(q) == \E i \in 1..Len(q) : q[i].op = "delete"
DeletesLast(q) == \A i \in 1..Len(q) : q[i].op = "delete" => i = Len(q)

\* What is canceled is in S, or is saved first.
SavesFirst(q, S) ==
  \A i \in 1..Len(q) : q[i].op = "cancel" =>
    q[i].of \in S \/ \E j \in 1..(i - 1) : q[j].op = "save" /\ q[j].of = q[i].of

\* Nothing is about a run that was not asked for; an answer that is being replaced
\* was given up.
Asked ==
  /\ \A g \in stored : run[g].pc # "none"
  /\ tab.view # NoRun => run[tab.view].pc # "none"
  /\ \A g \in Run : WillSave(tab.queue, g) => run[g].pc # "none"
  /\ DeletesLast(tab.queue)
  /\ WillDelete(tab.queue) => tab.then = "regenerate"
  /\ \A g \in Run : Replaced(g) => g \in discarded

\* While turns are apart, the answers after the last user message are those of the
\* turn that was asked last, and the tab looks at its own turn.
TurnsFit ==
  ordered =>
    /\ \A g \in stored : run[g].turn <= asked /\ (run[g].turn = asked => g \in trailing)
    /\ \A g \in trailing : run[g].turn = asked
    /\ tab.view # NoRun => run[tab.view].turn = tab.turn

\* An answer that the tab has stored, as far as that can be told.
ByTab(g) == g \in stored /\ ~run[g].timer /\ ~(run[g].pc = "done" /\ run[g].cut = NoRun)

\* An answer that the tab stores or has stored is shown; if it was given up since,
\* its deletion is queued.
GoneFits ==
  ordered =>
    \A g \in Run :
      /\ WillSave(tab.queue, g) =>
           IF Replaced(g) THEN WillDelete(tab.queue) ELSE g \in shown
      /\ ByTab(g) =>
           IF g \in discarded THEN Replaced(g) /\ WillDelete(tab.queue) ELSE g \in shown

\* A cancellation of this run is, or was, somewhere on its way to its handler.
Stopped(g) ==
  \/ row.canceled = g
  \/ \E m \in published : m.of = g
  \/ run[g].cut = g
  \/ run[g].refused = g

\* A run that ended, disturbed by no cancellation but its own.
Ended(g) ==
  /\ run[g].pc = "done"
  /\ run[g].cut \in {g, NoRun}
  /\ run[g].refused \in {g, NoRun}

\* An answer whose run is canceled or has ended was given up or is stored.
KeptFits ==
  ordered =>
    /\ \A g \in Run : Stopped(g) \/ Ended(g) => g \in discarded \cup stored
    /\ SavesFirst(tab.queue, discarded \cup stored)

Answers == TypeOK /\ Asked /\ TurnsFit /\ GoneFits /\ KeptFits

-----------------------------------------------------------------------------
(* Queues *)

\* A queue and one more mutation.
LEMMA QueueGrows ==
  ASSUME NEW q \in Seq(Mutation), NEW m \in Mutation
  PROVE  /\ q \o <<m>> \in Seq(Mutation)
         /\ Len(q) \in Nat /\ Len(q \o <<m>>) = Len(q) + 1
         /\ (q \o <<m>>)[Len(q) + 1] = m
         /\ \A i \in 1..Len(q) : (q \o <<m>>)[i] = q[i]
<1>1. <<m>> \in Seq(Mutation) /\ Len(<<m>>) = 1 /\ <<m>>[1] = m /\ Len(q) \in Nat
  OBVIOUS
<1>2. \A i \in 1..(Len(q) + 1) :
        (q \o <<m>>)[i] = IF i <= Len(q) THEN q[i] ELSE <<m>>[i - Len(q)]
  BY <1>1, ConcatProperties
<1>3. (q \o <<m>>)[Len(q) + 1] = m
  BY <1>1, <1>2
<1>4. \A i \in 1..Len(q) : (q \o <<m>>)[i] = q[i]
  BY <1>1, <1>2
<1> QED BY <1>1, <1>3, <1>4, ConcatProperties

LEMMA GrownWill ==
  ASSUME NEW q \in Seq(Mutation), NEW m \in Mutation
  PROVE  /\ \A g : WillSave(q \o <<m>>, g) <=>
                     WillSave(q, g) \/ (m.op = "save" /\ m.of = g)
         /\ WillDelete(q \o <<m>>) <=> WillDelete(q) \/ m.op = "delete"
         /\ ~WillDelete(q) => DeletesLast(q \o <<m>>)
<1> DEFINE p == q \o <<m>>
           n == Len(q)
<1>1. /\ n \in Nat /\ Len(p) = n + 1 /\ p[n + 1] = m
      /\ \A i \in 1..n : p[i] = q[i]
  BY QueueGrows
<1> HIDE DEF p, n
<1>2. 1..Len(p) = (1..n) \cup {n + 1}
  BY <1>1
<1>3. \A g : WillSave(p, g) <=> WillSave(q, g) \/ (m.op = "save" /\ m.of = g)
  BY <1>1, <1>2 DEF WillSave, n
<1>4. WillDelete(p) <=> WillDelete(q) \/ m.op = "delete"
  BY <1>1, <1>2 DEF WillDelete, n
<1>5. ~WillDelete(q) => DeletesLast(p)
  BY <1>1, <1>2 DEF WillDelete, DeletesLast, n
<1> QED BY <1>3, <1>4, <1>5 DEF p

LEMMA GrownSaves ==
  ASSUME NEW q \in Seq(Mutation), NEW m \in Mutation, NEW S, SavesFirst(q, S),
         m.op = "cancel" => m.of \in S \/ WillSave(q, m.of)
  PROVE  SavesFirst(q \o <<m>>, S)
<1> DEFINE p == q \o <<m>>
           n == Len(q)
<1>1. /\ n \in Nat /\ Len(p) = n + 1 /\ p[n + 1] = m
      /\ \A i \in 1..n : p[i] = q[i]
  BY QueueGrows
<1> HIDE DEF p
<1>2. SUFFICES ASSUME NEW i \in 1..Len(p), p[i].op = "cancel", p[i].of \notin S
               PROVE  \E j \in 1..(i - 1) : p[j].op = "save" /\ p[j].of = p[i].of
  BY DEF SavesFirst, p
<1>3. CASE i \in 1..n
  <2>1. PICK j \in 1..(i - 1) : q[j].op = "save" /\ q[j].of = q[i].of
    BY <1>1, <1>2, <1>3 DEF SavesFirst
  <2>2. j \in 1..n
    BY <1>1, <1>3
  <2> QED BY <1>1, <1>3, <2>1, <2>2
<1>4. CASE i = n + 1
  <2>1. WillSave(q, m.of)
    BY <1>1, <1>2, <1>4
  <2>2. PICK j \in 1..n : q[j].op = "save" /\ q[j].of = m.of
    BY <2>1 DEF WillSave
  <2>3. j \in 1..(i - 1)
    BY <1>1, <1>4
  <2> QED BY <1>1, <1>4, <2>2, <2>3
<1> QED BY <1>1, <1>3, <1>4

LEMMA MoreSaved ==
  ASSUME NEW q, NEW S, NEW T, SavesFirst(q, S), S \subseteq T
  PROVE  SavesFirst(q, T)
BY DEF SavesFirst

\* A queue whose first mutation was executed.
LEMMA QueueShrinks ==
  ASSUME NEW q \in Seq(Mutation), q # <<>>
  PROVE  /\ Tail(q) \in Seq(Mutation) /\ Head(q) \in Mutation
         /\ Len(q) \in Nat /\ Len(q) > 0 /\ Len(Tail(q)) = Len(q) - 1
         /\ Head(q) = q[1]
         /\ \A i \in 1..Len(Tail(q)) : Tail(q)[i] = q[i + 1]
<1>1. Len(q) \in Nat /\ Len(q) > 0 /\ Head(q) = q[1]
  BY EmptySeq
<1> QED BY <1>1, HeadTailProperties

LEMMA ShrunkWill ==
  ASSUME NEW q \in Seq(Mutation), q # <<>>
  PROVE  /\ \A g : WillSave(Tail(q), g) => WillSave(q, g)
         /\ Head(q).op = "save" => WillSave(q, Head(q).of)
         /\ WillDelete(Tail(q)) => WillDelete(q)
         /\ WillDelete(q) => Head(q).op = "delete" \/ WillDelete(Tail(q))
         /\ DeletesLast(q) => DeletesLast(Tail(q))
         /\ DeletesLast(q) /\ Head(q).op = "delete" => Tail(q) = <<>> /\ WillDelete(q)
<1> DEFINE p == Tail(q)
           n == Len(q)
<1>1. /\ n \in Nat /\ n > 0 /\ Len(p) = n - 1 /\ Head(q) = q[1]
      /\ \A i \in 1..(n - 1) : p[i] = q[i + 1]
      /\ p \in Seq(Mutation)
  BY QueueShrinks
<1> HIDE DEF p, n
<1>2. \A i \in 1..(n - 1) : i + 1 \in 1..n
  BY <1>1
<1>3. \A i \in 1..n : i = 1 \/ (i - 1 \in 1..(n - 1) /\ p[i - 1] = q[i])
  BY <1>1
<1>4. \A g : WillSave(p, g) => WillSave(q, g)
  BY <1>1, <1>2 DEF WillSave, n
<1>5. Head(q).op = "save" => WillSave(q, Head(q).of)
  BY <1>1 DEF WillSave, n
<1>6. WillDelete(p) => WillDelete(q)
  BY <1>1, <1>2 DEF WillDelete, n
<1>7. WillDelete(q) => Head(q).op = "delete" \/ WillDelete(p)
  BY <1>1, <1>3 DEF WillDelete, n
<1>8. ASSUME DeletesLast(q) PROVE DeletesLast(p)
  <2> SUFFICES ASSUME NEW i \in 1..Len(p), p[i].op = "delete" PROVE i = Len(p)
    BY DEF DeletesLast
  <2>1. i + 1 \in 1..n /\ q[i + 1].op = "delete"
    BY <1>1
  <2>2. i + 1 = n
    BY <1>8, <2>1 DEF DeletesLast, n
  <2> QED BY <1>1, <2>2
<1>9. ASSUME DeletesLast(q), Head(q).op = "delete" PROVE p = <<>> /\ WillDelete(q)
  <2>1. n = 1
    BY <1>1, <1>9 DEF DeletesLast, n
  <2>2. p = <<>>
    BY <1>1, <2>1, EmptySeq
  <2> QED BY <1>1, <1>9, <2>2 DEF WillDelete, n
<1> QED BY <1>4, <1>5, <1>6, <1>7, <1>8, <1>9 DEF p

LEMMA ShrunkSaves ==
  ASSUME NEW q \in Seq(Mutation), q # <<>>, NEW S, SavesFirst(q, S)
  PROVE  /\ Head(q).op = "cancel" => Head(q).of \in S
         /\ SavesFirst(Tail(q), IF Head(q).op = "save" THEN S \cup {Head(q).of} ELSE S)
<1> DEFINE p == Tail(q)
           n == Len(q)
           T == IF Head(q).op = "save" THEN S \cup {Head(q).of} ELSE S
<1>1. /\ n \in Nat /\ n > 0 /\ Len(p) = n - 1 /\ Head(q) = q[1]
      /\ \A i \in 1..(n - 1) : p[i] = q[i + 1]
  BY QueueShrinks
<1> HIDE DEF p, n
<1>2. Head(q).op = "cancel" => Head(q).of \in S
  BY <1>1 DEF SavesFirst, n
<1>3. ASSUME NEW i \in 1..Len(p), p[i].op = "cancel", p[i].of \notin T
      PROVE  \E j \in 1..(i - 1) : p[j].op = "save" /\ p[j].of = p[i].of
  <2>1. i + 1 \in 1..n /\ q[i + 1] = p[i] /\ (i + 1) - 1 = i
    BY <1>1
  <2>2. q[i + 1].of \notin S
    BY <1>3, <2>1
  <2>3. PICK j \in 1..i : q[j].op = "save" /\ q[j].of = q[i + 1].of
    BY <1>3, <2>1, <2>2 DEF SavesFirst, n
  <2>4. j # 1
    BY <1>1, <1>3, <2>1, <2>3
  <2>5. j - 1 \in 1..(i - 1) /\ p[j - 1] = q[j]
    BY <1>1, <2>3, <2>4
  <2> QED BY <2>1, <2>3, <2>5
<1>4. SavesFirst(p, T)
  BY <1>3 DEF SavesFirst
<1> QED BY <1>2, <1>4 DEF p

-----------------------------------------------------------------------------
(* The handlers and Redis *)

\* The answers are as before, and a run keeps what the invariant says of it.
Steady(g) ==
  /\ run'[g].pc = "none" <=> run[g].pc = "none"
  /\ run'[g].turn = run[g].turn
  /\ run[g].timer => run'[g].timer
  /\ run[g].pc = "done" /\ run[g].cut = NoRun => run'[g].pc = "done" /\ run'[g].cut = NoRun

LEMMA Quiet ==
  ASSUME Answers, UNCHANGED <<tab, shown, discarded, stored>>, ordered' => ordered,
         \A g \in Run : Steady(g),
         \A g \in Run : (Stopped(g) \/ Ended(g))' =>
           Stopped(g) \/ Ended(g) \/ ~ordered \/ g \in discarded \cup stored
  PROVE  /\ Asked' /\ GoneFits' /\ KeptFits'
         /\ UNCHANGED <<trailing, asked>> => TurnsFit'
<1>q. /\ run \in [Run -> Handler] /\ stored \subseteq Run /\ trailing \subseteq Run
      /\ tab.view \in Run \cup {NoRun}
  BY DEF Answers, TypeOK, Tab
<1>1. \A g \in Run : Replaced(g)' <=> Replaced(g)
  BY DEF Replaced, OfTurn, Steady
<1>2. Asked'
  BY <1>q, <1>1 DEF Answers, Asked, Steady
<1>3. \A g \in Run : ByTab(g)' => ByTab(g)
  BY DEF ByTab, Steady
<1>4. GoneFits'
  BY <1>1, <1>3 DEF Answers, GoneFits
<1>5. KeptFits'
  BY DEF Answers, KeptFits
<1>6. UNCHANGED <<trailing, asked>> => TurnsFit'
  BY <1>q DEF Answers, TurnsFit, Steady
<1> QED BY <1>2, <1>4, <1>5, <1>6

\* One handler moves, and stores nothing.
LEMMA OneMoves ==
  ASSUME Answers, UNCHANGED <<tab, shown, discarded, stored, published>>, ordered' => ordered,
         NEW g \in Run, NEW h, run' = [run EXCEPT ![g] = h],
         row'.canceled \in {NoRun, row.canceled},
         h.pc # "none", run[g].pc \notin {"none", "done"},
         h.turn = run[g].turn, run[g].timer => h.timer,
         h.cut \in {run[g].cut, row.canceled}, h.refused \in {run[g].refused, row.canceled},
         h.pc = "done" /\ h.cut = NoRun /\ h.refused = NoRun => g \in stored
  PROVE  /\ Asked' /\ GoneFits' /\ KeptFits'
         /\ UNCHANGED <<trailing, asked>> => TurnsFit'
<1>1. \A k \in Run : run'[k] = IF k = g THEN h ELSE run[k]
  BY DEF Answers, TypeOK
<1>2. \A k \in Run : Steady(k)
  BY <1>1 DEF Steady
<1>3. \A k \in Run : k # NoRun
  BY ChatAssumption DEF Run, NoRun
<1>4. \A k \in Run : Stopped(k)' => Stopped(k)
  BY <1>1, <1>3 DEF Stopped
<1>5. \A k \in Run : k # g => (Ended(k)' => Ended(k))
  BY <1>1 DEF Ended
<1>6. Ended(g)' => Stopped(g) \/ g \in stored
  <2>1. CASE h.cut = g \/ h.refused = g
    BY <1>3, <2>1 DEF Stopped
  <2>2. CASE h.cut # g /\ h.refused # g
    BY <1>1, <2>2 DEF Ended
  <2> QED BY <2>1, <2>2
<1> QED BY <1>2, <1>4, <1>5, <1>6, Quiet

LEMMA HandlerKeeps ==
  ASSUME Answers, NEW g \in Run, Handles(g)
  PROVE  Asked' /\ TurnsFit' /\ GoneFits' /\ KeptFits'
<1> USE DEF NoMessage, NoStop, Observed, Tabbed, messages
<1>q. run \in [Run -> Sound] /\ run[g] \in Handler /\ RestOK /\ ordered \in BOOLEAN
  BY Split DEF Answers, Sound, RestOK
<1>l. run[g].listen # "none" => run[g].pc = "streaming"
  BY <1>q DEF Sound
<1>1. CASE SaveUser(g)
  <2> DEFINE h == [run[g] EXCEPT !.pc = "opening"]
  <2>1. /\ run' = [run EXCEPT ![g] = h] /\ run[g].pc = "posted"
        /\ UNCHANGED <<tab, shown, discarded, stored, published>> /\ (ordered' => ordered)
    BY <1>1 DEF SaveUser, Goes
  <2>2. /\ h.pc = "opening" /\ h.turn = run[g].turn /\ h.timer = run[g].timer
        /\ h.cut = run[g].cut /\ h.refused = run[g].refused
    BY <1>q DEF Handler
  <2>3. row'.canceled \in {NoRun, row.canceled}
    BY <1>1, <1>q DEF SaveUser, RestOK, Row
  <2> HIDE DEF h
  <2>4. /\ Asked' /\ GoneFits' /\ KeptFits'
        /\ UNCHANGED <<trailing, asked>> => TurnsFit'
    BY <2>1, <2>2, <2>3, OneMoves
  <2>5. CASE run[g].sends
    <3>1. /\ asked' = run[g].turn /\ trailing' = {}
          /\ ordered' = (ordered /\ asked < run[g].turn)
      BY <1>1, <2>5 DEF SaveUser
    <3>2. \A k \in Run : run'[k].turn = run[k].turn /\ run[k].turn \in Nat
      BY <1>q, <2>1, <2>2 DEF Sound, Handler
    <3>3. asked \in Nat /\ stored \subseteq Run /\ tab.view \in Run \cup {NoRun}
      BY <1>q DEF RestOK, Tab
    <3>4. TurnsFit'
      <4> SUFFICES ASSUME ordered' PROVE TurnsFit'
        BY DEF TurnsFit
      <4>1. /\ \A k \in stored : run[k].turn <= asked
            /\ tab.view # NoRun => run[tab.view].turn = tab.turn
            /\ asked < run[g].turn
        BY <2>1, <3>1 DEF Answers, TurnsFit
      <4>2. \A k \in stored : run[k].turn < run[g].turn
        BY <3>2, <3>3, <4>1
      <4>3. \A k \in stored : run[k].turn <= run[g].turn /\ run[k].turn # run[g].turn
        BY <3>2, <3>3, <4>2
      <4>4. tab'.view # NoRun => run'[tab'.view].turn = tab'.turn
        BY <2>1, <3>2, <3>3, <4>1
      <4>5. \A k \in stored' : run'[k].turn <= asked' /\ run'[k].turn # asked'
        BY <2>1, <3>1, <3>2, <3>3, <4>3
      <4> QED BY <3>1, <4>4, <4>5 DEF TurnsFit
    <3> QED BY <2>4, <3>4
  <2>6. CASE ~run[g].sends
    BY <1>1, <2>4, <2>6 DEF SaveUser
  <2> QED BY <2>5, <2>6
<1>2. CASE Subscribe(g)
  <2> DEFINE h == [run[g] EXCEPT !.pc = "streaming", !.listen = IF redis THEN "pubsub" ELSE "poll"]
  <2>1. /\ run' = [run EXCEPT ![g] = h] /\ run[g].pc = "opening"
        /\ UNCHANGED <<row, tab, shown, discarded, stored, trailing, asked, published, ordered>>
    BY <1>2 DEF Subscribe
  <2>2. /\ h.pc = "streaming" /\ h.turn = run[g].turn /\ h.timer = run[g].timer
        /\ h.cut = run[g].cut /\ h.refused = run[g].refused
    BY <1>q DEF Handler
  <2> HIDE DEF h
  <2> QED BY <2>1, <2>2, OneMoves
<1>3. CASE StartStream(g)
  <2>1. /\ UNCHANGED <<run, tab, shown, discarded, stored, trailing, asked, published, ordered>>
        /\ row'.canceled = NoRun
    BY <1>3 DEF StartStream
  <2>2. \A k \in Run : k # NoRun
    BY ChatAssumption DEF Run, NoRun
  <2> QED BY <2>1, <2>2, Quiet DEF Steady, Stopped, Ended
<1>4. CASE FallBack(g)
  <2> DEFINE h == [run[g] EXCEPT !.listen = "poll"]
  <2>1. /\ run' = [run EXCEPT ![g] = h] /\ run[g].pc = "streaming"
        /\ UNCHANGED <<row, tab, shown, discarded, stored, trailing, asked, published, ordered>>
    BY <1>4, <1>l DEF FallBack
  <2>2. /\ h.pc = "streaming" /\ h.turn = run[g].turn /\ h.timer = run[g].timer
        /\ h.cut = run[g].cut /\ h.refused = run[g].refused
    BY <1>q, <2>1 DEF Handler
  <2> HIDE DEF h
  <2> QED BY <2>1, <2>2, OneMoves
<1>5. CASE Poll(g)
  <2> DEFINE h == [run[g] EXCEPT !.cut = row.canceled]
  <2>1. /\ run' = [run EXCEPT ![g] = h] /\ run[g].pc = "streaming"
        /\ UNCHANGED <<row, tab, shown, discarded, stored, trailing, asked, published, ordered>>
    BY <1>5, <1>l DEF Poll
  <2>2. /\ h.pc = "streaming" /\ h.turn = run[g].turn /\ h.timer = run[g].timer
        /\ h.cut = row.canceled /\ h.refused = run[g].refused
    BY <1>q, <2>1 DEF Handler
  <2> HIDE DEF h
  <2> QED BY <2>1, <2>2, OneMoves
<1>6. CASE TimeOut(g)
  <2> DEFINE h == [run[g] EXCEPT !.timer = TRUE]
  <2>1. /\ run' = [run EXCEPT ![g] = h] /\ run[g].pc = "streaming"
        /\ UNCHANGED <<row, tab, shown, discarded, stored, trailing, asked, published, ordered>>
    BY <1>6 DEF TimeOut
  <2>2. /\ h.pc = "streaming" /\ h.turn = run[g].turn /\ h.timer
        /\ h.cut = run[g].cut /\ h.refused = run[g].refused
    BY <1>q, <2>1 DEF Handler
  <2> HIDE DEF h
  <2> QED BY <2>1, <2>2, OneMoves
<1>7. ASSUME NEW pc \in {"clearing", "dead"}, run[g].pc \notin {"none", "done"},
             run' = [run EXCEPT ![g] = [run[g] EXCEPT !.pc = pc, !.listen = "none"]],
             UNCHANGED <<row, tab, shown, discarded, stored, trailing, asked, published, ordered>>
      PROVE  Asked' /\ TurnsFit' /\ GoneFits' /\ KeptFits'
  <2> DEFINE h == [run[g] EXCEPT !.pc = pc, !.listen = "none"]
  <2>1. /\ h.pc = pc /\ h.turn = run[g].turn /\ h.timer = run[g].timer
        /\ h.cut = run[g].cut /\ h.refused = run[g].refused
    BY <1>q DEF Handler
  <2>2. run' = [run EXCEPT ![g] = h]
    BY <1>7
  <2> HIDE DEF h
  <2> QED BY <1>7, <2>1, <2>2, OneMoves
<1>8. CASE Finish(g)
  BY <1>7, <1>8 DEF Finish
<1>9. CASE Die(g)
  BY <1>7, <1>9 DEF Die
<1>10. CASE Clear(g)
  <2> DEFINE h == [run[g] EXCEPT !.pc = "saving"]
  <2>1. /\ run' = [run EXCEPT ![g] = h] /\ run[g].pc = "clearing" /\ row'.canceled = NoRun
        /\ UNCHANGED <<tab, shown, discarded, stored, trailing, asked, published, ordered>>
    BY <1>10 DEF Clear, Goes, Cleared
  <2>2. /\ h.pc = "saving" /\ h.turn = run[g].turn /\ h.timer = run[g].timer
        /\ h.cut = run[g].cut /\ h.refused = run[g].refused
    BY <1>q DEF Handler
  <2> HIDE DEF h
  <2> QED BY <2>1, <2>2, OneMoves
<1>11. CASE Save(g)
  <2>0. /\ run[g].pc = "saving"
        /\ UNCHANGED <<row, tab, shown, discarded, published>>
    BY <1>11 DEF Save
  <2> DEFINE d == [run[g] EXCEPT !.pc = "done"]
             r == [run[g] EXCEPT !.pc = "done", !.refused = row.canceled]
  <2>d. /\ d.pc = "done" /\ d.turn = run[g].turn /\ d.timer = run[g].timer
        /\ d.cut = run[g].cut /\ d.refused = run[g].refused
    BY <1>q DEF Handler
  <2>r. /\ r.pc = "done" /\ r.turn = run[g].turn /\ r.timer = run[g].timer
        /\ r.cut = run[g].cut /\ r.refused = row.canceled
    BY <1>q DEF Handler
  <2>g. Goes(g, "done") => run' = [run EXCEPT ![g] = d]
    BY DEF Goes
  <2>f. [run EXCEPT ![g].pc = "done", ![g].refused = row.canceled] = [run EXCEPT ![g] = r]
    BY <1>q
  <2> HIDE DEF d, r
  <2>1. CASE SkipsSave(run[g]) \/ UpdateOnly(run[g]) \/ g \in stored
    <3>1. UNCHANGED <<messages, ordered>> /\ run' = [run EXCEPT ![g] = d]
      BY <1>11, <2>1, <2>g DEF Save
    <3>2. d.cut = NoRun => g \in stored
      BY <2>1, <2>d DEF SkipsSave, UpdateOnly
    <3> QED BY <2>0, <2>d, <3>1, <3>2, OneMoves
  <2>2. CASE ~(SkipsSave(run[g]) \/ UpdateOnly(run[g]) \/ g \in stored) /\ row.canceled # NoRun
    <3>1. UNCHANGED <<messages, ordered>> /\ run' = [run EXCEPT ![g] = r]
      BY <1>11, <2>2, <2>f DEF Save
    <3> QED BY <2>0, <2>2, <2>r, <3>1, OneMoves
  <2>3. CASE ~(SkipsSave(run[g]) \/ UpdateOnly(run[g]) \/ g \in stored) /\ row.canceled = NoRun
    <3>1. /\ run' = [run EXCEPT ![g] = d]
          /\ stored' = stored \cup {g} /\ trailing' = trailing \cup {g}
          /\ ordered' = (ordered /\ run[g].turn = asked) /\ asked' = asked
      BY <1>11, <2>3, <2>g DEF Save, Store
    <3>2. run[g].cut = NoRun \/ run[g].timer
      BY <2>3 DEF UpdateOnly
    <3>3. \A k \in Run : run'[k] = IF k = g THEN d ELSE run[k]
      BY <1>q, <3>1
    <3>4. \A k \in Run : Steady(k)
      BY <2>0, <2>d, <3>3 DEF Steady
    <3>5. \A k \in Run : Replaced(k)' <=> Replaced(k)
      BY <2>0, <3>4 DEF Replaced, OfTurn, Steady
    <3>6. Asked'
      BY <1>q, <2>0, <2>d, <3>1, <3>3, <3>4, <3>5 DEF Answers, Asked, Steady, RestOK, Tab
    <3>7. TurnsFit'
      <4>1. \A k \in Run : run'[k].turn = run[k].turn /\ run[k].turn \in Nat
        BY <1>q, <3>4 DEF Steady, Sound, Handler
      <4>2. asked \in Nat /\ stored \subseteq Run /\ trailing \subseteq Run /\ tab.view \in Run \cup {NoRun}
        BY <1>q DEF RestOK, Tab
      <4> SUFFICES ASSUME ordered' PROVE TurnsFit'
        BY DEF TurnsFit
      <4>3. /\ \A k \in stored : run[k].turn <= asked /\ (run[k].turn = asked => k \in trailing)
            /\ \A k \in trailing : run[k].turn = asked
            /\ tab.view # NoRun => run[tab.view].turn = tab.turn
            /\ run[g].turn = asked
        BY <3>1 DEF Answers, TurnsFit
      <4>4. \A k \in stored' :
              run'[k].turn <= asked' /\ (run'[k].turn = asked' => k \in trailing')
        BY <3>1, <4>1, <4>2, <4>3
      <4>5. \A k \in trailing' : run'[k].turn = asked'
        BY <3>1, <4>1, <4>2, <4>3
      <4>6. tab'.view # NoRun => run'[tab'.view].turn = tab'.turn
        BY <2>0, <4>1, <4>2, <4>3
      <4> QED BY <4>4, <4>5, <4>6 DEF TurnsFit
    <3>8. \A k \in Run : ByTab(k)' => ByTab(k)
      BY <2>d, <3>1, <3>2, <3>3 DEF ByTab
    <3>9. GoneFits'
      BY <2>0, <3>1, <3>5, <3>8 DEF Answers, GoneFits
    <3>10. \A k \in Run : k # g => (Stopped(k)' => Stopped(k)) /\ (Ended(k)' => Ended(k))
      BY <2>0, <3>3 DEF Stopped, Ended
    <3>11. SavesFirst(tab.queue, discarded \cup stored) =>
             SavesFirst(tab.queue, discarded \cup (stored \cup {g}))
      BY MoreSaved
    <3>12. KeptFits'
      BY <2>0, <3>1, <3>10, <3>11 DEF Answers, KeptFits
    <3> QED BY <3>6, <3>7, <3>9, <3>12
  <2> QED BY <2>1, <2>2, <2>3
<1> QED BY <1>1, <1>2, <1>3, <1>4, <1>5, <1>6, <1>8, <1>9, <1>10, <1>11 DEF Handles

LEMMA RedisKeeps ==
  ASSUME Answers, RedisFails \/ RedisRecovers \/ (\E m \in published : Publish(m)) \/ ClearStale
  PROVE  Asked' /\ TurnsFit' /\ GoneFits' /\ KeptFits'
<1> USE DEF NoMessage, NoStop, Observed, Tabbed, messages
<1>q. run \in [Run -> Sound] /\ RestOK
  BY Split DEF Answers
<1>n. \A k \in Run : k # NoRun
  BY ChatAssumption DEF Run, NoRun
<1>1. CASE RedisFails
  <2>1. /\ run' = [g \in Run |-> [run[g] EXCEPT !.listen = IF @ = "pubsub" THEN "broken" ELSE @]]
        /\ UNCHANGED <<row, published, tab, shown, discarded, stored, trailing, asked, ordered>>
    BY <1>1 DEF RedisFails
  <2>2. ASSUME NEW g \in Run
        PROVE  /\ run'[g].pc = run[g].pc /\ run'[g].turn = run[g].turn
               /\ run'[g].cut = run[g].cut /\ run'[g].timer = run[g].timer
               /\ run'[g].refused = run[g].refused
    <3>1. run[g] \in Handler
      BY <1>q DEF Sound
    <3> QED BY <2>1, <3>1 DEF Handler
  <2> QED BY <2>1, <2>2, Quiet DEF Steady, Stopped, Ended
<1>2. CASE RedisRecovers
  BY <1>2, Quiet DEF RedisRecovers, Steady, Stopped, Ended
<1>3. ASSUME NEW m \in published, Publish(m)
      PROVE  Asked' /\ TurnsFit' /\ GoneFits' /\ KeptFits'
  <2>1. /\ run' = [g \in Run |->
                     IF redis /\ run[g].listen = "pubsub" /\ ~Aborted(run[g])
                     THEN [run[g] EXCEPT !.cut = m.of, !.skip = m.skip]
                     ELSE run[g]]
        /\ published' \subseteq published
        /\ UNCHANGED <<row, tab, shown, discarded, stored, trailing, asked, ordered>>
    BY <1>3 DEF Publish
  <2>2. ASSUME NEW g \in Run
        PROVE  /\ run'[g].pc = run[g].pc /\ run'[g].turn = run[g].turn
               /\ run'[g].timer = run[g].timer /\ run'[g].refused = run[g].refused
               /\ run'[g].cut = run[g].cut
                  \/ (run'[g].cut = m.of /\ run[g].pc = "streaming")
    <3>1. run[g] \in Sound
      BY <1>q
    <3> QED BY <2>1, <3>1 DEF Sound, Handler
  <2>3. \A g \in Run : Steady(g)
    BY <2>2 DEF Steady
  <2>4. \A g \in Run : Stopped(g)' => Stopped(g)
    BY <2>1, <2>2 DEF Stopped
  <2>5. \A g \in Run : Ended(g)' => Ended(g)
    BY <2>2 DEF Ended
  <2> QED BY <2>1, <2>3, <2>4, <2>5, Quiet
<1>4. CASE ClearStale
  BY <1>4, <1>n, Quiet DEF ClearStale, Cleared, Steady, Stopped, Ended
<1> QED BY <1>1, <1>2, <1>3, <1>4

-----------------------------------------------------------------------------
(* The tab *)

\* The tab looks on: an answer is shown, or its stream has ended.
LEMMA LookKeeps ==
  ASSUME Answers, StreamEnds \/ \E g \in Run : See(g)
  PROVE  Asked' /\ TurnsFit' /\ GoneFits' /\ KeptFits'
<1>1. /\ UNCHANGED <<row, run, published, stored, trailing, asked, discarded, ordered>>
      /\ shown \subseteq shown'
  BY DEF StreamEnds, See, NoMessage, NoStop, Observed, messages
<1>2. /\ tab'.queue = tab.queue /\ tab'.then = tab.then /\ tab'.turn = tab.turn
      /\ tab'.view \in {tab.view, NoRun}
  BY DEF Answers, TypeOK, Tab, StreamEnds, See
<1>3. \A g \in Run : Replaced(g)' <=> Replaced(g)
  BY <1>1, <1>2 DEF Replaced, OfTurn
<1>4. Asked'
  BY <1>1, <1>2, <1>3 DEF Answers, Asked
<1>5. TurnsFit'
  BY <1>1, <1>2 DEF Answers, TurnsFit
<1>6. GoneFits'
  BY <1>1, <1>2, <1>3 DEF Answers, GoneFits, ByTab
<1>7. KeptFits'
  BY <1>1, <1>2 DEF Answers, KeptFits, Stopped, Ended
<1> QED BY <1>4, <1>5, <1>6, <1>7

LEMMA NothingQueued ==
  /\ \A g : ~WillSave(<<>>, g)
  /\ ~WillDelete(<<>>) /\ DeletesLast(<<>>)
  /\ \A S : SavesFirst(<<>>, S)
<1>1. Len(<<>>) = 0 /\ 1..0 = {}
  OBVIOUS
<1> QED BY <1>1 DEF WillSave, WillDelete, DeletesLast, SavesFirst

\* Another request is made, for the turn at hand or a new one.
LEMMA PostKeeps ==
  ASSUME Answers, NEW g \in Run, Send(g) \/ Proceed(g)
  PROVE  Asked' /\ TurnsFit' /\ GoneFits' /\ KeptFits'
<1>q. run \in [Run -> Sound] /\ RestOK
  BY Split DEF Answers
<1>1. PICK sends \in BOOLEAN : Posts(g, sends)
  BY DEF Send, Proceed
<1> DEFINE turn == tab.turn + (IF sends THEN 1 ELSE 0)
           h == [Idle EXCEPT !.pc = "posted", !.sends = sends, !.turn = turn]
<1>2. /\ UNCHANGED <<row, published, stored, trailing, asked, shown, discarded>>
      /\ ordered' => ordered
  <2>1. CASE Send(g)
    BY <2>1 DEF Send, NoMessage, NoStop, Observed, messages
  <2>2. CASE Proceed(g)
    BY <2>2 DEF Proceed, NoMessage, NoStop, messages
  <2> QED BY <2>1, <2>2
<1>3. /\ run[g].pc = "none" /\ run' = [run EXCEPT ![g] = h]
      /\ tab' = [tab EXCEPT !.view = g, !.then = "nothing", !.turn = turn]
  BY <1>1 DEF Posts
<1>4. /\ h.pc = "posted" /\ h.turn = turn /\ h.cut = NoRun /\ h.refused = NoRun
  BY DEF Idle
<1>5. /\ tab'.view = g /\ tab'.then = "nothing" /\ tab'.turn = turn
      /\ tab'.queue = tab.queue
  BY <1>q, <1>3 DEF RestOK, Tab
<1> HIDE DEF h, turn
<1>6. /\ tab.then = "regenerate" => tab.queue = <<>>
  BY DEF Send, Proceed, Ready
<1>7. \A k \in Run : run'[k] = IF k = g THEN h ELSE run[k]
  BY <1>q, <1>3
<1>8. g \notin stored /\ ~WillSave(tab.queue, g) /\ ~WillDelete(tab.queue)
  BY <1>3, <1>6, NothingQueued DEF Answers, Asked
<1>9. \A k \in Run : ~Replaced(k)'
  BY <1>5 DEF Replaced
<1>10. Asked'
  BY <1>q, <1>2, <1>4, <1>5, <1>7, <1>8, <1>9 DEF Answers, Asked, RestOK
<1>11. TurnsFit'
  <2> SUFFICES ASSUME ordered' PROVE TurnsFit'
    BY DEF TurnsFit
  <2>1. \A k \in stored : run'[k] = run[k]
    BY <1>q, <1>7, <1>8 DEF RestOK
  <2>2. trailing \subseteq stored
    BY <1>q DEF RestOK
  <2>3. run'[tab'.view].turn = tab'.turn
    BY <1>4, <1>5, <1>7
  <2> QED BY <1>2, <2>1, <2>2, <2>3 DEF Answers, TurnsFit
<1>12. GoneFits'
  <2> SUFFICES ASSUME ordered', NEW k \in Run
               PROVE  /\ WillSave(tab.queue, k) => k \in shown
                      /\ ByTab(k)' => k \notin discarded /\ k \in shown
    BY <1>2, <1>5, <1>9 DEF GoneFits
  <2>1. WillSave(tab.queue, k) => k \in shown
    BY <1>2, <1>6, <1>8, NothingQueued DEF Answers, GoneFits, Replaced
  <2>2. ByTab(k)' => ByTab(k)
    BY <1>2, <1>7, <1>8 DEF ByTab
  <2> QED BY <1>2, <1>8, <2>1, <2>2 DEF Answers, GoneFits
<1>13. KeptFits'
  <2>n. g # NoRun
    BY ChatAssumption DEF Run, NoRun
  <2>1. \A k \in Run : (Stopped(k) \/ Ended(k))' => Stopped(k) \/ Ended(k)
    BY <1>2, <1>4, <1>7, <2>n DEF Stopped, Ended
  <2> QED BY <1>2, <1>5, <2>1 DEF Answers, KeptFits
<1> QED BY <1>10, <1>11, <1>12, <1>13

\* The user stops the answer that is being shown.
LEMMA StopKeeps ==
  ASSUME Answers, NEW then \in {"nothing", "send"}, Stop(then)
  PROVE  Asked' /\ TurnsFit' /\ GoneFits' /\ KeptFits'
<1> DEFINE g == tab.view
           save == [op |-> "save", of |-> g, skip |-> FALSE]
           cancel == [op |-> "cancel", of |-> g, skip |-> FALSE]
           q == tab.queue
           p == IF g \in shown THEN q \o <<save>> ELSE q
<1>q. RestOK
  BY Split DEF Answers
<1>1. /\ tab.then = "nothing" /\ g \in Run /\ q \in Seq(Mutation)
      /\ UNCHANGED <<row, run, published, stored, trailing, asked, shown, ordered>>
      /\ discarded' = IF g \in shown THEN discarded ELSE discarded \cup {g}
  BY <1>q DEF Stop, RestOK, Tab, NoMessage, NoStop, messages
<1>2. save \in Mutation /\ cancel \in Mutation
  BY <1>1 DEF Mutation
<1>3. q \o <<>> = q
  BY <1>1, ConcatEmptySeq
<1>4. /\ tab'.view = NoRun /\ tab'.then = then /\ tab'.turn = tab.turn
      /\ tab'.queue = p \o <<cancel>>
  BY <1>1, <1>3, <1>q DEF Stop, Does, RestOK, Tab
<1>p. p \in Seq(Mutation)
  BY <1>1, <1>2, QueueGrows
<1>5. ~WillDelete(q) /\ ~WillDelete(p) /\ ~WillDelete(tab'.queue) /\ DeletesLast(tab'.queue)
  <2>1. ~WillDelete(q)
    BY <1>1 DEF Answers, Asked
  <2>2. ~WillDelete(p)
    BY <1>1, <1>2, <2>1, GrownWill
  <2> HIDE DEF p
  <2>3. ~WillDelete(p \o <<cancel>>) /\ DeletesLast(p \o <<cancel>>)
    BY <1>2, <1>p, <2>2, GrownWill
  <2> QED BY <1>4, <2>1, <2>2, <2>3
<1>6. \A k : WillSave(tab'.queue, k) => WillSave(q, k) \/ (k = g /\ g \in shown)
  <2>1. \A k : WillSave(p, k) => WillSave(q, k) \/ (k = g /\ g \in shown)
    <3>1. CASE g \in shown
      <4>1. save.op = "save" /\ save.of = g
        OBVIOUS
      <4> HIDE DEF save
      <4> QED BY <1>1, <1>2, <3>1, <4>1, GrownWill
    <3> QED BY <3>1
  <2> HIDE DEF p
  <2>2. \A k : WillSave(p \o <<cancel>>, k) => WillSave(p, k)
    BY <1>2, <1>p, GrownWill
  <2> QED BY <1>4, <2>1, <2>2
<1>7. \A k : ~Replaced(k) /\ ~Replaced(k)'
  BY <1>1, <1>4 DEF Replaced
<1>8. Asked'
  <2>1. g # NoRun
    BY <1>1, ChatAssumption DEF Run, NoRun
  <2> QED BY <1>1, <1>4, <1>5, <1>6, <1>7, <2>1 DEF Answers, Asked
<1>9. TurnsFit'
  BY <1>1, <1>4 DEF Answers, TurnsFit
<1>10. GoneFits'
  BY <1>1, <1>5, <1>6, <1>7 DEF Answers, GoneFits, ByTab
<1>11. KeptFits'
  <2> SUFFICES ASSUME ordered PROVE KeptFits'
    BY <1>1 DEF KeptFits
  <2>1. SavesFirst(q, discarded' \cup stored)
    BY <1>1, MoreSaved DEF Answers, KeptFits
  <2>2. SavesFirst(p, discarded' \cup stored)
    BY <1>1, <1>2, <2>1, GrownSaves
  <2>3. g \in discarded' \cup stored \/ WillSave(p, g)
    BY <1>1, <1>2, GrownWill
  <2> HIDE DEF p
  <2>4. SavesFirst(p \o <<cancel>>, discarded' \cup stored)
    BY <1>2, <1>p, <2>2, <2>3, GrownSaves
  <2> QED BY <1>1, <1>4, <2>4 DEF Answers, KeptFits, Stopped, Ended
<1> QED BY <1>8, <1>9, <1>10, <1>11

\* The user asks for another answer in place of those of the turn.
LEMMA ReplaceKeeps ==
  ASSUME Answers, Replace
  PROVE  Asked' /\ TurnsFit' /\ GoneFits' /\ KeptFits'
<1> DEFINE g == tab.view
           cancel == [op |-> "cancel", of |-> g, skip |-> TRUE]
           delete == [op |-> "delete", of |-> NoRun, skip |-> FALSE]
           q == tab.queue
           p == IF g # NoRun THEN q \o <<cancel>> ELSE q
           deletes == shown \cap OfTurn # {}
           r == IF deletes THEN p \o <<delete>> ELSE p
<1>q. RestOK
  BY Split DEF Answers
<1>1. /\ tab.then = "nothing" /\ g \in Run \cup {NoRun} /\ q \in Seq(Mutation)
      /\ UNCHANGED <<row, run, published, stored, trailing, asked, ordered>>
      /\ shown' = shown \ OfTurn /\ discarded' = discarded \cup OfTurn
  BY <1>q DEF Replace, RestOK, Tab, NoMessage, NoStop, messages
<1>2. (g # NoRun => cancel \in Mutation) /\ delete \in Mutation
  BY <1>1 DEF Mutation
<1>p. p \in Seq(Mutation)
  BY <1>1, <1>2, QueueGrows
<1>4. /\ tab'.view = NoRun /\ tab'.then = "regenerate" /\ tab'.turn = tab.turn
      /\ tab'.queue = r
  <2>1. q \o <<>> = q /\ p \o <<>> = p
    BY <1>1, <1>p, ConcatEmptySeq
  <2>2. q \o (IF g # NoRun THEN <<cancel>> ELSE <<>>) = p
    BY <2>1
  <2> HIDE DEF p
  <2>3. p \o (IF deletes THEN <<delete>> ELSE <<>>) = r
    BY <2>1
  <2>4. tab' = [tab EXCEPT !.view = NoRun, !.then = "regenerate",
                  !.queue = (q \o (IF g # NoRun THEN <<cancel>> ELSE <<>>))
                              \o (IF deletes THEN <<delete>> ELSE <<>>)]
    BY DEF Replace, Does
  <2> QED BY <1>q, <2>2, <2>3, <2>4 DEF RestOK, Tab
<1>5. \A k : Replaced(k)' <=> k \in OfTurn
  BY <1>1, <1>4 DEF Replaced, OfTurn
<1>6. \A k : ~Replaced(k)
  BY <1>1 DEF Replaced
<1>7. ~WillDelete(q) /\ ~WillDelete(p)
  <2>1. ~WillDelete(q)
    BY <1>1 DEF Answers, Asked
  <2> QED BY <1>1, <1>2, <2>1, GrownWill
<1>8. (WillDelete(r) <=> deletes) /\ DeletesLast(r)
  <2>1. DeletesLast(p)
    BY <1>7 DEF DeletesLast, WillDelete
  <2> HIDE DEF p, deletes
  <2> QED BY <1>2, <1>p, <1>7, <2>1, GrownWill
<1>9. \A k : WillSave(r, k) => WillSave(q, k)
  <2>1. \A k : WillSave(p, k) => WillSave(q, k)
    BY <1>1, <1>2, GrownWill
  <2> HIDE DEF p, deletes
  <2> QED BY <1>2, <1>p, <2>1, GrownWill
<1>10. Asked'
  BY <1>1, <1>4, <1>5, <1>8, <1>9 DEF Answers, Asked
<1>11. TurnsFit'
  BY <1>1, <1>4 DEF Answers, TurnsFit
<1>12. GoneFits'
  <2> SUFFICES ASSUME ordered, NEW k \in Run
               PROVE  /\ WillSave(r, k) =>
                           IF k \in OfTurn THEN deletes ELSE k \in shown'
                      /\ ByTab(k) =>
                           IF k \in discarded' THEN k \in OfTurn /\ deletes ELSE k \in shown'
    BY <1>1, <1>4, <1>5, <1>8 DEF GoneFits, ByTab
  <2>1. WillSave(r, k) \/ ByTab(k) => k \in shown
    BY <1>6, <1>7, <1>9 DEF Answers, GoneFits
  <2>2. ByTab(k) => k \notin discarded
    BY <1>6 DEF Answers, GoneFits
  <2> QED BY <1>1, <2>1, <2>2
<1>13. KeptFits'
  <2> SUFFICES ASSUME ordered PROVE KeptFits'
    BY <1>1 DEF KeptFits
  <2>1. g # NoRun => g \in discarded'
    BY <1>1 DEF Answers, Asked, TurnsFit, OfTurn
  <2>2. SavesFirst(q, discarded' \cup stored)
    BY <1>1, MoreSaved DEF Answers, KeptFits
  <2>3. SavesFirst(p, discarded' \cup stored)
    BY <1>1, <1>2, <2>1, <2>2, GrownSaves
  <2> HIDE DEF p, deletes
  <2>4. SavesFirst(r, discarded' \cup stored)
    BY <1>2, <1>p, <2>3, GrownSaves
  <2> QED BY <1>1, <1>4, <2>4 DEF Answers, KeptFits, Stopped, Ended
<1> QED BY <1>10, <1>11, <1>12, <1>13

\* A mutation of the tab is executed.
LEMMA CancelKeeps ==
  ASSUME Answers, Mutate, Head(tab.queue).op = "cancel"
  PROVE  Asked' /\ TurnsFit' /\ GoneFits' /\ KeptFits'
<1> DEFINE q == tab.queue
           m == Head(q)
<1>q. RestOK
  BY Split DEF Answers
<1>0. q \in Seq(Mutation) /\ q # <<>>
  BY <1>q DEF RestOK, Tab, Mutate
<1>1. /\ CancelStream(m)
      /\ UNCHANGED <<run, shown, discarded, ordered, stored, trailing, asked>>
  BY DEF Mutate, CancelStream, NoMessage, messages
<1>2. /\ tab'.queue = Tail(q) /\ tab'.view = tab.view
      /\ tab'.then = tab.then /\ tab'.turn = tab.turn
  BY <1>q DEF Mutate, RestOK, Tab
<1>3. \A k \in Run : Replaced(k)' <=> Replaced(k)
  BY <1>1, <1>2 DEF Replaced, OfTurn
<1>4. /\ \A k : WillSave(Tail(q), k) => WillSave(q, k)
      /\ WillDelete(Tail(q)) <=> WillDelete(q)
      /\ DeletesLast(q) => DeletesLast(Tail(q))
  BY <1>0, ShrunkWill
<1>5. Asked'
  BY <1>1, <1>2, <1>3, <1>4 DEF Answers, Asked
<1>6. TurnsFit'
  BY <1>1, <1>2 DEF Answers, TurnsFit
<1>7. GoneFits'
  BY <1>1, <1>2, <1>3, <1>4 DEF Answers, GoneFits, ByTab
<1>8. KeptFits'
  <2> SUFFICES ASSUME ordered PROVE KeptFits'
    BY <1>1 DEF KeptFits
  <2>1. /\ m.of \in discarded \cup stored
        /\ SavesFirst(Tail(q), discarded \cup stored)
    BY <1>0, ShrunkSaves DEF Answers, KeptFits
  <2>2. \A k \in Run : Stopped(k)' => Stopped(k) \/ k = m.of
    BY <1>1 DEF CancelStream, Stopped
  <2>3. \A k \in Run : Ended(k)' <=> Ended(k)
    BY <1>1 DEF Ended
  <2> QED BY <1>1, <1>2, <2>1, <2>2, <2>3 DEF Answers, KeptFits
<1> QED BY <1>5, <1>6, <1>7, <1>8

LEMMA SaveKeeps ==
  ASSUME Answers, Mutate, Head(tab.queue).op = "save"
  PROVE  Asked' /\ TurnsFit' /\ GoneFits' /\ KeptFits'
<1> DEFINE q == tab.queue
           m == Head(q)
           g == m.of
<1>q. RestOK /\ run \in [Run -> Sound]
  BY Split DEF Answers
<1>0. q \in Seq(Mutation) /\ q # <<>> /\ g \in Run
  <2>1. q \in Seq(Mutation) /\ q # <<>>
    BY <1>q DEF RestOK, Tab, Mutate
  <2> QED BY <2>1, QueueShrinks DEF Mutation
<1>1. /\ stored' = stored \cup {g}
      /\ trailing' = IF g \in stored THEN trailing ELSE trailing \cup {g}
      /\ ordered' = (ordered /\ run[g].turn = asked)
      /\ discarded' = IF Replaced(g) THEN discarded ELSE discarded \ {g}
      /\ UNCHANGED <<row, published, run, shown, asked>>
  BY DEF Mutate, SaveShown, Store
<1>2. /\ tab'.queue = Tail(q) /\ tab'.view = tab.view
      /\ tab'.then = tab.then /\ tab'.turn = tab.turn
  BY <1>q DEF Mutate, RestOK, Tab
<1>3. \A k : Replaced(k)' <=> Replaced(k)
  BY <1>1, <1>2 DEF Replaced, OfTurn
<1>4. /\ \A k : WillSave(Tail(q), k) => WillSave(q, k)
      /\ WillSave(q, g)
      /\ WillDelete(Tail(q)) <=> WillDelete(q)
      /\ DeletesLast(q) => DeletesLast(Tail(q))
  BY <1>0, ShrunkWill
<1> HIDE DEF g
<1>5. Asked'
  BY <1>0, <1>1, <1>2, <1>3, <1>4 DEF Answers, Asked
<1>6. TurnsFit'
  <2> SUFFICES ASSUME ordered' PROVE TurnsFit'
    BY DEF TurnsFit
  <2>1. asked \in Nat /\ run[g].turn = asked
    BY <1>q, <1>1 DEF RestOK
  <2>f. /\ \A k \in stored :
            run[k].turn <= asked /\ (run[k].turn = asked => k \in trailing)
        /\ trailing \subseteq trailing'
    BY <1>1 DEF Answers, TurnsFit
  <2>g. run[g].turn <= asked /\ g \in trailing'
    BY <1>1, <2>1, <2>f
  <2>2. \A k \in stored' :
          run[k].turn <= asked /\ (run[k].turn = asked => k \in trailing')
    BY <1>1, <2>f, <2>g
  <2>3. \A k \in trailing' : run[k].turn = asked
    BY <1>1, <2>1 DEF Answers, TurnsFit
  <2>4. tab.view # NoRun => run[tab.view].turn = tab.turn
    BY <1>1 DEF Answers, TurnsFit
  <2> QED BY <1>1, <1>2, <2>2, <2>3, <2>4 DEF TurnsFit
<1>7. GoneFits'
  <2> SUFFICES ASSUME ordered, NEW k \in Run
               PROVE  /\ WillSave(Tail(q), k) =>
                           IF Replaced(k) THEN WillDelete(Tail(q)) ELSE k \in shown
                      /\ ByTab(k)' =>
                           IF k \in discarded' THEN Replaced(k) /\ WillDelete(Tail(q))
                           ELSE k \in shown
    BY <1>1, <1>2, <1>3 DEF GoneFits
  <2>1. WillSave(Tail(q), k) =>
          IF Replaced(k) THEN WillDelete(Tail(q)) ELSE k \in shown
    BY <1>4 DEF Answers, GoneFits
  <2>2. CASE k = g
    <3>1. IF Replaced(g) THEN WillDelete(Tail(q)) ELSE g \in shown
      BY <1>0, <1>4 DEF Answers, GoneFits
    <3>2. Replaced(g) => g \in discarded
      BY <1>0 DEF Answers, Asked
    <3> QED BY <1>1, <2>1, <2>2, <3>1, <3>2
  <2>3. CASE k # g
    <3>1. (ByTab(k)' <=> ByTab(k)) /\ (k \in discarded' <=> k \in discarded)
      BY <1>1, <2>3 DEF ByTab
    <3> QED BY <1>4, <2>1, <3>1 DEF Answers, GoneFits
  <2> QED BY <2>2, <2>3
<1>8. KeptFits'
  <2> SUFFICES ASSUME ordered PROVE KeptFits'
    BY <1>1 DEF KeptFits
  <2>1. SavesFirst(Tail(q), (discarded \cup stored) \cup {g})
    BY <1>0, ShrunkSaves DEF Answers, KeptFits, g
  <2>2. discarded' \cup stored' = (discarded \cup stored) \cup {g}
    BY <1>1
  <2>3. \A k \in Run : (Stopped(k) \/ Ended(k))' <=> Stopped(k) \/ Ended(k)
    BY <1>1 DEF Stopped, Ended
  <2> QED BY <1>1, <1>2, <2>1, <2>2, <2>3 DEF Answers, KeptFits
<1> QED BY <1>5, <1>6, <1>7, <1>8

\* The deletion is the last of the queue; it meets every answer of the turn.
LEMMA DeleteKeeps ==
  ASSUME Answers, Mutate, Head(tab.queue).op = "delete"
  PROVE  Asked' /\ TurnsFit' /\ GoneFits' /\ KeptFits'
<1> DEFINE q == tab.queue
<1>q. RestOK
  BY Split DEF Answers
<1>0. q \in Seq(Mutation) /\ q # <<>>
  BY <1>q DEF RestOK, Tab, Mutate
<1>1. /\ stored' = stored \ trailing /\ trailing' = {}
      /\ ordered' = (ordered /\ asked = tab.turn)
      /\ UNCHANGED <<row, published, run, shown, discarded, asked>>
  BY DEF Mutate, DeleteTrailing
<1>2. /\ tab'.queue = <<>> /\ tab'.view = tab.view
      /\ tab'.then = tab.then /\ tab'.turn = tab.turn
      /\ tab.then = "regenerate"
  <2>1. Tail(q) = <<>> /\ WillDelete(q)
    BY <1>0, ShrunkWill DEF Answers, Asked
  <2> QED BY <1>q, <2>1 DEF Mutate, RestOK, Tab, Answers, Asked
<1>3. \A k : Replaced(k)' <=> Replaced(k)
  BY <1>1, <1>2 DEF Replaced, OfTurn
<1>5. Asked'
  BY <1>1, <1>2, <1>3, NothingQueued DEF Answers, Asked
<1>6. TurnsFit'
  BY <1>1, <1>2 DEF Answers, TurnsFit
<1>7. \A k \in trailing : ordered' => Replaced(k)
  <2>1. trailing \subseteq stored /\ stored \subseteq Run
    BY <1>q DEF RestOK
  <2> QED BY <1>1, <1>2, <2>1 DEF Answers, Asked, TurnsFit, Replaced, OfTurn
<1>8. GoneFits'
  <2> SUFFICES ASSUME ordered', NEW k \in Run, ByTab(k)'
               PROVE  k \notin discarded /\ k \in shown
    BY <1>1, <1>2, NothingQueued DEF GoneFits
  <2>1. ByTab(k) /\ k \in stored /\ k \notin trailing
    BY <1>1 DEF ByTab
  <2>2. ~Replaced(k)
    BY <1>1, <2>1 DEF Answers, TurnsFit, Replaced, OfTurn
  <2> QED BY <1>1, <2>1, <2>2 DEF Answers, GoneFits
<1>9. KeptFits'
  <2> SUFFICES ASSUME ordered' PROVE KeptFits'
    BY DEF KeptFits
  <2>1. \A k \in Run : (Stopped(k) \/ Ended(k))' <=> Stopped(k) \/ Ended(k)
    BY <1>1 DEF Stopped, Ended
  <2>2. \A k \in Run : k \in trailing => k \in discarded
    BY <1>7 DEF Answers, Asked
  <2> QED BY <1>1, <1>2, <2>1, <2>2, NothingQueued DEF Answers, KeptFits
<1> QED BY <1>5, <1>6, <1>8, <1>9

\* The page is loaded anew: what is shown is what is stored.
LEMMA LoadKeeps ==
  ASSUME Answers, Load
  PROVE  Asked' /\ TurnsFit' /\ GoneFits' /\ KeptFits'
<1> DEFINE g == row.stream
           live == /\ g # NoRun /\ trailing = {}
                   /\ redis /\ run[g].pc \in {"streaming", "clearing", "saving"}
<1>q. RestOK
  BY Split DEF Answers
<1>1. /\ UNCHANGED <<row, published, run, stored, trailing, asked>>
      /\ shown' = stored /\ discarded' = discarded \ stored
      /\ ordered' = (ordered /\ (live => run[g].turn = asked))
  BY DEF Load, NoMessage, NoStop, messages
<1>2. /\ tab'.queue = <<>> /\ tab'.then = "nothing" /\ tab'.turn = asked
      /\ tab'.view = IF live THEN g ELSE NoRun
  BY <1>q DEF Load, RestOK, Tab
<1> HIDE DEF live
<1>3. \A k : ~Replaced(k)'
  BY <1>2 DEF Replaced
<1>4. Asked'
  <2>1. tab'.view # NoRun => run'[tab'.view].pc # "none"
    BY <1>1, <1>2 DEF live
  <2> QED BY <1>1, <1>2, <1>3, <2>1, NothingQueued DEF Answers, Asked
<1>5. TurnsFit'
  BY <1>1, <1>2 DEF Answers, TurnsFit
<1>6. GoneFits'
  BY <1>1, <1>2, NothingQueued DEF GoneFits, ByTab
<1>7. KeptFits'
  BY <1>1, <1>2, NothingQueued DEF Answers, KeptFits, Stopped, Ended
<1> QED BY <1>4, <1>5, <1>6, <1>7

LEMMA AnswersStep == Answers /\ [Next]_vars => Answers'
<1> SUFFICES ASSUME Answers, [Next]_vars
             PROVE  Asked' /\ TurnsFit' /\ GoneFits' /\ KeptFits'
  BY StepIsTyped DEF Answers
<1>1. CASE Next
  <2>1. CASE Mutate
    <3>1. Head(tab.queue).op \in {"cancel", "save", "delete"}
      BY <2>1 DEF Mutate
    <3> QED BY <2>1, <3>1, CancelKeeps, SaveKeeps, DeleteKeeps
  <2> QED BY <1>1, <2>1, HandlerKeeps, RedisKeeps, LookKeeps, PostKeeps, StopKeeps,
             ReplaceKeeps, LoadKeeps DEF Next, Uses
<1>2. CASE UNCHANGED vars
  BY <1>2, Quiet DEF vars, messages, Steady, Stopped, Ended
<1> QED BY <1>1, <1>2

LEMMA AnswersHold == Spec => []Answers
<1>1. Init => Answers
  <2> SUFFICES ASSUME Init PROVE Answers OBVIOUS
  <2>1. /\ stored = {} /\ trailing = {} /\ tab.view = NoRun /\ tab.queue = <<>>
        /\ tab.then = "nothing" /\ published = {} /\ row.canceled = NoRun
        /\ \A g \in Run : run[g].pc = "none" /\ run[g].cut = NoRun /\ run[g].refused = NoRun
    BY DEF Init, Cleared, Idle
  <2>2. \A g \in Run : g # NoRun
    BY ChatAssumption DEF Run, NoRun
  <2>3. Asked
    BY <2>1, NothingQueued DEF Asked, Replaced
  <2>4. TurnsFit /\ GoneFits
    BY <2>1, NothingQueued DEF TurnsFit, GoneFits, ByTab
  <2>5. KeptFits
    BY <2>1, <2>2, NothingQueued DEF KeptFits, Stopped, Ended
  <2> QED BY <2>3, <2>4, <2>5, InitIsTyped DEF Answers
<1> QED BY <1>1, AnswersStep, PTL DEF Spec

\* An answer that was given up does not come back, for any number of requests and
\* faults: the aborted handler leaves it to the tab (updateOnly), and the tab stores
\* only what it shows and deletes what it replaces.
THEOREM GivenUpIsGone == Spec => []DiscardedIsGone
<1>1. Answers => DiscardedIsGone
  <2> SUFFICES ASSUME Answers, ordered, tab.queue = <<>>, NEW g \in discarded,
                      run[g].cut # NoRun, ~run[g].timer
               PROVE  g \notin stored
    BY DEF DiscardedIsGone
  <2>1. g \in Run /\ ~WillDelete(tab.queue)
    BY NothingQueued DEF Answers, TypeOK
  <2> QED BY <2>1 DEF Answers, GoneFits, ByTab
<1> QED BY <1>1, AnswersHold, PTL

\* An answer that was not given up is stored once its run has ended, for any number
\* of requests and faults: who cancels a run stores its answer first, or gives it up.
THEOREM NotGivenUpIsKept == Spec => []FinishedIsKept
<1>1. Answers => FinishedIsKept
  BY DEF Answers, KeptFits, FinishedIsKept, Ended
<1> QED BY <1>1, AnswersHold, PTL

=============================================================================
