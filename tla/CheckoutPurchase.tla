-------------------------- MODULE CheckoutPurchase --------------------------
(***************************************************************************)
(* Buying extra usage at Stripe Checkout. Two routes learn that a session  *)
(* is paid for: the page the customer returns to, which asks Stripe        *)
(* (app/api/extra-usage/confirm), and the webhook, which reads the state   *)
(* that its event was created with (app/api/extra-usage/webhook). Both     *)
(* call the same mutation with the same key, so that the wallet is         *)
(* credited once whatever the order (addCredits in convex/extraUsage.ts).  *)
(* A team's purchase goes through routes of its own to addTeamCredits,     *)
(* which keeps no trail of the purchase.                                   *)
(*                                                                         *)
(* A mutation is one transaction. Its caller may lose the answer, or give  *)
(* up on a mutation that runs later nevertheless.                          *)
(***************************************************************************)
EXTENDS Naturals, FiniteSets

CONSTANTS
    Session,    \* Checkout Sessions
    Team,       \* those of teams
    Delayed,    \* those whose payment may settle after the checkout
    Request,    \* requests to the routes under way at once
    NoSession,
    MaxFaults   \* bound: mutations that fail and requests that die

\* Team sessions are created with payment_method_types: ["card"], and their
\* webhook listens to checkout.session.completed alone. So are the personal
\* ones, but their routes expect methods that settle later.
ASSUME Sessions ==
    /\ Team \subseteq Session
    /\ Delayed \subseteq Session \ Team
    /\ NoSession \notin Session
    /\ MaxFaults \in Nat

VARIABLES
    stripe,     \* Stripe: the state of each session
    sent,       \* Stripe: the events that were created
    due,        \* Stripe: those that are not answered with success yet
    trail,      \* extra_usage_purchases: the status of each purchase
    durable,    \* processed_checkout_sessions
    recent,     \* processed_webhooks
    credits,    \* the wallets: how often they were credited for a session
    request,    \* the requests under way
    late,       \* mutations whose caller gave up and that may still run
    faults

tables == <<trail, durable, recent, credits>>
vars == <<stripe, sent, due, tables, request, late, faults>>

Personal == Session \ Team

Statuses == {"none", "open", "unpaid", "paid", "failed"}
Marks == {"none", "created", "paid_seen", "failed", "credited"}
Event == [of: Session, type: {"completed", "succeeded", "failed"}, paid: BOOLEAN]
NoEvent == [of |-> NoSession, type |-> "none", paid |-> FALSE]
Mutation == [op: {"mark", "credit"}, of: Session, as: Marks]

\* Where a request is: at recordPurchasePaidSeen, at addCredits, at
\* recordPurchaseFailed after one of them threw, or at recordPurchaseFailed
\* for a payment that failed.
PCs == {"idle", "seen", "credit", "threw", "refused"}
Idle == [pc |-> "idle", of |-> NoSession, ev |-> NoEvent]
RequestState == [pc: PCs, of: Session \cup {NoSession}, ev: Event \cup {NoEvent}]

\* Types; and the purchases of teams leave no trail.
TypeOK ==
    /\ stripe \in [Session -> Statuses]
    /\ sent \subseteq Event /\ due \subseteq sent
    /\ trail \in [Session -> Marks]
    /\ durable \subseteq Session /\ recent \subseteq Session
    /\ credits \in [Session -> Nat]
    /\ request \in [Request -> RequestState]
    /\ late \subseteq Mutation
    /\ faults \in 0..MaxFaults
    /\ \A s \in Team : trail[s] = "none"
    /\ \A r \in Request : request[r].pc \in {"seen", "threw", "refused"} => request[r].of \in Personal

Init ==
    /\ stripe = [s \in Session |-> "none"]
    /\ sent = {} /\ due = {}
    /\ trail = [s \in Session |-> "none"]
    /\ durable = {} /\ recent = {}
    /\ credits = [s \in Session |-> 0]
    /\ request = [r \in Request |-> Idle]
    /\ late = {}
    /\ faults = 0

-----------------------------------------------------------------------------
(* The mutations *)

\* Mutant of Marked: a later mark takes the place of "credited".
MarkedLast(mark, s, as) == [mark EXCEPT ![s] = as]
\* upsertExtraUsagePurchase: a purchase that is credited stays so.
Marked(mark, s, as) ==
    IF mark[s] = "credited" THEN mark ELSE [mark EXCEPT ![s] = as]

\* recordPurchaseCreated, recordPurchasePaidSeen, recordPurchaseFailed
Mark(s, as) ==
    /\ trail' = Marked(trail, s, as)
    /\ UNCHANGED <<durable, recent, credits>>

\* Mutant of Known: only the table that is purged is looked up.
KnownLately(s) == s \in recent
\* The session was credited, as either table of keys says.
Known(s) == s \in durable \cup recent

\* addCredits and addTeamCredits: only the former keeps the trail.
AddCredits(s) ==
    /\ trail' = IF s \in Personal THEN Marked(trail, s, "credited") ELSE trail
    /\ IF Known(s)
       THEN UNCHANGED <<durable, recent, credits>>
       ELSE /\ credits' = [credits EXCEPT ![s] = @ + 1]
            /\ durable' = durable \cup {s}
            /\ recent' = recent \cup {s}

Run(m) == IF m.op = "mark" THEN Mark(m.of, m.as) ELSE AddCredits(m.of)

\* The mutation runs and is answered; or it throws as far as its caller can
\* tell: it ran, it did not, or it will later.
Answered(m) == Run(m) /\ UNCHANGED <<late, faults>>

Throws(m) ==
    /\ faults < MaxFaults
    /\ faults' = faults + 1
    /\ \/ Run(m) /\ UNCHANGED late
       \/ late' \in {late, late \cup {m}} /\ UNCHANGED tables

LateMutation ==
    \E m \in late :
        /\ Run(m)
        /\ late' = late \ {m}
        /\ UNCHANGED <<stripe, sent, due, request, faults>>

-----------------------------------------------------------------------------
(* Stripe and the customer *)

Emits(s, type, paid) ==
    LET e == [of |-> s, type |-> type, paid |-> paid] IN
    /\ sent' = sent \cup {e}
    /\ due' = due \cup {e}

\* createPurchaseSession, createTeamPurchaseSession: the session, and then its
\* record, without which the purchase goes on.
Create(s) ==
    LET m == [op |-> "mark", of |-> s, as |-> "created"] IN
    /\ stripe[s] = "none"
    /\ stripe' = [stripe EXCEPT ![s] = "open"]
    /\ IF s \in Personal THEN Answered(m) \/ Throws(m)
       ELSE UNCHANGED <<tables, late, faults>>
    /\ UNCHANGED <<sent, due, request>>

\* The customer completes the checkout, or the payment settles or fails later.
Complete(s) ==
    /\ stripe[s] = "open"
    /\ \/ stripe' = [stripe EXCEPT ![s] = "paid"] /\ Emits(s, "completed", TRUE)
       \/ /\ s \in Delayed
          /\ stripe' = [stripe EXCEPT ![s] = "unpaid"] /\ Emits(s, "completed", FALSE)
    /\ UNCHANGED <<tables, request, late, faults>>

Settle(s) ==
    /\ stripe[s] = "unpaid"
    /\ \/ stripe' = [stripe EXCEPT ![s] = "paid"] /\ Emits(s, "succeeded", TRUE)
       \/ stripe' = [stripe EXCEPT ![s] = "failed"] /\ Emits(s, "failed", FALSE)
    /\ UNCHANGED <<tables, request, late, faults>>

-----------------------------------------------------------------------------
(* The routes *)

Goto(r, pc) == request' = [request EXCEPT ![r].pc = pc]
Ends(r) == request' = [request EXCEPT ![r] = Idle]
Begins(r, pc, s, e) == request' = [request EXCEPT ![r] = [pc |-> pc, of |-> s, ev |-> e]]

\* Mutant of FirstStep: a team's purchase is recorded with the personal ones.
FirstSeen(s) == "seen"
\* Where a route goes for a session that it takes for paid.
FirstStep(s) == IF s \in Personal THEN "seen" ELSE "credit"

\* The customer returns, or loads the page again: the session is retrieved.
\* One that is not paid leads to a redirect and nothing else.
Confirm(r, s) ==
    /\ request[r].pc = "idle"
    /\ stripe[s] = "paid"
    /\ Begins(r, FirstStep(s), s, NoEvent)
    /\ UNCHANGED <<stripe, sent, due, tables, late, faults>>

\* The personal webhook looks at payment_status, the team's does not.
TakenForPaid(e) == e.type # "failed" /\ (e.of \in Team \/ e.paid)

\* The webhook is called with an event, for the first time or again.
Deliver(r, e) ==
    /\ request[r].pc = "idle"
    /\ IF e.type = "failed" THEN Begins(r, "refused", e.of, e) /\ UNCHANGED due
       ELSE IF TakenForPaid(e) THEN Begins(r, FirstStep(e.of), e.of, e) /\ UNCHANGED due
       ELSE due' = due \ {e} /\ UNCHANGED request
    /\ UNCHANGED <<stripe, sent, tables, late, faults>>

\* The webhook answers with success; the page redirects.
Succeeds(r) ==
    /\ Ends(r)
    /\ due' = due \ {request[r].ev}

\* recordPurchasePaidSeen
PaidSeen(r) ==
    LET m == [op |-> "mark", of |-> request[r].of, as |-> "paid_seen"] IN
    /\ request[r].pc = "seen"
    /\ \/ Answered(m) /\ Goto(r, "credit")
       \/ Throws(m) /\ Goto(r, "threw")
    /\ UNCHANGED <<stripe, sent, due>>

\* Mutant of Credit: a webhook whose mutation throws answers with success.
CreditOrLog(r) ==
    LET m == [op |-> "credit", of |-> request[r].of, as |-> "credited"] IN
    /\ request[r].pc = "credit"
    /\ Answered(m) \/ Throws(m)
    /\ Succeeds(r)
    /\ UNCHANGED <<stripe, sent>>
\* addCredits, addTeamCredits. When it throws the personal routes record that;
\* the team's webhook answers with 500 at once.
Credit(r) ==
    LET s == request[r].of
        m == [op |-> "credit", of |-> s, as |-> "credited"]
    IN
    /\ request[r].pc = "credit"
    /\ \/ Answered(m) /\ Succeeds(r)
       \/ /\ Throws(m)
          /\ IF s \in Personal THEN Goto(r, "threw") ELSE Ends(r)
          /\ UNCHANGED due
    /\ UNCHANGED <<stripe, sent>>

\* recordPurchaseFailed in the catch block: then the webhook answers with 500
\* and Stripe calls again, whether or not the failure was recorded.
RecordThrown(r) ==
    LET m == [op |-> "mark", of |-> request[r].of, as |-> "failed"] IN
    /\ request[r].pc = "threw"
    /\ Answered(m) \/ Throws(m)
    /\ Ends(r)
    /\ UNCHANGED <<stripe, sent, due>>

\* recordPurchaseFailed for checkout.session.async_payment_failed
RecordRefused(r) ==
    LET m == [op |-> "mark", of |-> request[r].of, as |-> "failed"] IN
    /\ request[r].pc = "refused"
    /\ \/ Answered(m) /\ Succeeds(r)
       \/ Throws(m) /\ Ends(r) /\ UNCHANGED due
    /\ UNCHANGED <<stripe, sent>>

\* The process dies between two awaits.
Die(r) ==
    /\ request[r].pc # "idle"
    /\ faults < MaxFaults
    /\ faults' = faults + 1
    /\ Ends(r)
    /\ UNCHANGED <<stripe, sent, due, tables, late>>

\* purgeOldProcessedWebhooks: a row of processed_webhooks grows old.
Purge ==
    /\ \E s \in recent : recent' = recent \ {s}
    /\ UNCHANGED <<stripe, sent, due, trail, durable, credits, request, late, faults>>

Step(r) == PaidSeen(r) \/ Credit(r) \/ RecordThrown(r) \/ RecordRefused(r)

Next ==
    \/ \E s \in Session : Create(s) \/ Complete(s) \/ Settle(s)
    \/ \E r \in Request :
          \/ \E s \in Session : Confirm(r, s)
          \/ \E e \in sent : Deliver(r, e)
          \/ Step(r)
          \/ Die(r)
    \/ LateMutation
    \/ Purge

Spec == Init /\ [][Next]_vars

\* A request goes on, and Stripe calls again for the events of a session until
\* each is answered with success.
Retried(s) == \E e \in due, r \in Request : e.of = s /\ Deliver(r, e)
FairSpec ==
    /\ Spec
    /\ \A r \in Request : WF_vars(Step(r))
    /\ \A s \in Session : SF_vars(Retried(s))

-----------------------------------------------------------------------------
(* Properties *)

Paid == {s \in Session : stripe[s] = "paid"}

\* addCredits is one transaction over the wallet, both tables of keys and the
\* trail, and upsertExtraUsagePurchase never takes "credited" back: the trail
\* that support reads says that a purchase is credited exactly when the wallet
\* was credited for it, whatever late or repeated mark arrives after that.
TrailFollowsCredit ==
    \A s \in Personal : trail[s] = "credited" <=> credits[s] > 0

\* Whoever credits first, the page, the webhook or one of its retries, and
\* however late a mutation runs: each session is credited at most once, also
\* after processed_webhooks was purged, and only one that is paid for.
Ledger == INSTANCE PurchaseLedger WITH paid <- Paid
ImplementsLedger == Ledger!LedgerSpec

\* A session that is paid for is credited in the end, even if the customer
\* never returns: a webhook that fails answers with 500 and is called again.
PaidIsCredited == \A s \in Session : stripe[s] = "paid" ~> credits[s] = 1
=============================================================================
