------------------------------- MODULE Paywall -------------------------------
(***************************************************************************)
(* The paywall of the resume builder: who may read the output of a run,    *)
(* and how a payment at Stripe or NOWPayments opens it.  The database rows *)
(* (users, agent_runs, payments, stripe_events, crypto_webhook_events) are *)
(* variables; every HTTP handler is cut where it awaits with a value it    *)
(* read still in hand, so that two requests interleave as they do in the   *)
(* one asyncio process over READ COMMITTED transactions.                   *)
(***************************************************************************)
EXTENDS Integers

CONSTANTS
    Users,            \* accounts
    Runs,             \* agent_runs rows that can ever exist
    Sessions,         \* Stripe checkout sessions; also the ids of their events
    Invoices,         \* NOWPayments payments
    Verifiers,        \* concurrent calls of /billing/stripe/verify
    MaxPayments,      \* bound: rows of the payments table
    Window,           \* the 24 hours a payment opens, in clock ticks
    MaxTime,          \* bound: clock ticks
    MaxRestarts,      \* bound: crashes of the web process
    PaymentsEnabled,  \* settings.payments_enabled
    CompletedAs,      \* payment_status a checkout may carry when it completes
    None              \* SQL NULL

ASSUME PaywallAssumption ==
    /\ MaxPayments \in Nat /\ Window \in Nat /\ MaxTime \in Nat /\ MaxRestarts \in Nat
    /\ PaymentsEnabled \in BOOLEAN
    /\ CompletedAs \subseteq {"paid", "unpaid"}  \* "unpaid": a delayed payment method
    /\ None \notin Users \cup Runs \cup Sessions \cup Invoices
    /\ Sessions \cap Invoices = {}

VARIABLES
    now,            \* the wall clock
    restarts,       \* crashes so far
    freeTrialUsed,  \* users.free_trial_used
    run,            \* agent_runs, and the launch request that will insert a row
    exec,           \* the asyncio task of a run, with the lock flag it captured
    pay,            \* payments; a larger id has a later created_at
    session,        \* Stripe's checkout sessions, with the metadata we attached
    invoice,        \* NOWPayments' payments, and how far our answer to the customer is
    stripeEvents,   \* stripe_events: sessions whose completed event is recorded
    cryptoEvents,   \* crypto_webhook_events: payment ids with a recorded IPN
    ipnAcked,       \* invoices whose "finished" IPN has been answered with 200
    hook,           \* the Stripe webhook handler of each event
    verify          \* the verify handlers in flight

tables == <<freeTrialUsed, run, pay, stripeEvents, cryptoEvents>>
providers == <<session, invoice, ipnAcked>>
requests == <<exec, hook, verify>>
clock == <<now, restarts>>
vars == <<clock, tables, providers, requests>>

PayIds == 1 .. MaxPayments
NoPay == 0
Refs == Sessions \cup Invoices
Created == {"queued", "running", "completed", "failed"}
Completed == {"unpaid", "paid", "lapsed"}  \* Stripe has sent checkout.session.completed

RunRow == [state: {"absent", "deciding"} \cup Created, user: Users \cup {None},
           mode: {"none", "asked", "free", "paid", "locked"},
           locked: BOOLEAN, free: BOOLEAN, payment: PayIds \cup {NoPay}]
PayRow == [state: {"absent", "pending", "confirmed"}, provider: {"none", "stripe", "crypto"},
           user: Users \cup {None}, run: Runs \cup {None}, ref: Refs \cup {None},
           confirmedAt: 0 .. MaxTime]

NoRun == [state |-> "absent", user |-> None, mode |-> "none",
          locked |-> FALSE, free |-> FALSE, payment |-> NoPay]
NoPayRow == [state |-> "absent", provider |-> "none", user |-> None, run |-> None,
             ref |-> None, confirmedAt |-> 0]
NoSession == [state |-> "none", user |-> None, run |-> None]
NoInvoice == [state |-> "none", answer |-> "none", user |-> None, run |-> None]
IdleHook == [pc |-> "idle", pay |-> NoPay, ref |-> None]
IdleVerify == [pc |-> "idle", run |-> None, pay |-> NoPay, ref |-> None, session |-> None]

TypeOK ==
    /\ now \in 0 .. MaxTime
    /\ restarts \in 0 .. MaxRestarts
    /\ freeTrialUsed \in [Users -> BOOLEAN]
    /\ run \in [Runs -> RunRow]
    /\ exec \in [Runs -> {"none", "ready", "sawLocked", "sawOpen"}]
    /\ pay \in [PayIds -> PayRow]
    /\ session \in [Sessions -> [state: {"none", "open"} \cup Completed,
                                 user: Users \cup {None}, run: Runs \cup {None}]]
    /\ invoice \in [Invoices -> [state: {"none", "waiting", "finished"},
                                 answer: {"none", "due", "given"},
                                 user: Users \cup {None}, run: Runs \cup {None}]]
    /\ stripeEvents \in SUBSET Sessions
    /\ cryptoEvents \in SUBSET Invoices
    /\ ipnAcked \in SUBSET Invoices
    /\ hook \in [Sessions -> [pc: {"idle", "selected"}, pay: PayIds \cup {NoPay},
                              ref: Refs \cup {None}]]
    /\ verify \in [Verifiers -> [pc: {"idle", "sawLocked", "unconfirmed", "listed",
                                      "unowned", "chosen"},
                                 run: Runs \cup {None}, pay: PayIds \cup {NoPay},
                                 ref: Refs \cup {None}, session: Sessions \cup {None}]]

Init ==
    /\ now = 0 /\ restarts = 0
    /\ freeTrialUsed = [u \in Users |-> FALSE]
    /\ run = [r \in Runs |-> NoRun]
    /\ exec = [r \in Runs |-> "none"]
    /\ pay = [p \in PayIds |-> NoPayRow]
    /\ session = [s \in Sessions |-> NoSession]
    /\ invoice = [i \in Invoices |-> NoInvoice]
    /\ stripeEvents = {} /\ cryptoEvents = {} /\ ipnAcked = {}
    /\ hook = [s \in Sessions |-> IdleHook]
    /\ verify = [v \in Verifiers |-> IdleVerify]

-----------------------------------------------------------------------------
(* Rows and access decisions.                                              *)

Exists(r) == run[r].state \in Created

\* ORDER BY created_at DESC LIMIT 1.
Latest(P) == CHOOSE p \in P : \A q \in P : q <= p

\* The row an INSERT creates; no id is left once MaxPayments rows exist.
FreePays == {p \in PayIds : pay[p].state = "absent"}
NextPay == CHOOSE p \in FreePays : \A q \in FreePays : p <= q

StripeRows(u, r, states) ==
    {p \in PayIds : /\ pay[p].provider = "stripe" /\ pay[p].state \in states
                    /\ pay[p].user = u /\ pay[p].run = r}

\* UNIQUE(payments.provider_payment_id): the flush that gives row p the
\* reference fails when another row holds it.
RefTaken(ref, p) == \E q \in PayIds \ {p} : pay[q].ref = ref

\* An ORM attribute set to the value it was loaded with is not part of the
\* UPDATE, so what the database holds by then survives.
WriteBackAlways(loaded, value, stored) == value  \* a slip: every attribute is in the UPDATE
WriteBack(loaded, value, stored) == IF value = loaded THEN stored ELSE value

ActivePayment(p) == pay[p].state = "confirmed" /\ pay[p].confirmedAt + Window >= now

ActivePays(u) == {p \in PayIds : pay[p].user = u /\ ActivePayment(p)}

\* get_active_payment: the latest confirmed_at, then the latest created_at.
GetActivePayment(u) ==
    Latest({p \in ActivePays(u) :
              \A q \in ActivePays(u) : pay[q].confirmedAt <= pay[p].confirmedAt})

\* What the request's own copy of the user says: can_start_run's session.get
\* returns the object get_current_user loaded, and does not read the row again.
FreeAsLoaded(u) == ~PaymentsEnabled \/ ~freeTrialUsed[u]

CanViewOutput(u, r) ==
    /\ run[r].user = u
    /\ \/ ~PaymentsEnabled
       \/ ~run[r].locked
       \/ run[r].payment # NoPay /\ pay[run[r].payment].state = "confirmed"
       \/ \E p \in PayIds : pay[p].run = r /\ pay[p].user = u /\ pay[p].state = "confirmed"

CanExportPaidOnly(u, r) == CanViewOutput(u, r) /\ run[r].payment # NoPay  \* a slip: a free run has nothing to export
CanExport(u, r) ==
    /\ CanViewOutput(u, r)
    /\ ~PaymentsEnabled \/ run[r].free \/ run[r].payment # NoPay

\* POST /exports applies a rule of its own and never calls can_export.
CreateExport(u, r, format) ==
    CanViewOutput(u, r) /\ (run[r].free => format = "txt")

PendingRow(provider, u, r, ref) ==
    [state |-> "pending", provider |-> provider, user |-> u, run |-> r, ref |-> ref,
     confirmedAt |-> 0]

\* status, confirmed_at, provider_payment_id and run_id as every confirmation
\* sets them; the clock is read again even when confirmed_at is already set.
ConfirmedRow(row, r, ref) ==
    [row EXCEPT !.state = "confirmed", !.confirmedAt = now, !.ref = ref, !.run = r]

LinkRun(p, r) == run' = [run EXCEPT ![r].payment = p]  \* a slip: the lock stays
UnlockRun(p, r) == run' = [run EXCEPT ![r].locked = FALSE, ![r].payment = p]

-----------------------------------------------------------------------------
(* Launching and executing runs.                                           *)

\* A launch request begins: get_current_user loads the user, and with it the
\* trial flag that the whole request goes by.
LaunchAsk(u, r) ==
    /\ run[r].state = "absent"
    /\ run' = [run EXCEPT ![r] = [NoRun EXCEPT !.state = "deciding", !.user = u,
                                     !.mode = IF FreeAsLoaded(u) THEN "free" ELSE "asked"]]
    /\ UNCHANGED <<clock, freeTrialUsed, pay, stripeEvents, cryptoEvents, providers, requests>>

\* can_start_run of a user whose trial is used: the payments are queried.
LaunchDecide(r) ==
    /\ run[r].mode = "asked"
    /\ run' = [run EXCEPT ![r].mode = IF ActivePays(run[r].user) # {} THEN "paid"
                                                                     ELSE "locked"]
    /\ UNCHANGED <<clock, freeTrialUsed, pay, stripeEvents, cryptoEvents, providers, requests>>

\* The payment of a PAID decision is looked up again; an expired window
\* downgrades the run to a locked one.  Then the INSERT and its commit.
LaunchCommit(r) ==
    LET u == run[r].user
        p == IF run[r].mode = "paid" /\ ActivePays(u) # {} THEN GetActivePayment(u) ELSE NoPay
    IN  /\ run[r].state = "deciding" /\ run[r].mode # "asked"
        /\ run' = [run EXCEPT ![r] = [@ EXCEPT !.state = "queued", !.mode = "none",
                                        !.locked = (run[r].mode # "free" /\ p = NoPay),
                                        !.free = (run[r].mode = "free"),
                                        !.payment = p]]
        /\ exec' = [exec EXCEPT ![r] = "ready"]
        /\ UNCHANGED <<clock, freeTrialUsed, pay, stripeEvents, cryptoEvents, providers,
                       hook, verify>>

\* The background task loads the row, commits status = running and keeps the
\* lock flag it has just loaded until the run is over.
ExecStart(r) ==
    /\ exec[r] = "ready"
    /\ run' = [run EXCEPT ![r].state = "running"]
    /\ exec' = [exec EXCEPT ![r] = IF run[r].locked THEN "sawLocked" ELSE "sawOpen"]
    /\ UNCHANGED <<clock, freeTrialUsed, pay, stripeEvents, cryptoEvents, providers,
                   hook, verify>>

ExecFinishAnyEnd(r, outcome) ==  \* a slip: a failed free run uses the trial up
    /\ exec[r] \in {"sawLocked", "sawOpen"}
    /\ run' = [run EXCEPT ![r].state = outcome]
    /\ freeTrialUsed' = IF run[r].free THEN [freeTrialUsed EXCEPT ![run[r].user] = TRUE]
                                      ELSE freeTrialUsed
    /\ exec' = [exec EXCEPT ![r] = "none"]
    /\ UNCHANGED <<clock, pay, stripeEvents, cryptoEvents, providers, hook, verify>>

ExecFinishMarksFailure(r, outcome) ==  \* a slip: the trial is marked on failure instead
    /\ exec[r] \in {"sawLocked", "sawOpen"}
    /\ run' = [run EXCEPT ![r].state = outcome]
    /\ freeTrialUsed' = IF run[r].free /\ outcome = "failed"
                        THEN [freeTrialUsed EXCEPT ![run[r].user] = TRUE] ELSE freeTrialUsed
    /\ exec' = [exec EXCEPT ![r] = "none"]
    /\ UNCHANGED <<clock, pay, stripeEvents, cryptoEvents, providers, hook, verify>>

\* The last commit of execute_run: the captured flag is assigned back, and a
\* completed free run uses the trial up in the same transaction.
ExecFinish(r, outcome) ==
    LET captured == exec[r] = "sawLocked"
    IN  /\ exec[r] \in {"sawLocked", "sawOpen"}
        /\ run' = [run EXCEPT ![r] = [@ EXCEPT !.state = outcome,
                       !.locked = WriteBack(captured, captured, run[r].locked)]]
        /\ freeTrialUsed' = IF run[r].free /\ outcome = "completed"
                            THEN [freeTrialUsed EXCEPT ![run[r].user] = TRUE]
                            ELSE freeTrialUsed
        /\ exec' = [exec EXCEPT ![r] = "none"]
        /\ UNCHANGED <<clock, pay, stripeEvents, cryptoEvents, providers, hook, verify>>

-----------------------------------------------------------------------------
(* Stripe: checkout, the customer, the webhook, the verify endpoint.       *)

\* No await separates the session's creation from the UPDATE that stores its
\* id, and the row is invisible before the commit: one step.
StripeCheckout(r, s) ==
    /\ PaymentsEnabled /\ Exists(r)
    /\ session[s].state = "none" /\ FreePays # {}
    /\ session' = [session EXCEPT ![s] = [state |-> "open", user |-> run[r].user, run |-> r]]
    /\ pay' = [pay EXCEPT ![NextPay] = PendingRow("stripe", run[r].user, r, s)]
    /\ UNCHANGED <<clock, freeTrialUsed, run, stripeEvents, cryptoEvents, invoice, ipnAcked,
                   requests>>

\* Stripe has the session, the transaction that held its row rolled back: the
\* case the webhook's insert and the verify endpoint's listing are written for.
CheckoutRowLost(r, s) ==
    /\ PaymentsEnabled /\ Exists(r)
    /\ session[s].state = "none"
    /\ session' = [session EXCEPT ![s] = [state |-> "open", user |-> run[r].user, run |-> r]]
    /\ UNCHANGED <<clock, tables, invoice, ipnAcked, requests>>

\* create_checkout_session names no payment methods, so the account's setting
\* decides which the customer is offered; with a delayed one (a bank debit) the
\* session completes "unpaid".
CustomerCompletes(s) ==
    /\ session[s].state = "open"
    /\ \E status \in CompletedAs : session' = [session EXCEPT ![s].state = status]
    /\ UNCHANGED <<clock, tables, invoice, ipnAcked, requests>>

\* The delayed payment arrives or fails days later; the webhook records the
\* async_payment event of either and does nothing else.
DelayedPayment(s) ==
    /\ session[s].state = "unpaid"
    /\ \E status \in {"paid", "lapsed"} : session' = [session EXCEPT ![s].state = status]
    /\ UNCHANGED <<clock, tables, invoice, ipnAcked, requests>>

SelectedFor(s) ==
    LET rows == StripeRows(session[s].user, session[s].run, {"pending", "confirmed"})
    IN  [pc |-> "selected",
         pay |-> IF rows = {} THEN NoPay ELSE Latest(rows),
         ref |-> IF rows = {} THEN None ELSE pay[Latest(rows)].ref]

StripeWebhookSelectEarly(s) ==  \* a slip: the event row is committed before the work
    /\ session[s].state \in Completed /\ s \notin stripeEvents
    /\ hook[s].pc = "idle"
    /\ hook' = [hook EXCEPT ![s] = SelectedFor(s)]
    /\ stripeEvents' = stripeEvents \cup {s}
    /\ UNCHANGED <<clock, freeTrialUsed, run, pay, cryptoEvents, providers, exec, verify>>
StripeWebhookSelectAgain(s) ==  \* a slip: no look at stripe_events
    /\ session[s].state \in Completed
    /\ hook[s].pc = "idle"
    /\ hook' = [hook EXCEPT ![s] = SelectedFor(s)]
    /\ UNCHANGED <<clock, tables, providers, exec, verify>>

\* A delivery of checkout.session.completed that finds no stripe_events row:
\* the session's payment_status is not looked at, the payment is selected by
\* run and user, newest first and whatever its status.  The event
\* row is flushed by then, so a second delivery waits for this one to end.
StripeWebhookSelect(s) ==
    /\ session[s].state \in Completed /\ s \notin stripeEvents
    /\ hook[s].pc = "idle"
    /\ hook' = [hook EXCEPT ![s] = SelectedFor(s)]
    /\ UNCHANGED <<clock, tables, providers, exec, verify>>

HookPay(s) == IF hook[s].pay = NoPay THEN NextPay ELSE hook[s].pay
HookRow(s) ==
    IF hook[s].pay = NoPay THEN PendingRow("stripe", session[s].user, session[s].run, s)
                           ELSE pay[hook[s].pay]
HookRef(s) ==
    IF hook[s].pay = NoPay THEN s ELSE WriteBack(hook[s].ref, s, pay[hook[s].pay].ref)

StripeWebhookCommit(s) ==
    /\ hook[s].pc = "selected"
    /\ hook[s].pay = NoPay => FreePays # {}
    /\ ~RefTaken(HookRef(s), HookPay(s))
    /\ pay' = [pay EXCEPT ![HookPay(s)] = ConfirmedRow(HookRow(s), session[s].run, HookRef(s))]
    /\ UnlockRun(HookPay(s), session[s].run)
    /\ stripeEvents' = stripeEvents \cup {s}
    /\ hook' = [hook EXCEPT ![s] = IdleHook]
    /\ UNCHANGED <<clock, freeTrialUsed, cryptoEvents, providers, exec, verify>>

\* IntegrityError: everything rolls back, the answer is 500 and Stripe will
\* deliver the event again.
StripeWebhookConflict(s) ==
    /\ hook[s].pc = "selected"
    /\ hook[s].pay = NoPay => FreePays # {}
    /\ RefTaken(HookRef(s), HookPay(s))
    /\ hook' = [hook EXCEPT ![s] = IdleHook]
    /\ UNCHANGED <<clock, tables, providers, exec, verify>>

\* stripe_verify loads the run and answers at once when it is open; the flag
\* it saw is not read again.
VerifyRead(v, r) ==
    /\ PaymentsEnabled /\ Exists(r)
    /\ verify[v].pc = "idle" /\ run[r].locked
    /\ verify' = [verify EXCEPT ![v] = [IdleVerify EXCEPT !.pc = "sawLocked", !.run = r]]
    /\ UNCHANGED <<clock, tables, providers, exec, hook>>

PaidPendingUnchecked(u, r) ==  \* a slip: payment_status is not looked at
    {p \in StripeRows(u, r, {"pending"}) : pay[p].ref \in Sessions}
PaidPending(u, r) ==
    {p \in StripeRows(u, r, {"pending"}) :
        pay[p].ref \in Sessions /\ session[pay[p].ref].state = "paid"}

ListedAnyRun(u, r) ==  \* a slip: the run in the metadata is not compared
    {s \in Sessions : session[s].state = "paid" /\ session[s].user = u}
\* Session.list, filtered by metadata and payment_status.
Listed(u, r) ==
    {s \in Sessions : session[s] = [state |-> "paid", user |-> u, run |-> r]}

Choose(v, p, s) ==
    verify' = [verify EXCEPT ![v] = [@ EXCEPT !.pc = "chosen", !.pay = p, !.session = s,
                                       !.ref = IF p = NoPay THEN None ELSE pay[p].ref]]

\* sync_stripe_payment_for_run, one SELECT after the other.  A confirmed
\* payment of the run settles it ...
VerifyConfirmed(v) ==
    LET rows == StripeRows(run[verify[v].run].user, verify[v].run, {"confirmed"})
    IN  /\ verify[v].pc = "sawLocked"
        /\ \/ \E p \in rows : Choose(v, p, None)
           \/ rows = {} /\ verify' = [verify EXCEPT ![v].pc = "unconfirmed"]
        /\ UNCHANGED <<clock, tables, providers, exec, hook>>

VerifyPendingNewest(v) ==  \* a slip: only the newest pending row is looked up
    LET r == verify[v].run
        rows == StripeRows(run[r].user, r, {"pending"})
    IN  /\ verify[v].pc = "unconfirmed"
        /\ IF rows # {} /\ Latest(rows) \in PaidPending(run[r].user, r)
           THEN Choose(v, Latest(rows), pay[Latest(rows)].ref)
           ELSE verify' = [verify EXCEPT ![v] = IdleVerify]
        /\ UNCHANGED <<clock, tables, providers, exec, hook>>

\* ... else the newest pending one that Stripe calls paid, else any paid
\* session of the listing whose metadata names this run and user, else the
\* answer is False; Stripe is called without an await ...
VerifyPending(v) ==
    LET r == verify[v].run
        rows == PaidPending(run[r].user, r)
        listed == Listed(run[r].user, r)
    IN  /\ verify[v].pc = "unconfirmed"
        /\ \/ rows # {} /\ Choose(v, Latest(rows), pay[Latest(rows)].ref)
           \/ /\ rows = {}
              /\ \E s \in listed :
                     verify' = [verify EXCEPT ![v].pc = "listed", ![v].session = s]
           \/ rows = {} /\ listed = {} /\ verify' = [verify EXCEPT ![v] = IdleVerify]
        /\ UNCHANGED <<clock, tables, providers, exec, hook>>

\* ... _payment_for_session takes the row of the listed session ...
VerifyOwn(v) ==
    LET own == {p \in PayIds : pay[p].provider = "stripe" /\ pay[p].ref = verify[v].session}
    IN  /\ verify[v].pc = "listed"
        /\ \/ own # {} /\ Choose(v, Latest(own), verify[v].session)
           \/ own = {} /\ verify' = [verify EXCEPT ![v].pc = "unowned"]
        /\ UNCHANGED <<clock, tables, providers, exec, hook>>

\* ... else the newest pending row of the run, else a row to insert.
VerifyUnowned(v) ==
    LET rows == StripeRows(run[verify[v].run].user, verify[v].run, {"pending"})
    IN  /\ verify[v].pc = "unowned"
        /\ Choose(v, IF rows = {} THEN NoPay ELSE Latest(rows), verify[v].session)
        /\ UNCHANGED <<clock, tables, providers, exec, hook>>

VerifyPay(v) == IF verify[v].pay = NoPay THEN NextPay ELSE verify[v].pay
VerifyRow(v) ==
    IF verify[v].pay = NoPay
    THEN PendingRow("stripe", run[verify[v].run].user, verify[v].run, verify[v].session)
    ELSE pay[verify[v].pay]
VerifyRef(v) ==
    IF verify[v].pay = NoPay THEN verify[v].session
    ELSE WriteBack(verify[v].ref, verify[v].session, pay[verify[v].pay].ref)

\* confirm_stripe_payment and its commit.
VerifyCommit(v) ==
    /\ verify[v].pc = "chosen" /\ verify[v].session # None
    /\ verify[v].pay = NoPay => FreePays # {}
    /\ ~RefTaken(VerifyRef(v), VerifyPay(v))
    /\ pay' = [pay EXCEPT ![VerifyPay(v)] =
                   ConfirmedRow(VerifyRow(v), verify[v].run, VerifyRef(v))]
    /\ UnlockRun(VerifyPay(v), verify[v].run)
    /\ verify' = [verify EXCEPT ![v] = IdleVerify]
    /\ UNCHANGED <<clock, freeTrialUsed, stripeEvents, cryptoEvents, providers, exec, hook>>

\* The branch for a payment that was confirmed already: only the run changes.
VerifyUnlock(v) ==
    /\ verify[v].pc = "chosen" /\ verify[v].session = None
    /\ UnlockRun(verify[v].pay, verify[v].run)
    /\ verify' = [verify EXCEPT ![v] = IdleVerify]
    /\ UNCHANGED <<clock, freeTrialUsed, pay, stripeEvents, cryptoEvents, providers, exec, hook>>

VerifyConflict(v) ==
    /\ verify[v].pc = "chosen" /\ verify[v].session # None
    /\ verify[v].pay = NoPay => FreePays # {}
    /\ RefTaken(VerifyRef(v), VerifyPay(v))
    /\ verify' = [verify EXCEPT ![v] = IdleVerify]
    /\ UNCHANGED <<clock, tables, providers, exec, hook>>

-----------------------------------------------------------------------------
(* NOWPayments: invoice, its status, the IPN webhook.                      *)

\* crypto_invoice awaits NOWPayments first ...
CryptoInvoice(r, i) ==
    /\ PaymentsEnabled /\ Exists(r)
    /\ invoice[i].state = "none"
    /\ invoice' = [invoice EXCEPT ![i] = [state |-> "waiting", answer |-> "due",
                                          user |-> run[r].user, run |-> r]]
    /\ UNCHANGED <<clock, tables, session, ipnAcked, requests>>

\* ... and only then inserts the payment, under the payment_id of the reply or,
\* when the reply has none, under a fresh uuid that no provider knows: None.
CryptoInvoiceCommit(i) ==
    /\ invoice[i].answer = "due" /\ FreePays # {}
    /\ \E ref \in {i, None} :
           pay' = [pay EXCEPT ![NextPay] =
                       PendingRow("crypto", invoice[i].user, invoice[i].run, ref)]
    /\ invoice' = [invoice EXCEPT ![i].answer = "given"]
    /\ UNCHANGED <<clock, freeTrialUsed, run, stripeEvents, cryptoEvents, session, ipnAcked,
                   requests>>

\* The customer gets the address with the response, so after the commit.
CryptoPaid(i) ==
    /\ invoice[i].state = "waiting" /\ invoice[i].answer = "given"
    /\ invoice' = [invoice EXCEPT ![i].state = "finished"]
    /\ UNCHANGED <<clock, tables, session, ipnAcked, requests>>

\* An IPN reports a status the payment has reached; any may arrive late or
\* again.  A handler reads nothing that another can change under it but the
\* event table, whose unique key makes the loser roll back: one step.
CryptoIpn(i, status) ==
    LET paid == {p \in PayIds : pay[p].ref = i /\ status = "finished" /\ i \notin cryptoEvents}
    IN  /\ invoice[i].state # "none" /\ status \in {"waiting", invoice[i].state}
        /\ cryptoEvents' = cryptoEvents \cup {i}
        /\ ipnAcked' = IF status = "finished" THEN ipnAcked \cup {i} ELSE ipnAcked
        /\ pay' = [p \in PayIds |-> IF p \in paid THEN ConfirmedRow(pay[p], pay[p].run, i)
                                                  ELSE pay[p]]
        /\ IF paid = {} THEN UNCHANGED run
                        ELSE UnlockRun(Latest(paid), pay[Latest(paid)].run)
        /\ UNCHANGED <<clock, freeTrialUsed, stripeEvents, session, invoice, requests>>

-----------------------------------------------------------------------------

Tick ==
    /\ now < MaxTime
    /\ now' = now + 1
    /\ UNCHANGED <<restarts, tables, providers, requests>>

\* The web process dies: requests, background tasks and open transactions are
\* gone, and nothing at startup looks for runs that were under way.
Restart ==
    /\ restarts < MaxRestarts
    /\ restarts' = restarts + 1
    /\ run' = [r \in Runs |-> IF run[r].state = "deciding" THEN NoRun ELSE run[r]]
    /\ exec' = [r \in Runs |-> "none"]
    /\ invoice' = [i \in Invoices |-> [invoice[i] EXCEPT
                      !.answer = IF invoice[i].answer = "due" THEN "none" ELSE @]]
    /\ hook' = [s \in Sessions |-> IdleHook]
    /\ verify' = [v \in Verifiers |-> IdleVerify]
    /\ UNCHANGED <<now, freeTrialUsed, pay, stripeEvents, cryptoEvents, session, ipnAcked>>

RunNext ==
    \E r \in Runs :
        \/ \E u \in Users : LaunchAsk(u, r)
        \/ LaunchDecide(r)
        \/ LaunchCommit(r)
        \/ ExecStart(r)
        \/ \E outcome \in {"completed", "failed"} : ExecFinish(r, outcome)

WebhookNext(s) ==
    StripeWebhookSelect(s) \/ StripeWebhookCommit(s) \/ StripeWebhookConflict(s)

StripeNext ==
    \E s \in Sessions :
        \/ \E r \in Runs : StripeCheckout(r, s) \/ CheckoutRowLost(r, s)
        \/ CustomerCompletes(s)
        \/ DelayedPayment(s)
        \/ WebhookNext(s)

VerifyLook(v) == VerifyConfirmed(v) \/ VerifyPending(v) \/ VerifyOwn(v) \/ VerifyUnowned(v)
VerifyStep(v) == VerifyLook(v) \/ VerifyCommit(v) \/ VerifyUnlock(v) \/ VerifyConflict(v)

VerifyNext ==
    \E v \in Verifiers : (\E r \in Runs : VerifyRead(v, r)) \/ VerifyStep(v)

CryptoNext ==
    \E i \in Invoices :
        \/ \E r \in Runs : CryptoInvoice(r, i)
        \/ CryptoInvoiceCommit(i)
        \/ CryptoPaid(i)
        \/ \E status \in {"waiting", "finished"} : CryptoIpn(i, status)

Next == RunNext \/ StripeNext \/ VerifyNext \/ CryptoNext \/ Tick \/ Restart

Spec == Init /\ [][Next]_vars

\* Stripe keeps delivering an event until it is answered with 200.
WebhookFairness == \A s \in Sessions : WF_vars(WebhookNext(s))

\* While the page is open its 2.5 s timer calls the verify code again and again.
PollingFairness ==
    \A v \in Verifiers : WF_vars(\E r \in Runs : VerifyRead(v, r)) /\ WF_vars(VerifyStep(v))

-----------------------------------------------------------------------------
(* Properties.                                                             *)

\* The row's user went through a checkout for the row's run: a Stripe session in
\* one of the given states, or a payment NOWPayments calls finished.
BackedBy(p, states) ==
    LET f == pay[p].ref
    IN  \/ /\ f \in Sessions /\ session[f].state \in states
           /\ session[f].user = pay[p].user /\ session[f].run = pay[p].run
        \/ /\ f \in Invoices /\ invoice[f].state = "finished"
           /\ invoice[f].user = pay[p].user /\ invoice[f].run = pay[p].run
Backed(p) == BackedBy(p, Completed)

OpenBy(r, states) ==
    \/ run[r].free
    \/ LET p == run[r].payment
       IN  /\ p # NoPay /\ pay[p].state = "confirmed"
           /\ pay[p].user = run[r].user /\ BackedBy(p, states)

\* A run whose output is open was a free run, or hangs on a confirmed payment
\* of its own user behind which stands a completed checkout of that user, paid
\* or not: no interleaving of checkouts, webhooks, verify calls and launches
\* opens a run on a checkout that is still open, of another user or of another
\* run.
OpenRunHasItsCheckout ==
    \A r \in Runs : Exists(r) /\ ~run[r].locked => OpenBy(r, Completed)

\* ... and the provider really has the money.  The webhook does not read
\* payment_status, so this is what a checkout that completes unpaid breaks, and
\* what holds while Stripe offers only methods that pay at once.
OpenRunIsPaid ==
    \A r \in Runs : Exists(r) /\ ~run[r].locked => OpenBy(r, {"paid"})

\* A confirmed payment never sits beside a locked run of its own: the two are
\* written by one transaction in every handler.
ConfirmedOpensItsRun ==
    \A p \in PayIds : pay[p].state = "confirmed" =>
        Exists(pay[p].run) /\ ~run[pay[p].run].locked /\ run[pay[p].run].user = pay[p].user

\* The webhook's idempotency log never swallows a payment: a recorded Stripe
\* event means that the run it paid for is open.
RecordedEventOpensRun ==
    \A s \in stripeEvents : Exists(session[s].run) /\ ~run[session[s].run].locked

\* free_trial_used says exactly that a free run of the user has completed, so a
\* failed free run costs nothing and a completed one is never forgotten.
TrialFlagExact ==
    \A u \in Users : freeTrialUsed[u] <=>
        \E r \in Runs : run[r].user = u /\ run[r].free /\ run[r].state = "completed"

\* The three ways can_view_output grants, can_export and the rule of the export
\* endpoint never disagree with the lock flag that the API reports: owner and
\* open, or nothing; and only a run that is not free leaves as DOCX or PDF.
ViewAndExportFollowTheLock ==
    \A r \in Runs, u \in Users : Exists(r) =>
        LET open == u = run[r].user /\ (~PaymentsEnabled \/ ~run[r].locked)
        IN  /\ CanViewOutput(u, r) <=> open
            /\ CanExport(u, r) <=> open
            /\ CreateExport(u, r, "txt") <=> open
            /\ CreateExport(u, r, "docx") <=> open /\ ~run[r].free

\* No step closes an open run: in particular the executor, which assigns back
\* the flag it captured minutes ago, does not undo a payment made meanwhile.
NeverRelocked ==
    [][\A r \in Runs : Exists(r) /\ ~run[r].locked => Exists(r)' /\ ~run'[r].locked]_vars

BoundFree(r) == run[r].mode = "free" \/ run[r].free
TrialOver(u) == \E q \in Runs : run[q].user = u /\ run[q].free /\ run[q].state = "completed"

\* A request that begins after a free run of its user has completed never comes
\* to a free run: what sets a request on that course is the flag as it was when
\* the request loaded its user, and no later step of any request does.
TrialNotReopened ==
    [][\A r \in Runs :
         PaymentsEnabled /\ BoundFree(r)' /\ ~BoundFree(r) => ~TrialOver(run'[r].user)]_vars

\* A user completes one free run.  Requests that loaded the user before the
\* first one completed break it, however late they insert their run.
OneFreeRun ==
    \A q, r \in Runs :
        /\ run[q].free /\ run[q].state = "completed"
        /\ run[r].free /\ run[r].state = "completed"
        /\ run[q].user = run[r].user
        => q = r

\* The 24-hour window of a confirmed payment starts over only for a completed
\* session of its run that is still unrecorded, or for a verify call that read
\* the run while it was locked; settled payments keep their window.
WindowRestartsOnlyInFlight ==
    [][\A p \in PayIds :
         pay[p].state = "confirmed" /\ pay'[p].confirmedAt # pay[p].confirmedAt =>
            \/ \E s \in Sessions \ stripeEvents :
                   session[s].state \in Completed /\ session[s].run = pay[p].run
            \/ \E v \in Verifiers : verify[v].pc = "chosen" /\ verify[v].pay = p]_vars

\* The paywall implements its contract.
CheckedOut ==
    {r \in Runs : \/ \E s \in Sessions : session[s].state \in Completed /\ session[s].run = r
                  \/ \E i \in Invoices : invoice[i].state = "finished" /\ invoice[i].run = r}
Contract == INSTANCE PaywallContract WITH
    owner <- [r \in {q \in Runs : Exists(q)} |-> run[r].user],
    readable <- {r \in Runs : Exists(r) /\ ~run[r].locked},
    trial <- {r \in Runs : Exists(r) /\ run[r].free},
    checkedOut <- CheckedOut
ImplementsContract == Contract!Spec

\* A session the customer has paid ends in an open run.
PaidSessionOpensRun ==
    \A s \in Sessions :
        session[s].state = "paid" ~> \E r \in Runs : session[s].run = r /\ Exists(r) /\ ~run[r].locked

\* A "finished" IPN that was answered with 200 and whose payment is on record
\* has opened its run.
FinishedIpnOpensRun ==
    \A i \in ipnAcked : (\E p \in PayIds : pay[p].ref = i) =>
        Exists(invoice[i].run) /\ ~run[invoice[i].run].locked

\* The payment of a "finished" IPN that was answered with 200 is on record.
FinishedIpnHasItsPayment == \A i \in ipnAcked : \E p \in PayIds : pay[p].ref = i

-----------------------------------------------------------------------------
(* The inductive invariant: what the rows, the providers and the values    *)
(* the handlers hold across an await say of one another.                   *)

\* A row names an existing run of its user and a charge the provider knows;
\* a confirmed one also has a completed checkout behind it and the run open, and its IPN
\* is recorded if it is NOWPayments'.
RowSound(p) ==
    /\ pay[p].state = "absent" => pay[p] = NoPayRow
    /\ pay[p].state # "absent" =>
         /\ pay[p].provider \in {"stripe", "crypto"}
         /\ pay[p].run \in Runs /\ Exists(pay[p].run) /\ run[pay[p].run].user = pay[p].user
         /\ pay[p].provider = "stripe" =>
              /\ pay[p].ref \in Sessions /\ session[pay[p].ref].state # "none"
              /\ session[pay[p].ref].run = pay[p].run
              /\ session[pay[p].ref].user = pay[p].user
         /\ pay[p].provider = "crypto" =>
              \/ pay[p].ref = None /\ pay[p].state = "pending"
              \/ /\ pay[p].ref \in Invoices /\ invoice[pay[p].ref].state # "none"
                 /\ invoice[pay[p].ref].run = pay[p].run
                 /\ invoice[pay[p].ref].user = pay[p].user
    /\ pay[p].state = "confirmed" =>
         /\ ~run[pay[p].run].locked /\ Backed(p)
         /\ pay[p].provider = "crypto" => pay[p].ref \in cryptoEvents

RunSound(r) ==
    /\ run[r].state # "absent" => run[r].user \in Users
    /\ Exists(r) /\ ~run[r].locked => run[r].free \/ run[r].payment # NoPay
    /\ run[r].payment # NoPay => /\ pay[run[r].payment].state = "confirmed"
                                 /\ pay[run[r].payment].user = run[r].user
    /\ exec[r] = "ready" => run[r].state = "queued"
    /\ exec[r] \in {"sawLocked", "sawOpen"} => run[r].state = "running"
    /\ run[r].mode # "none" => run[r].state = "deciding"
    /\ run[r].free => Exists(r)

SessionSound(s) ==
    /\ session[s].state # "none" =>
         session[s].run \in Runs /\ Exists(session[s].run)
         /\ run[session[s].run].user = session[s].user
    /\ session[s].state \in {"unpaid", "lapsed"} => "unpaid" \in CompletedAs

InvoiceSound(i) ==
    /\ invoice[i].answer # "none" => invoice[i].state # "none"
    /\ invoice[i].state # "none" =>
        invoice[i].run \in Runs /\ Exists(invoice[i].run)
        /\ run[invoice[i].run].user = invoice[i].user

\* The row a handler selected is still a Stripe row of the run; if another
\* handler changed its reference meanwhile, that handler also confirmed it.
HeldRow(p, r, ref) ==
    p # NoPay => /\ pay[p].provider = "stripe" /\ pay[p].run = r
                 /\ pay[p].ref = ref \/ pay[p].state = "confirmed"

HookSound(s) ==
    hook[s].pc = "selected" =>
        /\ session[s].state \in Completed /\ s \notin stripeEvents
        /\ HeldRow(hook[s].pay, session[s].run, hook[s].ref)

PaidFor(s, r) == s # None => session[s].state = "paid" /\ session[s].run = r

VerifySound(v) ==
    /\ verify[v].pc # "idle" => verify[v].run \in Runs /\ Exists(verify[v].run)
    /\ verify[v].pc \in {"listed", "unowned"} =>
         verify[v].session # None /\ PaidFor(verify[v].session, verify[v].run)
    /\ verify[v].pc = "chosen" =>
         /\ HeldRow(verify[v].pay, verify[v].run, verify[v].ref)
         /\ PaidFor(verify[v].session, verify[v].run)
         /\ verify[v].session = None =>
              verify[v].pay # NoPay /\ pay[verify[v].pay].state = "confirmed"

IInv ==
    /\ TypeOK
    /\ \A p \in PayIds : RowSound(p)
    /\ \A r \in Runs : RunSound(r)
    /\ \A s \in Sessions : SessionSound(s) /\ HookSound(s)
    /\ \A i \in Invoices : InvoiceSound(i)
    /\ \A v \in Verifiers : VerifySound(v)
    /\ \A s \in stripeEvents : session[s].state \in Completed
    /\ RecordedEventOpensRun
    /\ TrialFlagExact

=============================================================================
