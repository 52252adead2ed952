--------------------------- MODULE PaywallProofs ---------------------------
(***************************************************************************)
(* What is proved about Paywall for every set of users, runs, sessions,    *)
(* invoices and verify calls and every value of the bounds, and that it     *)
(* implements PaywallContract.                                             *)
(***************************************************************************)
EXTENDS Paywall, WellFoundedInduction, TLAPS

-----------------------------------------------------------------------------
(* The rows an ORDER BY ... LIMIT 1 and an INSERT pick.                    *)

LEMMA LessThanPairs == OpToRel(<, Nat) = {ss \in Nat \X Nat : ss[1] < ss[2]}
  BY DEF OpToRel

LEMMA PairsWellFounded == IsWellFoundedOn({ss \in Nat \X Nat : ss[1] < ss[2]}, Nat)
  BY NatLessThanWellFounded, LessThanPairs, Zenon

\* A non-empty set of naturals has a least element.
LEMMA LeastExists ==
  ASSUME NEW S \in SUBSET Nat, S # {}
  PROVE  \E x \in S : \A y \in S : x <= y
<1> DEFINE R == {ss \in Nat \X Nat : ss[1] < ss[2]}
<1>1. \E x \in S : \A y \in S : ~ (<<y, x>> \in R)
  <2>1. IsWellFoundedOn(R, Nat)
    BY PairsWellFounded, Zenon DEF R
  <2> HIDE DEF R
  <2> QED  BY <2>1, WFMin, Zenon
<1>2. PICK x \in S : \A y \in S : ~ (<<y, x>> \in R)
  BY <1>1
<1>3. ASSUME NEW y \in S PROVE x <= y
  <2>1. x \in Nat /\ y \in Nat  OBVIOUS
  <2>2. ~ (<<y, x>> \in R)  BY <1>2
  <2>3. ~ (y < x)  BY <2>1, <2>2
  <2> QED  BY <2>1, <2>3
<1> QED  BY <1>3

\* A non-empty bounded set of naturals has a greatest element.
LEMMA GreatestExists ==
  ASSUME NEW N \in Nat, NEW S \in SUBSET (0 .. N), S # {}
  PROVE  \E x \in S : \A y \in S : y <= x
<1> DEFINE T == {N - x : x \in S}
<1>1. T \in SUBSET Nat /\ T # {}
  <2>1. \A x \in S : N - x \in Nat  OBVIOUS
  <2> QED  BY <2>1
<1>2. PICK t \in T : \A y \in T : t <= y
  <2> HIDE DEF T
  <2> QED  BY <1>1, LeastExists
<1>3. PICK x \in S : t = N - x  BY <1>2
<1>4. ASSUME NEW y \in S PROVE y <= x
  <2>1. N - x <= N - y  BY <1>2, <1>3
  <2>2. x \in 0 .. N /\ y \in 0 .. N  OBVIOUS
  <2> QED  BY <2>1, <2>2
<1> QED  BY <1>4

\* The newest of some payments is one of them.
LEMMA LatestIsOneOf ==
  ASSUME NEW P \in SUBSET PayIds, P # {}
  PROVE  Latest(P) \in P
<1>1. MaxPayments \in Nat /\ P \in SUBSET (0 .. MaxPayments)
  BY PaywallAssumption DEF PayIds
<1>2. \E p \in P : \A q \in P : q <= p
  BY <1>1, GreatestExists
<1> QED  BY <1>2 DEF Latest

\* An INSERT takes an id that no row has.
LEMMA NextPayIsFree ==
  ASSUME FreePays # {}
  PROVE  NextPay \in PayIds /\ pay[NextPay].state = "absent"
<1>1. FreePays \in SUBSET Nat
  BY PaywallAssumption DEF FreePays, PayIds
<1>2. \E p \in FreePays : \A q \in FreePays : p <= q
  BY <1>1, LeastExists
<1>3. NextPay \in FreePays
  BY <1>2 DEF NextPay
<1> QED  BY <1>3 DEF FreePays

\* get_active_payment returns an active payment of the user if there is one.
LEMMA GetActivePaymentIsActive ==
  ASSUME TypeOK, NEW u, ActivePays(u) # {}
  PROVE  GetActivePayment(u) \in ActivePays(u)
<1> DEFINE times == {pay[p].confirmedAt : p \in ActivePays(u)}
           last == {p \in ActivePays(u) :
                       \A q \in ActivePays(u) : pay[q].confirmedAt <= pay[p].confirmedAt}
<1>1. ActivePays(u) \in SUBSET PayIds  BY DEF ActivePays
<1>2. MaxTime \in Nat /\ times \in SUBSET (0 .. MaxTime) /\ times # {}
  BY <1>1, PaywallAssumption DEF TypeOK, PayRow
<1>3. \E t \in times : \A t2 \in times : t2 <= t
  <2> HIDE DEF times
  <2> QED  BY <1>2, GreatestExists
<1>4. last # {} /\ last \in SUBSET PayIds
  BY <1>1, <1>3
<1>5. Latest(last) \in last
  <2> HIDE DEF last
  <2> QED  BY <1>4, LatestIsOneOf
<1> QED  BY <1>5 DEF GetActivePayment

-----------------------------------------------------------------------------
(* Type correctness.                                                       *)

\* What a confirmation and an INSERT write has the type of a payments row.
LEMMA ConfirmedRowType ==
  ASSUME TypeOK, NEW row \in PayRow, NEW r \in Runs \cup {None}, NEW ref \in Refs \cup {None}
  PROVE  ConfirmedRow(row, r, ref) \in PayRow
BY DEF TypeOK, ConfirmedRow, PayRow

LEMMA PendingRowType ==
  ASSUME NEW provider \in {"stripe", "crypto"}, NEW u \in Users \cup {None},
         NEW r \in Runs \cup {None}, NEW ref \in Refs \cup {None}
  PROVE  PendingRow(provider, u, r, ref) \in PayRow
BY PaywallAssumption DEF PendingRow, PayRow

LEMMA RunRowType ==
  ASSUME NEW row \in RunRow, NEW state \in Created, NEW locked \in BOOLEAN,
         NEW free \in BOOLEAN, NEW p \in PayIds \cup {NoPay}
  PROVE  /\ [row EXCEPT !.state = state] \in RunRow
         /\ [row EXCEPT !.state = state, !.locked = locked] \in RunRow
         /\ [row EXCEPT !.locked = FALSE, !.payment = p] \in RunRow
         /\ [row EXCEPT !.state = state, !.mode = "none", !.locked = locked, !.free = free,
                        !.payment = p] \in RunRow
BY DEF RunRow

LEMMA UnlockRunType ==
  ASSUME TypeOK, NEW p \in PayIds \cup {NoPay}, NEW r, UnlockRun(p, r)
  PROVE  run' \in [Runs -> RunRow]
<1>1. run \in [Runs -> RunRow]
  BY DEF TypeOK
<1>2. \A q \in Runs : [run[q] EXCEPT !.locked = FALSE, !.payment = p] \in RunRow
  BY <1>1 DEF RunRow
<1> QED  BY <1>1, <1>2 DEF UnlockRun

LEMMA TypeInit == Init => TypeOK
BY PaywallAssumption DEF Init, TypeOK, RunRow, PayRow, NoRun, NoPayRow, NoSession, NoInvoice,
     IdleHook, IdleVerify, NoPay

LEMMA RunTypeStep ==
  ASSUME TypeOK, RunNext
  PROVE  TypeOK'
<1>1. ASSUME NEW r \in Runs, NEW u \in Users, LaunchAsk(u, r) PROVE TypeOK'
  <2> DEFINE mode == IF FreeAsLoaded(u) THEN "free" ELSE "asked"
  <2>1. mode \in {"none", "asked", "free", "paid", "locked"}
    OBVIOUS
  <2>2. [NoRun EXCEPT !.state = "deciding", !.user = u, !.mode = mode] \in RunRow
    <3> HIDE DEF mode
    <3> QED  BY <2>1 DEF RunRow, NoRun, NoPay
  <2> QED  BY <1>1, <2>2 DEF TypeOK, LaunchAsk, clock, providers, requests
<1>5. ASSUME NEW r \in Runs, LaunchDecide(r) PROVE TypeOK'
  <2> DEFINE mode == IF ActivePays(run[r].user) # {} THEN "paid" ELSE "locked"
  <2>1. mode \in {"none", "asked", "free", "paid", "locked"} /\ run[r] \in RunRow
    BY DEF TypeOK
  <2>2. [run[r] EXCEPT !.mode = mode] \in RunRow
    <3> HIDE DEF mode
    <3> QED  BY <2>1 DEF RunRow
  <2>3. run' = [run EXCEPT ![r].mode = mode]
    BY <1>5 DEF LaunchDecide
  <2>4. run' \in [Runs -> RunRow]
    <3> HIDE DEF mode
    <3> QED  BY <2>2, <2>3 DEF TypeOK
  <2> QED  BY <1>5, <2>4 DEF TypeOK, LaunchDecide, clock, providers, requests
<1>2. ASSUME NEW r \in Runs, LaunchCommit(r) PROVE TypeOK'
  <2> DEFINE u == run[r].user
             p == IF run[r].mode = "paid" /\ ActivePays(u) # {} THEN GetActivePayment(u) ELSE NoPay
             locked == run[r].mode # "free" /\ p = NoPay
             free == run[r].mode = "free"
  <2>1. p \in PayIds \cup {NoPay}
    BY GetActivePaymentIsActive DEF ActivePays
  <2>2. run[r] \in RunRow /\ "queued" \in Created /\ locked \in BOOLEAN /\ free \in BOOLEAN
    BY DEF TypeOK, Created
  <2>3. [run[r] EXCEPT !.state = "queued", !.mode = "none", !.locked = locked, !.free = free,
                       !.payment = p] \in RunRow
    <3> HIDE DEF p, locked, free
    <3> QED  BY <2>1, <2>2, RunRowType
  <2>4. run' = [run EXCEPT ![r] = [@ EXCEPT !.state = "queued", !.mode = "none",
                                     !.locked = locked, !.free = free, !.payment = p]]
    BY <1>2 DEF LaunchCommit
  <2>5. run' \in [Runs -> RunRow]
    <3> HIDE DEF p, locked, free
    <3> QED  BY <2>3, <2>4 DEF TypeOK
  <2>6. exec' \in [Runs -> {"none", "ready", "sawLocked", "sawOpen"}]
    BY <1>2 DEF TypeOK, LaunchCommit
  <2> QED  BY <1>2, <2>5, <2>6 DEF TypeOK, LaunchCommit, clock, providers
<1>3. ASSUME NEW r \in Runs, ExecStart(r) PROVE TypeOK'
  <2>1. run[r] \in RunRow /\ "running" \in Created
    BY DEF TypeOK, Created
  <2>2. [run[r] EXCEPT !.state = "running"] \in RunRow
    BY <2>1, RunRowType, PaywallAssumption DEF PayIds
  <2>3. run' \in [Runs -> RunRow]
    BY <1>3, <2>2 DEF TypeOK, ExecStart
  <2>4. exec' \in [Runs -> {"none", "ready", "sawLocked", "sawOpen"}]
    BY <1>3 DEF TypeOK, ExecStart
  <2> QED  BY <1>3, <2>3, <2>4 DEF TypeOK, ExecStart, clock, providers
<1>4. ASSUME NEW r \in Runs, NEW outcome \in {"completed", "failed"}, ExecFinish(r, outcome)
      PROVE  TypeOK'
  <2> DEFINE locked == WriteBack(exec[r] = "sawLocked", exec[r] = "sawLocked", run[r].locked)
  <2>1. run[r] \in RunRow /\ outcome \in Created /\ locked = run[r].locked
    BY DEF TypeOK, Created, WriteBack
  <2>2. [run[r] EXCEPT !.state = outcome, !.locked = run[r].locked] \in RunRow
    BY <2>1 DEF RunRow
  <2>3. run' \in [Runs -> RunRow]
    BY <1>4, <2>1, <2>2 DEF TypeOK, ExecFinish
  <2>4. freeTrialUsed' \in [Users -> BOOLEAN]
    BY <1>4 DEF TypeOK, ExecFinish
  <2>5. exec' \in [Runs -> {"none", "ready", "sawLocked", "sawOpen"}]
    BY <1>4 DEF TypeOK, ExecFinish
  <2> QED  BY <1>4, <2>3, <2>4, <2>5 DEF TypeOK, ExecFinish, clock, providers
<1> QED  BY <1>1, <1>2, <1>3, <1>4, <1>5 DEF RunNext

LEMMA StripeTypeStep ==
  ASSUME TypeOK, StripeNext
  PROVE  TypeOK'
<1> DEFINE SessionRow == [state: {"none", "open"} \cup Completed, user: Users \cup {None},
                          run: Runs \cup {None}]
           HookState == [pc: {"idle", "selected"}, pay: PayIds \cup {NoPay},
                         ref: Refs \cup {None}]
<1>1. ASSUME NEW s \in Sessions, NEW r \in Runs, StripeCheckout(r, s) PROVE TypeOK'
  <2>1. run[r].user \in Users \cup {None}
    BY DEF TypeOK, RunRow
  <2>2. [state |-> "open", user |-> run[r].user, run |-> r] \in SessionRow
    BY <2>1
  <2>3. PendingRow("stripe", run[r].user, r, s) \in PayRow
    BY <2>1, PendingRowType DEF Refs
  <2>4. session' \in [Sessions -> SessionRow]
    BY <1>1, <2>2 DEF TypeOK, StripeCheckout
  <2>5. pay' \in [PayIds -> PayRow]
    BY <1>1, <2>3 DEF TypeOK, StripeCheckout
  <2> QED  BY <1>1, <2>4, <2>5 DEF TypeOK, StripeCheckout, clock, requests
<1>2. ASSUME NEW s \in Sessions, NEW r \in Runs, CheckoutRowLost(r, s) PROVE TypeOK'
  <2>1. run[r].user \in Users \cup {None}
    BY DEF TypeOK, RunRow
  <2>2. [state |-> "open", user |-> run[r].user, run |-> r] \in SessionRow
    BY <2>1
  <2>3. session' \in [Sessions -> SessionRow]
    BY <1>2, <2>2 DEF TypeOK, CheckoutRowLost
  <2> QED  BY <1>2, <2>3 DEF TypeOK, CheckoutRowLost, clock, tables, requests
<1>3. ASSUME NEW s \in Sessions, CustomerCompletes(s) \/ DelayedPayment(s) PROVE TypeOK'
  <2>1. PICK status \in Completed : session' = [session EXCEPT ![s].state = status]
    BY <1>3, PaywallAssumption DEF CustomerCompletes, DelayedPayment, Completed
  <2>2. [session[s] EXCEPT !.state = status] \in SessionRow
    <3>1. session[s] \in SessionRow  BY DEF TypeOK
    <3> QED  BY <3>1
  <2>3. session' \in [Sessions -> SessionRow]
    BY <2>1, <2>2 DEF TypeOK
  <2> QED  BY <1>3, <2>3 DEF TypeOK, CustomerCompletes, DelayedPayment, clock, tables, requests
<1>4. ASSUME NEW s \in Sessions, StripeWebhookSelect(s) PROVE TypeOK'
  <2>1. SelectedFor(s) \in HookState
    <3> DEFINE rows == StripeRows(session[s].user, session[s].run, {"pending", "confirmed"})
    <3>1. rows \in SUBSET PayIds
      BY DEF StripeRows
    <3>2. ASSUME rows # {} PROVE Latest(rows) \in PayIds
      BY <3>1, <3>2, LatestIsOneOf
    <3>3. ASSUME NEW p \in PayIds PROVE pay[p].ref \in Refs \cup {None}
      BY DEF TypeOK, PayRow
    <3>4. SelectedFor(s) = [pc |-> "selected", pay |-> IF rows = {} THEN NoPay ELSE Latest(rows),
                            ref |-> IF rows = {} THEN None ELSE pay[Latest(rows)].ref]
      BY DEF SelectedFor
    <3> HIDE DEF rows
    <3> QED  BY <3>2, <3>3, <3>4
  <2>2. hook' \in [Sessions -> HookState]
    BY <1>4, <2>1 DEF TypeOK, StripeWebhookSelect
  <2> QED  BY <1>4, <2>2 DEF TypeOK, StripeWebhookSelect, clock, tables, providers
<1>5. ASSUME NEW s \in Sessions, StripeWebhookCommit(s) PROVE TypeOK'
  <2>1. HookPay(s) \in PayIds
    BY <1>5, NextPayIsFree DEF TypeOK, StripeWebhookCommit, HookPay
  <2>2. session[s].user \in Users \cup {None} /\ session[s].run \in Runs \cup {None}
    BY DEF TypeOK
  <2>3. HookRow(s) \in PayRow
    BY <2>2, PendingRowType DEF HookRow, Refs, TypeOK
  <2>4. HookRef(s) \in Refs \cup {None}
    BY <2>1 DEF HookRef, HookPay, WriteBack, Refs, TypeOK, PayRow
  <2>5. ConfirmedRow(HookRow(s), session[s].run, HookRef(s)) \in PayRow
    BY <2>2, <2>3, <2>4, ConfirmedRowType
  <2>6. pay' \in [PayIds -> PayRow]
    BY <1>5, <2>5 DEF TypeOK, StripeWebhookCommit
  <2>7. run' \in [Runs -> RunRow]
    BY <1>5, <2>1, UnlockRunType DEF StripeWebhookCommit
  <2>8. hook' \in [Sessions -> HookState]
    BY <1>5 DEF TypeOK, StripeWebhookCommit, IdleHook
  <2> QED  BY <1>5, <2>6, <2>7, <2>8 DEF TypeOK, StripeWebhookCommit, clock, providers
<1>6. ASSUME NEW s \in Sessions, StripeWebhookConflict(s) PROVE TypeOK'
  <2>1. hook' \in [Sessions -> HookState]
    BY <1>6 DEF TypeOK, StripeWebhookConflict, IdleHook
  <2> QED  BY <1>6, <2>1 DEF TypeOK, StripeWebhookConflict, clock, tables, providers
<1> QED  BY <1>1, <1>2, <1>3, <1>4, <1>5, <1>6 DEF StripeNext, WebhookNext

LEMMA VerifyTypeStep ==
  ASSUME TypeOK, \A v \in Verifiers : VerifySound(v), VerifyNext
  PROVE  TypeOK'
<1> DEFINE VerifyState == [pc: {"idle", "sawLocked", "unconfirmed", "listed", "unowned", "chosen"},
                           run: Runs \cup {None},
                           pay: PayIds \cup {NoPay}, ref: Refs \cup {None},
                           session: Sessions \cup {None}]
<1>1. IdleVerify \in VerifyState
  BY DEF IdleVerify
<1>2. ASSUME NEW v \in Verifiers, NEW r \in Runs, VerifyRead(v, r) PROVE TypeOK'
  <2>1. [IdleVerify EXCEPT !.pc = "sawLocked", !.run = r] \in VerifyState
    BY <1>1
  <2>2. verify' \in [Verifiers -> VerifyState]
    BY <1>2, <2>1 DEF TypeOK, VerifyRead
  <2> QED  BY <1>2, <2>2 DEF TypeOK, VerifyRead, clock, tables, providers
<1>3. ASSUME NEW v \in Verifiers, VerifyLook(v) PROVE TypeOK'
  <2>1. ASSUME NEW p \in PayIds \cup {NoPay}, NEW s \in Sessions \cup {None}, Choose(v, p, s)
        PROVE  verify' \in [Verifiers -> VerifyState]
    <3> DEFINE ref == IF p = NoPay THEN None ELSE pay[p].ref
    <3>1. verify[v] \in VerifyState /\ ref \in Refs \cup {None}
      BY DEF TypeOK, PayRow
    <3>2. [verify[v] EXCEPT !.pc = "chosen", !.pay = p, !.session = s, !.ref = ref]
            \in VerifyState
      <4> HIDE DEF ref
      <4> QED  BY <3>1
    <3> QED  BY <2>1, <3>2 DEF TypeOK, Choose
  <2>2. verify[v] \in VerifyState
    BY DEF TypeOK
  <2>3. ASSUME VerifyConfirmed(v) PROVE verify' \in [Verifiers -> VerifyState]
    <3>1. [verify[v] EXCEPT !.pc = "unconfirmed"] \in VerifyState
      BY <2>2
    <3> QED  BY <2>1, <2>3, <3>1 DEF VerifyConfirmed, StripeRows, TypeOK
  <2>4. ASSUME VerifyPending(v) PROVE verify' \in [Verifiers -> VerifyState]
    <3> DEFINE r == verify[v].run
               rows == PaidPending(run[r].user, r)
               listed == Listed(run[r].user, r)
    <3>1. ASSUME rows # {} PROVE Latest(rows) \in PayIds /\ pay[Latest(rows)].ref \in Sessions
      BY <3>1, LatestIsOneOf DEF PaidPending, StripeRows
    <3>2. \A s \in listed : s \in Sessions
      BY DEF Listed
    <3>3. ASSUME NEW s \in Sessions
          PROVE  [verify[v] EXCEPT !.pc = "listed", !.session = s] \in VerifyState
      BY <2>2
    <3>4. \/ rows # {} /\ Choose(v, Latest(rows), pay[Latest(rows)].ref)
          \/ \E s \in listed : verify' = [verify EXCEPT ![v].pc = "listed", ![v].session = s]
          \/ verify' = [verify EXCEPT ![v] = IdleVerify]
      BY <2>4 DEF VerifyPending
    <3> HIDE DEF rows, listed
    <3>5. CASE rows # {} /\ Choose(v, Latest(rows), pay[Latest(rows)].ref)
      <4> DEFINE p == Latest(rows)
                 s == pay[p].ref
      <4>1. p \in PayIds \cup {NoPay} /\ s \in Sessions \cup {None}
        BY <3>1, <3>5
      <4>2. Choose(v, p, s)
        BY <3>5
      <4> HIDE DEF p, s
      <4> QED  BY <2>1, <4>1, <4>2
    <3>6. CASE verify' = [verify EXCEPT ![v] = IdleVerify]
      BY <1>1, <3>6 DEF TypeOK
    <3>7. CASE \E s \in listed : verify' = [verify EXCEPT ![v].pc = "listed", ![v].session = s]
      <4>1. PICK s \in listed :
              verify' = [verify EXCEPT ![v] = [verify[v] EXCEPT !.pc = "listed", !.session = s]]
        BY <3>7
      <4>2. [verify[v] EXCEPT !.pc = "listed", !.session = s] \in VerifyState
        BY <3>2, <3>3
      <4> QED  BY <4>1, <4>2 DEF TypeOK
    <3> QED  BY <3>4, <3>5, <3>6, <3>7
  <2>5. ASSUME VerifyOwn(v) PROVE verify' \in [Verifiers -> VerifyState]
    <3> DEFINE own == {p \in PayIds : pay[p].provider = "stripe" /\ pay[p].ref = verify[v].session}
    <3>1. own # {} => Latest(own) \in PayIds
      BY LatestIsOneOf
    <3>2. [verify[v] EXCEPT !.pc = "unowned"] \in VerifyState
      BY <2>2
    <3>3. \/ own # {} /\ Choose(v, Latest(own), verify[v].session)
          \/ verify' = [verify EXCEPT ![v].pc = "unowned"]
      BY <2>5 DEF VerifyOwn
    <3> HIDE DEF own
    <3> QED  BY <2>1, <2>2, <3>1, <3>2, <3>3 DEF TypeOK
  <2>6. ASSUME VerifyUnowned(v) PROVE verify' \in [Verifiers -> VerifyState]
    <3> DEFINE rows == StripeRows(run[verify[v].run].user, verify[v].run, {"pending"})
    <3>1. rows # {} => Latest(rows) \in PayIds
      BY LatestIsOneOf DEF StripeRows
    <3>2. Choose(v, IF rows = {} THEN NoPay ELSE Latest(rows), verify[v].session)
      BY <2>6 DEF VerifyUnowned
    <3> HIDE DEF rows
    <3> QED  BY <2>1, <2>2, <3>1, <3>2
  <2>7. verify' \in [Verifiers -> VerifyState]
    BY <1>3, <2>3, <2>4, <2>5, <2>6 DEF VerifyLook
  <2> QED  BY <1>3, <2>7 DEF TypeOK, VerifyLook, VerifyConfirmed, VerifyPending, VerifyOwn,
              VerifyUnowned, clock, tables, providers
<1>4. ASSUME NEW v \in Verifiers, VerifyCommit(v) PROVE TypeOK'
  <2>1. VerifyPay(v) \in PayIds
    BY <1>4, NextPayIsFree DEF TypeOK, VerifyCommit, VerifyPay
  <2>2. verify[v] \in VerifyState /\ verify[v].session \in Refs \cup {None}
    BY DEF TypeOK, Refs
  <2>3. VerifyRow(v) \in PayRow
    <3>1. verify[v].run \in Runs /\ run[verify[v].run] \in RunRow
      BY <1>4 DEF VerifySound, VerifyCommit, TypeOK
    <3>2. run[verify[v].run].user \in Users \cup {None}
      BY <3>1 DEF RunRow
    <3>3. CASE verify[v].pay = NoPay
      BY <2>2, <3>1, <3>2, <3>3, PendingRowType DEF VerifyRow
    <3>4. CASE verify[v].pay # NoPay
      BY <2>2, <3>4 DEF VerifyRow, TypeOK
    <3> QED  BY <3>3, <3>4
  <2>4. VerifyRef(v) \in Refs \cup {None}
    BY <2>1, <2>2 DEF VerifyRef, VerifyPay, WriteBack, TypeOK, PayRow
  <2>5. ConfirmedRow(VerifyRow(v), verify[v].run, VerifyRef(v)) \in PayRow
    BY <2>2, <2>3, <2>4, ConfirmedRowType
  <2>6. pay' \in [PayIds -> PayRow]
    BY <1>4, <2>5 DEF TypeOK, VerifyCommit
  <2>7. run' \in [Runs -> RunRow]
    BY <1>4, <2>1, UnlockRunType DEF VerifyCommit
  <2>8. verify' \in [Verifiers -> VerifyState]
    BY <1>1, <1>4 DEF TypeOK, VerifyCommit
  <2> QED  BY <1>4, <2>6, <2>7, <2>8 DEF TypeOK, VerifyCommit, clock, providers
<1>5. ASSUME NEW v \in Verifiers, VerifyUnlock(v) PROVE TypeOK'
  <2>1. run' \in [Runs -> RunRow]
    BY <1>5, UnlockRunType DEF VerifyUnlock, TypeOK
  <2>2. verify' \in [Verifiers -> VerifyState]
    BY <1>1, <1>5 DEF TypeOK, VerifyUnlock
  <2> QED  BY <1>5, <2>1, <2>2 DEF TypeOK, VerifyUnlock, clock, providers
<1>6. ASSUME NEW v \in Verifiers, VerifyConflict(v) PROVE TypeOK'
  <2>1. verify' \in [Verifiers -> VerifyState]
    BY <1>1, <1>6 DEF TypeOK, VerifyConflict
  <2> QED  BY <1>6, <2>1 DEF TypeOK, VerifyConflict, clock, tables, providers
<1> QED  BY <1>2, <1>3, <1>4, <1>5, <1>6 DEF VerifyNext, VerifyStep

LEMMA CryptoTypeStep ==
  ASSUME TypeOK, CryptoNext
  PROVE  TypeOK'
<1> DEFINE InvoiceRow == [state: {"none", "waiting", "finished"}, answer: {"none", "due", "given"},
                          user: Users \cup {None}, run: Runs \cup {None}]
<1>1. ASSUME NEW i \in Invoices, NEW r \in Runs, CryptoInvoice(r, i) PROVE TypeOK'
  <2>1. run[r].user \in Users \cup {None}
    BY DEF TypeOK, RunRow
  <2>2. [state |-> "waiting", answer |-> "due", user |-> run[r].user, run |-> r] \in InvoiceRow
    BY <2>1
  <2>3. invoice' \in [Invoices -> InvoiceRow]
    BY <1>1, <2>2 DEF TypeOK, CryptoInvoice
  <2> QED  BY <1>1, <2>3 DEF TypeOK, CryptoInvoice, clock, tables, requests
<1>2. ASSUME NEW i \in Invoices, CryptoInvoiceCommit(i) PROVE TypeOK'
  <2>1. invoice[i] \in InvoiceRow
    BY DEF TypeOK
  <2>2. \A ref \in {i, None} : PendingRow("crypto", invoice[i].user, invoice[i].run, ref) \in PayRow
    BY <2>1, PendingRowType DEF Refs
  <2>3. [invoice[i] EXCEPT !.answer = "given"] \in InvoiceRow
    BY <2>1
  <2>4. pay' \in [PayIds -> PayRow]
    BY <1>2, <2>2 DEF TypeOK, CryptoInvoiceCommit
  <2>5. invoice' \in [Invoices -> InvoiceRow]
    BY <1>2, <2>3 DEF TypeOK, CryptoInvoiceCommit
  <2> QED  BY <1>2, <2>4, <2>5 DEF TypeOK, CryptoInvoiceCommit, clock, requests
<1>3. ASSUME NEW i \in Invoices, CryptoPaid(i) PROVE TypeOK'
  <2>1. [invoice[i] EXCEPT !.state = "finished"] \in InvoiceRow
    <3>1. invoice[i] \in InvoiceRow  BY DEF TypeOK
    <3> QED  BY <3>1
  <2>2. invoice' \in [Invoices -> InvoiceRow]
    BY <1>3, <2>1 DEF TypeOK, CryptoPaid
  <2> QED  BY <1>3, <2>2 DEF TypeOK, CryptoPaid, clock, tables, requests
<1>4. ASSUME NEW i \in Invoices, NEW status \in {"waiting", "finished"}, CryptoIpn(i, status)
      PROVE  TypeOK'
  <2> DEFINE paid == {p \in PayIds : pay[p].ref = i /\ status = "finished" /\ i \notin cryptoEvents}
  <2>1. ASSUME NEW p \in PayIds PROVE ConfirmedRow(pay[p], pay[p].run, i) \in PayRow
    <3>1. pay[p] \in PayRow /\ pay[p].run \in Runs \cup {None} /\ i \in Refs \cup {None}
      BY DEF TypeOK, PayRow, Refs
    <3> QED  BY <3>1, ConfirmedRowType
  <2>2. pay' = [p \in PayIds |-> IF p \in paid THEN ConfirmedRow(pay[p], pay[p].run, i)
                                               ELSE pay[p]]
    BY <1>4 DEF CryptoIpn
  <2>3. pay' \in [PayIds -> PayRow]
    BY <2>1, <2>2 DEF TypeOK
  <2>4. run' \in [Runs -> RunRow]
    <3>1. CASE paid = {}
      BY <1>4, <3>1 DEF CryptoIpn, TypeOK
    <3>2. CASE paid # {}
      <4>1. Latest(paid) \in PayIds
        BY <3>2, LatestIsOneOf
      <4>2. UnlockRun(Latest(paid), pay[Latest(paid)].run)
        BY <1>4, <3>2 DEF CryptoIpn
      <4> QED  BY <4>1, <4>2, UnlockRunType
    <3> QED  BY <3>1, <3>2
  <2>5. cryptoEvents' \in SUBSET Invoices /\ ipnAcked' \in SUBSET Invoices
    BY <1>4 DEF CryptoIpn, TypeOK
  <2> QED  BY <1>4, <2>3, <2>4, <2>5 DEF TypeOK, CryptoIpn, clock, requests
<1> QED  BY <1>1, <1>2, <1>3, <1>4 DEF CryptoNext

LEMMA RestartTypeStep ==
  ASSUME TypeOK, Restart
  PROVE  TypeOK'
<1> DEFINE InvoiceRow == [state: {"none", "waiting", "finished"}, answer: {"none", "due", "given"},
                          user: Users \cup {None}, run: Runs \cup {None}]
<1>1. invoice' \in [Invoices -> InvoiceRow]
  <2>1. \A i \in Invoices : invoice[i] \in InvoiceRow
    BY DEF TypeOK
  <2>2. \A i \in Invoices : [invoice[i] EXCEPT !.answer = "none"] \in InvoiceRow
    BY <2>1
  <2>3. ASSUME NEW i \in Invoices
        PROVE  [invoice[i] EXCEPT !.answer = IF invoice[i].answer = "due" THEN "none" ELSE @]
                 \in InvoiceRow
    BY <2>1, <2>2
  <2> QED  BY <2>3 DEF Restart
<1>2. NoRun \in RunRow
  BY DEF NoRun, RunRow, NoPay
<1>3. run' \in [Runs -> RunRow]
  BY <1>2 DEF Restart, TypeOK
<1>4. restarts' \in 0 .. MaxRestarts
  BY PaywallAssumption DEF Restart, TypeOK
<1>5. exec' \in [Runs -> {"none", "ready", "sawLocked", "sawOpen"}]
  BY DEF Restart
<1> QED  BY <1>1, <1>3, <1>4, <1>5 DEF Restart, TypeOK, IdleHook, IdleVerify

LEMMA TypeStep ==
  ASSUME TypeOK, \A v \in Verifiers : VerifySound(v), [Next]_vars
  PROVE  TypeOK'
<1>1. CASE Tick
  BY <1>1, PaywallAssumption DEF Tick, TypeOK, tables, providers, requests
<1>2. CASE UNCHANGED vars
  BY <1>2 DEF vars, TypeOK, clock, tables, providers, requests
<1> QED  BY <1>1, <1>2, RunTypeStep, StripeTypeStep, VerifyTypeStep, CryptoTypeStep,
            RestartTypeStep DEF Next

-----------------------------------------------------------------------------
(* What no step takes back.                                                *)

\* An existing run stays, keeps its user and its free flag, and stays open.
RunsGrow ==
    \A r \in Runs : Exists(r) =>
        /\ Exists(r)' /\ run'[r].user = run[r].user /\ run'[r].free = run[r].free
        /\ ~run[r].locked => ~run'[r].locked

\* A payment keeps its user, run and provider; a confirmed one stays confirmed,
\* and a new reference comes only with a confirmation.
PaysGrow ==
    \A p \in PayIds : pay[p].state # "absent" =>
        /\ pay'[p].state # "absent" /\ pay'[p].provider = pay[p].provider
        /\ pay'[p].user = pay[p].user /\ pay'[p].run = pay[p].run
        /\ pay[p].state = "confirmed" => pay'[p].state = "confirmed"
        /\ pay'[p].ref = pay[p].ref \/ pay'[p].state = "confirmed"

\* The providers forget no session, no invoice and no money.
ChargesGrow ==
    /\ \A s \in Sessions : session[s].state # "none" =>
         /\ session'[s].state # "none" /\ session'[s].user = session[s].user
         /\ session'[s].run = session[s].run
         /\ session[s].state \in Completed => session'[s].state \in Completed
         /\ session[s].state = "paid" => session'[s].state = "paid"
    /\ \A i \in Invoices : invoice[i].state # "none" =>
         /\ invoice'[i].state # "none" /\ invoice'[i].user = invoice[i].user
         /\ invoice'[i].run = invoice[i].run
         /\ invoice[i].state = "finished" => invoice'[i].state = "finished"

LEMMA UnlockRunEffect ==
  ASSUME TypeOK, NEW r \in Runs, NEW p, UnlockRun(p, r)
  PROVE  /\ run'[r].state = run[r].state /\ run'[r].user = run[r].user
         /\ run'[r].mode = run[r].mode /\ run'[r].free = run[r].free
         /\ run'[r].locked = FALSE /\ run'[r].payment = p
         /\ \A q \in Runs : q # r => run'[q] = run[q]
<1>1. run \in [Runs -> RunRow]
  BY DEF TypeOK
<1> QED  BY <1>1 DEF UnlockRun, RunRow

LEMMA UnlockRunGrows ==
  ASSUME TypeOK, NEW r \in Runs, NEW p, UnlockRun(p, r)
  PROVE  RunsGrow
BY UnlockRunEffect DEF RunsGrow, Exists

LEMMA RunStepGrows ==
  ASSUME TypeOK, RunNext
  PROVE  RunsGrow
<1>1. run \in [Runs -> RunRow]
  BY DEF TypeOK
<1>2. ASSUME NEW r \in Runs, NEW u \in Users, LaunchAsk(u, r) PROVE RunsGrow
  BY <1>1, <1>2 DEF LaunchAsk, RunsGrow, Exists, Created
<1>6. ASSUME NEW r \in Runs, LaunchDecide(r) PROVE RunsGrow
  BY <1>1, <1>6 DEF LaunchDecide, RunsGrow, Exists, Created, RunRow
<1>3. ASSUME NEW r \in Runs, LaunchCommit(r) PROVE RunsGrow
  BY <1>1, <1>3 DEF LaunchCommit, RunsGrow, Exists, Created
<1>4. ASSUME NEW r \in Runs, ExecStart(r) PROVE RunsGrow
  BY <1>1, <1>4 DEF ExecStart, RunsGrow, Exists, Created, RunRow
<1>5. ASSUME NEW r \in Runs, NEW outcome \in {"completed", "failed"}, ExecFinish(r, outcome)
      PROVE  RunsGrow
  BY <1>1, <1>5 DEF ExecFinish, WriteBack, RunsGrow, Exists, Created, RunRow
<1> QED  BY <1>2, <1>3, <1>4, <1>5, <1>6 DEF RunNext

\* What the webhook and the verify endpoint both do: row p of run r is
\* confirmed with the reference of a completed session of that run, and r opens.
StripeConfirmation(p, row, r, ref) ==
    /\ p \in PayIds /\ r \in Runs /\ Exists(r) /\ ref \in Sessions
    /\ session[ref].state \in Completed /\ session[ref].user = run[r].user
    /\ session[ref].run = r
    /\ row \in PayRow /\ row.provider = "stripe" /\ row.user = run[r].user
    /\ pay[p].state # "absent" => row = pay[p] /\ pay[p].run = r
    /\ pay' = [pay EXCEPT ![p] = ConfirmedRow(row, r, ref)]
    /\ UnlockRun(p, r)

\* The reference a confirmation leaves on a row it held across an await belongs
\* to a completed session of the run, although other handlers may have replaced it.
LEMMA HeldRowRef ==
  ASSUME IInv, NEW p \in PayIds, NEW r \in Runs, NEW held, NEW s \in Sessions,
         HeldRow(p, r, held), session[s].state \in Completed, session[s].run = r
  PROVE  /\ pay[p].state # "absent" /\ pay[p].provider = "stripe"
         /\ pay[p].run = r /\ pay[p].user = run[r].user
         /\ LET ref == WriteBack(held, s, pay[p].ref)
            IN  ref \in Sessions /\ session[ref].state \in Completed
                /\ session[ref].run = r /\ session[ref].user = run[r].user
<1>1. RowSound(p) /\ SessionSound(s) /\ p # NoPay
  BY PaywallAssumption DEF IInv, PayIds, NoPay
<1>2. pay[p].provider = "stripe" /\ pay[p].run = r /\ (pay[p].ref = held \/ pay[p].state = "confirmed")
  BY <1>1 DEF HeldRow
<1>3. pay[p].state # "absent"
  BY <1>1, <1>2 DEF RowSound, NoPayRow
<1>4. /\ Exists(r) /\ run[r].user = pay[p].user /\ pay[p].ref \in Sessions
      /\ session[pay[p].ref].run = r /\ session[pay[p].ref].user = pay[p].user
  BY <1>1, <1>2, <1>3 DEF RowSound
<1>5. CASE held = s /\ pay[p].state = "confirmed"
  <2>1. session[pay[p].ref].state \in Completed
    BY <1>1, <1>4, <1>5, PaywallAssumption DEF RowSound, Backed, BackedBy
  <2> QED  BY <1>2, <1>3, <1>4, <1>5, <2>1 DEF WriteBack
<1>6. CASE held = s /\ pay[p].state # "confirmed"
  BY <1>2, <1>3, <1>4, <1>6 DEF WriteBack
<1>7. CASE held # s
  BY <1>1, <1>2, <1>3, <1>4, <1>7 DEF WriteBack, SessionSound, Completed
<1> QED  BY <1>5, <1>6, <1>7

LEMMA WebhookConfirms ==
  ASSUME IInv, NEW s \in Sessions, StripeWebhookCommit(s)
  PROVE  StripeConfirmation(HookPay(s), HookRow(s), session[s].run, HookRef(s))
<1> DEFINE r == session[s].run
<1>1. TypeOK /\ SessionSound(s) /\ HookSound(s)
  BY DEF IInv
<1>2. session[s].state \in Completed /\ HeldRow(hook[s].pay, r, hook[s].ref)
  BY <1>1 DEF HookSound, StripeWebhookCommit
<1>3. r \in Runs /\ Exists(r) /\ run[r].user = session[s].user
  BY <1>1, <1>2 DEF SessionSound, Completed
<1>4. run[r].user \in Users \cup {None} /\ hook[s].pay \in PayIds \cup {NoPay}
  BY <1>1, <1>3 DEF TypeOK, RunRow
<1>5. CASE hook[s].pay = NoPay
  <2>1. HookPay(s) \in PayIds /\ pay[HookPay(s)].state = "absent"
    BY <1>5, NextPayIsFree DEF StripeWebhookCommit, HookPay
  <2>2. HookRow(s) = PendingRow("stripe", run[r].user, r, s) /\ HookRef(s) = s
    BY <1>3, <1>5 DEF HookRow, HookRef
  <2>3. HookRow(s) \in PayRow
    BY <1>3, <1>4, <2>2, PendingRowType DEF Refs
  <2> QED  BY <1>2, <1>3, <2>1, <2>2, <2>3
             DEF StripeConfirmation, StripeWebhookCommit, PendingRow
<1>6. CASE hook[s].pay # NoPay
  <2> DEFINE p == hook[s].pay
  <2>1. p \in PayIds /\ HookPay(s) = p /\ HookRow(s) = pay[p]
        /\ HookRef(s) = WriteBack(hook[s].ref, s, pay[p].ref)
    BY <1>4, <1>6 DEF HookPay, HookRow, HookRef
  <2>2. /\ pay[p].state # "absent" /\ pay[p].provider = "stripe"
        /\ pay[p].run = r /\ pay[p].user = run[r].user
        /\ HookRef(s) \in Sessions /\ session[HookRef(s)].state \in Completed
        /\ session[HookRef(s)].run = r /\ session[HookRef(s)].user = run[r].user
    BY <1>2, <1>3, <2>1, HeldRowRef
  <2>4. pay[p] \in PayRow
    BY <1>1, <2>1 DEF TypeOK
  <2> QED  BY <1>3, <2>1, <2>2, <2>4 DEF StripeConfirmation, StripeWebhookCommit
<1> QED  BY <1>5, <1>6

LEMMA VerifyConfirms ==
  ASSUME IInv, NEW v \in Verifiers, VerifyCommit(v)
  PROVE  StripeConfirmation(VerifyPay(v), VerifyRow(v), verify[v].run, VerifyRef(v))
<1> DEFINE r == verify[v].run
           s == verify[v].session
<1>1. TypeOK /\ VerifySound(v)
  BY DEF IInv
<1>2. s \in Sessions /\ verify[v].pay \in PayIds \cup {NoPay}
  BY <1>1 DEF TypeOK, VerifyCommit
<1>3. /\ r \in Runs /\ Exists(r) /\ HeldRow(verify[v].pay, r, verify[v].ref)
      /\ session[s].state \in Completed /\ session[s].run = r
  BY <1>1 DEF VerifySound, VerifyCommit, Completed, PaidFor
<1>4. SessionSound(s)
  BY <1>2 DEF IInv
<1>5. run[r].user \in Users \cup {None} /\ session[s].user = run[r].user
  BY <1>1, <1>3, <1>4 DEF TypeOK, RunRow, SessionSound, Completed
<1>6. CASE verify[v].pay = NoPay
  <2>1. VerifyPay(v) \in PayIds /\ pay[VerifyPay(v)].state = "absent"
    BY <1>6, NextPayIsFree DEF VerifyCommit, VerifyPay
  <2>2. VerifyRow(v) = PendingRow("stripe", run[r].user, r, s) /\ VerifyRef(v) = s
    BY <1>6 DEF VerifyRow, VerifyRef
  <2>3. VerifyRow(v) \in PayRow
    BY <1>2, <1>3, <1>5, <2>2, PendingRowType DEF Refs
  <2> QED  BY <1>2, <1>3, <1>5, <2>1, <2>2, <2>3
             DEF StripeConfirmation, VerifyCommit, PendingRow
<1>7. CASE verify[v].pay # NoPay
  <2> DEFINE p == verify[v].pay
  <2>1. p \in PayIds /\ VerifyPay(v) = p /\ VerifyRow(v) = pay[p]
        /\ VerifyRef(v) = WriteBack(verify[v].ref, s, pay[p].ref)
    BY <1>2, <1>7 DEF VerifyPay, VerifyRow, VerifyRef
  <2>2. /\ pay[p].state # "absent" /\ pay[p].provider = "stripe"
        /\ pay[p].run = r /\ pay[p].user = run[r].user
        /\ VerifyRef(v) \in Sessions /\ session[VerifyRef(v)].state \in Completed
        /\ session[VerifyRef(v)].run = r /\ session[VerifyRef(v)].user = run[r].user
    BY <1>2, <1>3, <2>1, HeldRowRef
  <2>4. pay[p] \in PayRow
    BY <1>1, <2>1 DEF TypeOK
  <2> QED  BY <1>3, <2>1, <2>2, <2>4 DEF StripeConfirmation, VerifyCommit
<1> QED  BY <1>6, <1>7

\* A confirmation opens one run and closes none, and leaves every other row.
LEMMA StripeConfirmationEffect ==
  ASSUME IInv, UNCHANGED <<session, invoice>>,
         NEW p, NEW row, NEW r, NEW ref, StripeConfirmation(p, row, r, ref)
  PROVE  /\ RunsGrow /\ PaysGrow
         /\ \A q \in PayIds : q # p => pay'[q] = pay[q]
         /\ \A q \in Runs : run'[q].state = run[q].state /\ run'[q].user = run[q].user
                            /\ run'[q].free = run[q].free /\ run'[q].mode = run[q].mode
         /\ \A q \in Runs : q # r => run'[q] = run[q]
         /\ ~run'[r].locked /\ run'[r].payment = p
         /\ pay'[p].state = "confirmed" /\ pay'[p].provider = "stripe"
         /\ pay'[p].user = run[r].user /\ pay'[p].run = r /\ pay'[p].ref = ref
<1>1. TypeOK /\ pay \in [PayIds -> PayRow]
  BY DEF IInv, TypeOK
<1>2. /\ p \in PayIds /\ r \in Runs /\ row \in PayRow /\ row.provider = "stripe"
      /\ row.user = run[r].user /\ UnlockRun(p, r)
      /\ pay' = [pay EXCEPT ![p] = ConfirmedRow(row, r, ref)]
      /\ pay[p].state # "absent" => row = pay[p] /\ pay[p].run = r
  BY DEF StripeConfirmation
<1>3. /\ pay'[p].state = "confirmed" /\ pay'[p].provider = "stripe"
      /\ pay'[p].user = run[r].user /\ pay'[p].run = r /\ pay'[p].ref = ref
      /\ \A q \in PayIds : q # p => pay'[q] = pay[q]
  BY <1>1, <1>2 DEF ConfirmedRow, PayRow
<1>4. PaysGrow
  BY <1>2, <1>3 DEF PaysGrow
<1> QED  BY <1>1, <1>2, <1>3, <1>4, UnlockRunEffect, UnlockRunGrows

\* A finished IPN that finds its payment confirms a crypto row of a run for
\* which NOWPayments holds the money, and opens that run.
LEMMA IpnEffect ==
  ASSUME IInv, NEW i \in Invoices, NEW status \in {"waiting", "finished"},
         CryptoIpn(i, status), ~UNCHANGED <<pay, run>>
  PROVE  /\ invoice[i].state = "finished" /\ i \notin cryptoEvents /\ RunsGrow /\ PaysGrow
         /\ \A q \in PayIds : pay'[q] # pay[q] =>
              /\ pay[q].state # "absent" /\ pay[q].provider = "crypto" /\ pay[q].ref = i
              /\ pay'[q].state = "confirmed" /\ pay'[q].ref = i
              /\ pay'[q].run \in Runs /\ ~run'[pay'[q].run].locked
         /\ \A q \in Runs : run'[q].state = run[q].state /\ run'[q].user = run[q].user
                            /\ run'[q].free = run[q].free /\ run'[q].mode = run[q].mode
         /\ \A q \in Runs : run'[q] # run[q] =>
              /\ q = invoice[i].run /\ ~run'[q].locked /\ run'[q].payment \in PayIds
              /\ pay'[run'[q].payment].state = "confirmed"
              /\ pay'[run'[q].payment].user = run[q].user
<1> DEFINE paid == {p \in PayIds : pay[p].ref = i /\ status = "finished" /\ i \notin cryptoEvents}
           r == invoice[i].run
<1>1. TypeOK /\ pay \in [PayIds -> PayRow]
  BY DEF IInv, TypeOK
<1>2. pay' = [p \in PayIds |-> IF p \in paid THEN ConfirmedRow(pay[p], pay[p].run, i)
                                             ELSE pay[p]]
  BY DEF CryptoIpn
<1>3. paid # {} /\ invoice[i].state = "finished" /\ i \notin cryptoEvents
  <2>1. paid # {}
    <3>1. CASE paid = {}
      <4> HIDE DEF paid
      <4>1. pay' = pay
        BY <1>1, <1>2, <3>1
      <4>2. run' = run
        BY <3>1 DEF CryptoIpn, paid
      <4> QED  BY <4>1, <4>2
    <3> QED  BY <3>1
  <2>2. status = "finished" /\ i \notin cryptoEvents
    BY <2>1
  <2> QED  BY <2>1, <2>2 DEF CryptoIpn
<1>4. ASSUME NEW p \in paid
      PROVE  /\ p \in PayIds /\ pay[p].state # "absent" /\ pay[p].provider = "crypto"
             /\ pay[p].ref = i /\ pay[p].run = r /\ r \in Runs /\ Exists(r)
             /\ run[r].user = pay[p].user
  <2>1. RowSound(p) /\ pay[p].ref = i
    BY DEF IInv
  <2>2. pay[p].state # "absent"
    BY <2>1, PaywallAssumption DEF RowSound, NoPayRow
  <2>3. pay[p].provider = "crypto"
    BY <2>1, <2>2, PaywallAssumption DEF RowSound
  <2>4. pay[p].ref # None
    BY <2>1, PaywallAssumption
  <2> QED  BY <2>1, <2>2, <2>3, <2>4 DEF RowSound
<1>5. Latest(paid) \in paid
  BY <1>3, LatestIsOneOf
<1>6. UnlockRun(Latest(paid), r)
  <2>1. UnlockRun(Latest(paid), pay[Latest(paid)].run)
    BY <1>3 DEF CryptoIpn
  <2>2. pay[Latest(paid)].run = r
    BY <1>4, <1>5
  <2> QED  BY <2>1, <2>2
<1>7. r \in Runs
  BY <1>4, <1>5
<1>8. ASSUME NEW p \in paid
      PROVE  /\ pay'[p].state = "confirmed" /\ pay'[p].provider = pay[p].provider
             /\ pay'[p].user = pay[p].user /\ pay'[p].run = r /\ pay'[p].ref = i
  <2>1. pay'[p] = ConfirmedRow(pay[p], r, i) /\ pay[p] \in PayRow
    BY <1>1, <1>2, <1>4
  <2> QED  BY <2>1 DEF ConfirmedRow, PayRow
<1>9. ASSUME NEW q \in PayIds, q \notin paid PROVE pay'[q] = pay[q]
  BY <1>2, <1>9
<1>10. PaysGrow
  <2> HIDE DEF paid
  <2> QED  BY <1>4, <1>8, <1>9 DEF PaysGrow
<1>11. RunsGrow
  BY <1>1, <1>6, <1>7, UnlockRunGrows
<1>12. /\ ~run'[r].locked /\ run'[r].payment = Latest(paid)
       /\ \A q \in Runs : run'[q].state = run[q].state /\ run'[q].user = run[q].user
                          /\ run'[q].free = run[q].free /\ run'[q].mode = run[q].mode
       /\ \A q \in Runs : q # r => run'[q] = run[q]
  BY <1>1, <1>6, <1>7, UnlockRunEffect
<1>13. /\ Latest(paid) \in PayIds /\ pay'[Latest(paid)].state = "confirmed"
       /\ pay'[Latest(paid)].user = run[r].user
  BY <1>4, <1>5, <1>8
<1> HIDE DEF paid
<1> QED  BY <1>3, <1>4, <1>7, <1>8, <1>9, <1>10, <1>11, <1>12, <1>13

\* Rows that an INSERT adds change no other row.
LEMMA InsertGrows ==
  ASSUME TypeOK, FreePays # {}, NEW row, pay' = [pay EXCEPT ![NextPay] = row]
  PROVE  /\ PaysGrow /\ NextPay \in PayIds /\ pay[NextPay].state = "absent"
         /\ pay'[NextPay] = row /\ \A q \in PayIds : q # NextPay => pay'[q] = pay[q]
<1>1. NextPay \in PayIds /\ pay[NextPay].state = "absent"
  BY NextPayIsFree
<1>2. pay'[NextPay] = row /\ \A q \in PayIds : q # NextPay => pay'[q] = pay[q]
  BY <1>1 DEF TypeOK
<1> QED  BY <1>1, <1>2 DEF PaysGrow

LEMMA ChargesStepGrow ==
  ASSUME TypeOK, [Next]_vars
  PROVE  ChargesGrow
<1>1. CASE UNCHANGED <<session, invoice>>
  BY <1>1 DEF ChargesGrow
<1>2. ASSUME NEW s \in Sessions, NEW r \in Runs, StripeCheckout(r, s) \/ CheckoutRowLost(r, s)
      PROVE  ChargesGrow
  <2>1. session[s].state = "none" /\ UNCHANGED invoice
        /\ \A q \in Sessions : q # s => session'[q] = session[q]
    BY <1>2 DEF StripeCheckout, CheckoutRowLost, TypeOK
  <2> QED  BY <2>1 DEF ChargesGrow, Completed
<1>3. ASSUME NEW s \in Sessions, CustomerCompletes(s) \/ DelayedPayment(s) PROVE ChargesGrow
  <2>1. PICK status \in Completed : session' = [session EXCEPT ![s].state = status]
    BY <1>3, PaywallAssumption DEF CustomerCompletes, DelayedPayment, Completed
  <2>2. /\ UNCHANGED invoice /\ session[s].state \in {"open", "unpaid"}
        /\ session'[s].state = status /\ session'[s].run = session[s].run
        /\ session'[s].user = session[s].user
        /\ \A q \in Sessions : q # s => session'[q] = session[q]
    BY <1>3, <2>1 DEF CustomerCompletes, DelayedPayment, TypeOK
  <2> QED  BY <2>2 DEF ChargesGrow, Completed
<1>4. ASSUME NEW i \in Invoices, NEW r \in Runs, CryptoInvoice(r, i) PROVE ChargesGrow
  <2>1. invoice[i].state = "none" /\ UNCHANGED session
        /\ \A q \in Invoices : q # i => invoice'[q] = invoice[q]
    BY <1>4 DEF CryptoInvoice, TypeOK
  <2> QED  BY <2>1 DEF ChargesGrow
<1>5. ASSUME NEW i \in Invoices, CryptoInvoiceCommit(i) \/ CryptoPaid(i) PROVE ChargesGrow
  <2>1. /\ UNCHANGED session /\ invoice'[i].run = invoice[i].run
        /\ invoice'[i].user = invoice[i].user
        /\ invoice'[i].state = invoice[i].state \/ invoice'[i].state = "finished"
        /\ \A q \in Invoices : q # i => invoice'[q] = invoice[q]
    BY <1>5 DEF CryptoInvoiceCommit, CryptoPaid, TypeOK
  <2> QED  BY <2>1 DEF ChargesGrow
<1>6. ASSUME Restart PROVE ChargesGrow
  <2>1. UNCHANGED session
        /\ invoice' = [i \in Invoices |-> [invoice[i] EXCEPT
                          !.answer = IF invoice[i].answer = "due" THEN "none" ELSE @]]
    BY <1>6 DEF Restart
  <2>2. \A i \in Invoices : /\ invoice'[i].state = invoice[i].state
                            /\ invoice'[i].run = invoice[i].run
                            /\ invoice'[i].user = invoice[i].user
    BY <2>1 DEF TypeOK
  <2> QED  BY <2>1, <2>2 DEF ChargesGrow
<1>7. CASE RunNext \/ VerifyNext \/ Tick
  BY <1>1, <1>7 DEF RunNext, VerifyNext, VerifyStep, Tick, LaunchAsk, LaunchDecide, LaunchCommit,
       ExecStart, ExecFinish, VerifyRead, VerifyLook, VerifyConfirmed,
       VerifyPending, VerifyOwn, VerifyUnowned, VerifyCommit, VerifyUnlock,
       VerifyConflict, providers
<1>8. CASE \E s \in Sessions : WebhookNext(s)
  BY <1>1, <1>8 DEF WebhookNext, StripeWebhookSelect, StripeWebhookCommit,
       StripeWebhookConflict, providers
<1>9. CASE \E i \in Invoices, status \in {"waiting", "finished"} : CryptoIpn(i, status)
  BY <1>1, <1>9 DEF CryptoIpn
<1>10. CASE UNCHANGED vars
  BY <1>1, <1>10 DEF vars, providers
<1> QED  BY <1>2, <1>3, <1>4, <1>5, <1>6, <1>7, <1>8, <1>9, <1>10
         DEF Next, StripeNext, CryptoNext

\* The event tables forget no event, and only a Stripe commit adds to its own.
LEMMA EventsStepGrow ==
  ASSUME [Next]_vars
  PROVE  /\ cryptoEvents \subseteq cryptoEvents'
         /\ stripeEvents' = stripeEvents \/ \E s \in Sessions : StripeWebhookCommit(s)
<1>1. CASE RunNext \/ VerifyNext
  BY <1>1 DEF RunNext, VerifyNext, VerifyStep, LaunchAsk, LaunchDecide, LaunchCommit, ExecStart,
     ExecFinish, VerifyRead, VerifyLook, VerifyConfirmed,
       VerifyPending, VerifyOwn, VerifyUnowned, VerifyCommit, VerifyUnlock, VerifyConflict, tables
<1>2. CASE StripeNext
  BY <1>2 DEF StripeNext, WebhookNext, StripeCheckout, CheckoutRowLost, CustomerCompletes, DelayedPayment,
     StripeWebhookSelect, StripeWebhookCommit, StripeWebhookConflict, tables
<1>3. CASE CryptoNext \/ Tick \/ Restart \/ UNCHANGED vars
  BY <1>3 DEF CryptoNext, CryptoInvoice, CryptoInvoiceCommit, CryptoPaid, CryptoIpn, Tick,
     Restart, vars, tables
<1> QED  BY <1>1, <1>2, <1>3 DEF Next

\* No step closes an open run, unconfirms or reassigns a payment.
LEMMA StepGrows ==
  ASSUME IInv, [Next]_vars
  PROVE  RunsGrow /\ PaysGrow
<1>1. TypeOK
  BY DEF IInv
<1>2. CASE UNCHANGED <<run, pay>>
  BY <1>2 DEF RunsGrow, PaysGrow, Exists
<1>3. CASE RunNext
  <2>1. UNCHANGED pay
    BY <1>3 DEF RunNext, LaunchAsk, LaunchDecide, LaunchCommit, ExecStart, ExecFinish
  <2> QED  BY <1>1, <1>3, <2>1, RunStepGrows DEF PaysGrow
<1>4. ASSUME NEW s \in Sessions, NEW r \in Runs, StripeCheckout(r, s) PROVE RunsGrow /\ PaysGrow
  BY <1>1, <1>4, InsertGrows DEF StripeCheckout, RunsGrow, Exists
<1>5. ASSUME NEW i \in Invoices, CryptoInvoiceCommit(i) PROVE RunsGrow /\ PaysGrow
  BY <1>1, <1>5, InsertGrows DEF CryptoInvoiceCommit, RunsGrow, Exists
<1>6. ASSUME NEW s \in Sessions, StripeWebhookCommit(s) PROVE RunsGrow /\ PaysGrow
  <2>1. UNCHANGED <<session, invoice>>
    BY <1>6 DEF StripeWebhookCommit, providers
  <2> QED  BY <1>6, <2>1, WebhookConfirms, StripeConfirmationEffect
<1>7. ASSUME NEW v \in Verifiers, VerifyCommit(v) PROVE RunsGrow /\ PaysGrow
  <2>1. UNCHANGED <<session, invoice>>
    BY <1>7 DEF VerifyCommit, providers
  <2> QED  BY <1>7, <2>1, VerifyConfirms, StripeConfirmationEffect
<1>8. ASSUME NEW v \in Verifiers, VerifyUnlock(v) PROVE RunsGrow /\ PaysGrow
  <2>1. verify[v].run \in Runs /\ UNCHANGED pay /\ UnlockRun(verify[v].pay, verify[v].run)
    BY <1>8 DEF VerifyUnlock, IInv, VerifySound
  <2> QED  BY <1>1, <2>1, UnlockRunGrows DEF PaysGrow
<1>9. ASSUME NEW i \in Invoices, NEW status \in {"waiting", "finished"}, CryptoIpn(i, status)
      PROVE  RunsGrow /\ PaysGrow
  BY <1>2, <1>9, IpnEffect
<1>10. ASSUME Restart PROVE RunsGrow /\ PaysGrow
  <2>1. UNCHANGED pay /\ \A r \in Runs : Exists(r) => run'[r] = run[r]
    BY <1>10 DEF Restart, Exists, Created
  <2> QED  BY <2>1 DEF RunsGrow, PaysGrow, Exists
<1>11. CASE StripeNext
  <2>1. ASSUME NEW s \in Sessions,
               \/ \E r \in Runs : CheckoutRowLost(r, s)
               \/ CustomerCompletes(s) \/ DelayedPayment(s) \/ StripeWebhookSelect(s) \/ StripeWebhookConflict(s)
        PROVE  UNCHANGED <<run, pay>>
    BY <2>1 DEF CheckoutRowLost, CustomerCompletes, DelayedPayment, StripeWebhookSelect, StripeWebhookConflict, tables
  <2> QED  BY <1>2, <1>4, <1>6, <1>11, <2>1 DEF StripeNext, WebhookNext
<1>12. CASE VerifyNext
  <2>1. ASSUME NEW v \in Verifiers,
               (\E r \in Runs : VerifyRead(v, r)) \/ VerifyLook(v) \/ VerifyConflict(v)
        PROVE  UNCHANGED <<run, pay>>
    BY <2>1 DEF VerifyRead, VerifyLook, VerifyConfirmed, VerifyPending, VerifyOwn, VerifyUnowned,
            VerifyConflict, tables
  <2> QED  BY <1>2, <1>7, <1>8, <1>12, <2>1 DEF VerifyNext, VerifyStep
<1>13. CASE CryptoNext
  <2>1. ASSUME NEW i \in Invoices, (\E r \in Runs : CryptoInvoice(r, i)) \/ CryptoPaid(i)
        PROVE  UNCHANGED <<run, pay>>
    BY <2>1 DEF CryptoInvoice, CryptoPaid, tables
  <2> QED  BY <1>2, <1>5, <1>9, <1>13, <2>1 DEF CryptoNext
<1>14. CASE Tick \/ UNCHANGED vars
  BY <1>2, <1>14 DEF Tick, vars, tables
<1> QED  BY <1>3, <1>10, <1>11, <1>12, <1>13, <1>14 DEF Next

-----------------------------------------------------------------------------
(* The invariant, one conjunct at a time.                                  *)

\* A row that a step leaves alone stays sound.
LEMMA RowFrame ==
  ASSUME IInv, RunsGrow, ChargesGrow, cryptoEvents \subseteq cryptoEvents',
         NEW p \in PayIds, pay'[p] = pay[p]
  PROVE  RowSound(p)'
<1>1. RowSound(p)
  BY DEF IInv
<1>2. CASE pay[p].state = "absent"
  BY <1>1, <1>2 DEF RowSound
<1>3. CASE pay[p].state # "absent" /\ pay[p].provider = "stripe"
  <2>1. /\ pay[p].run \in Runs /\ Exists(pay[p].run)' /\ run'[pay[p].run].user = pay[p].user
        /\ pay[p].state = "confirmed" => ~run'[pay[p].run].locked
    BY <1>1, <1>3 DEF RowSound, RunsGrow
  <2>2. /\ pay[p].ref \in Sessions /\ session'[pay[p].ref].state # "none"
        /\ session'[pay[p].ref].run = pay[p].run /\ session'[pay[p].ref].user = pay[p].user
    BY <1>1, <1>3 DEF RowSound, ChargesGrow
  <2>3. ASSUME pay[p].state = "confirmed" PROVE Backed(p)'
    <3>1. Backed(p)
      BY <1>1, <2>3 DEF RowSound
    <3>2. session[pay[p].ref].state \in Completed
      BY <2>2, <3>1, PaywallAssumption DEF Backed, BackedBy
    <3>3. session'[pay[p].ref].state \in Completed
      BY <2>2, <3>2 DEF ChargesGrow, Completed
    <3> QED  BY <2>2, <3>3 DEF Backed, BackedBy
  <2> QED  BY <1>3, <2>1, <2>2, <2>3 DEF RowSound
<1>4. CASE pay[p].state # "absent" /\ pay[p].provider = "crypto"
  <2>1. /\ pay[p].run \in Runs /\ Exists(pay[p].run)' /\ run'[pay[p].run].user = pay[p].user
        /\ pay[p].state = "confirmed" => ~run'[pay[p].run].locked /\ pay[p].ref \in cryptoEvents'
    BY <1>1, <1>4 DEF RowSound, RunsGrow
  <2>2. \/ pay[p].ref = None /\ pay[p].state = "pending"
        \/ /\ pay[p].ref \in Invoices /\ invoice'[pay[p].ref].state # "none"
           /\ invoice'[pay[p].ref].run = pay[p].run /\ invoice'[pay[p].ref].user = pay[p].user
    BY <1>1, <1>4 DEF RowSound, ChargesGrow
  <2>3. ASSUME pay[p].state = "confirmed" PROVE Backed(p)'
    <3>1. Backed(p)
      BY <1>1, <2>3 DEF RowSound
    <3>2. invoice[pay[p].ref].state = "finished" /\ pay[p].ref \in Invoices
      BY <2>2, <2>3, <3>1, PaywallAssumption DEF Backed, BackedBy
    <3>3. invoice'[pay[p].ref].state = "finished"
      BY <2>2, <2>3, <3>2, PaywallAssumption DEF RowSound, ChargesGrow
    <3> QED  BY <2>2, <2>3, <3>2, <3>3 DEF Backed, BackedBy
  <2> QED  BY <1>4, <2>1, <2>2, <2>3 DEF RowSound
<1> QED  BY <1>1, <1>2, <1>3, <1>4 DEF RowSound

\* The row a confirmation writes is sound.
LEMMA ConfirmedRowSound ==
  ASSUME IInv, UNCHANGED <<session, invoice>>,
         NEW p, NEW row, NEW r, NEW ref, StripeConfirmation(p, row, r, ref)
  PROVE  RowSound(p)'
<1>1. /\ pay'[p].state = "confirmed" /\ pay'[p].provider = "stripe"
      /\ pay'[p].user = run[r].user /\ pay'[p].run = r /\ pay'[p].ref = ref
      /\ ~run'[r].locked /\ RunsGrow
  BY StripeConfirmationEffect
<1>2. /\ r \in Runs /\ Exists(r) /\ ref \in Sessions
      /\ session[ref].state \in Completed /\ session[ref].user = run[r].user
      /\ session[ref].run = r
  BY DEF StripeConfirmation
<1>3. Exists(r)' /\ run'[r].user = run[r].user
  BY <1>1, <1>2 DEF RunsGrow
<1>4. /\ session'[ref].state # "none" /\ session'[ref].run = r /\ session'[ref].user = run[r].user
      /\ session'[ref].state \in Completed
  BY <1>2 DEF Completed
<1> QED  BY <1>1, <1>2, <1>3, <1>4 DEF RowSound, Backed, BackedBy

\* Every row stays sound.
LEMMA RowsStep ==
  ASSUME IInv, [Next]_vars, NEW p \in PayIds
  PROVE  RowSound(p)'
<1>1. TypeOK /\ RunsGrow /\ PaysGrow /\ ChargesGrow /\ cryptoEvents \subseteq cryptoEvents'
  BY StepGrows, ChargesStepGrow, EventsStepGrow DEF IInv
<1>2. CASE pay'[p] = pay[p]
  BY <1>1, <1>2, RowFrame
<1>3. ASSUME NEW s \in Sessions, NEW r \in Runs, StripeCheckout(r, s) PROVE RowSound(p)'
  <2>1. CASE p = NextPay
    <3>1. pay'[p] = PendingRow("stripe", run[r].user, r, s)
      BY <1>1, <1>3, <2>1, InsertGrows DEF StripeCheckout
    <3>2. session'[s] = [state |-> "open", user |-> run[r].user, run |-> r]
      BY <1>1, <1>3 DEF StripeCheckout, TypeOK
    <3>3. Exists(r)' /\ run'[r].user = run[r].user
      BY <1>1, <1>3 DEF StripeCheckout, RunsGrow
    <3> QED  BY <3>1, <3>2, <3>3 DEF RowSound, PendingRow
  <2>2. CASE p # NextPay
    BY <1>1, <1>2, <1>3, <2>2, InsertGrows DEF StripeCheckout
  <2> QED  BY <2>1, <2>2
<1>4. ASSUME NEW i \in Invoices, CryptoInvoiceCommit(i) PROVE RowSound(p)'
  <2> PICK r \in Runs : r = invoice[i].run /\ Exists(r) /\ run[r].user = invoice[i].user
    BY <1>4 DEF IInv, InvoiceSound, CryptoInvoiceCommit
  <2>1. invoice[i].state # "none"
    BY <1>4 DEF IInv, InvoiceSound, CryptoInvoiceCommit
  <2>2. CASE p = NextPay
    <3>1. PICK ref \in {i, None} : pay'[p] = PendingRow("crypto", invoice[i].user, r, ref)
      BY <1>1, <1>4, <2>2, InsertGrows DEF CryptoInvoiceCommit
    <3>2. invoice'[i].state # "none" /\ invoice'[i].user = invoice[i].user /\ invoice'[i].run = r
      BY <1>1, <2>1 DEF ChargesGrow
    <3>3. Exists(r)' /\ run'[r].user = invoice[i].user
      BY <1>1, <2>1 DEF RunsGrow
    <3> QED  BY <2>1, <3>1, <3>2, <3>3 DEF RowSound, PendingRow
  <2>3. CASE p # NextPay
    BY <1>1, <1>2, <1>4, <2>3, InsertGrows DEF CryptoInvoiceCommit
  <2> QED  BY <2>2, <2>3
<1>5. ASSUME NEW s \in Sessions, StripeWebhookCommit(s) PROVE RowSound(p)'
  <2>1. UNCHANGED <<session, invoice>>
    BY <1>5 DEF StripeWebhookCommit, providers
  <2>2. CASE p = HookPay(s)
    BY <1>5, <2>1, <2>2, WebhookConfirms, ConfirmedRowSound
  <2>3. CASE p # HookPay(s)
    BY <1>2, <1>5, <2>1, <2>3, WebhookConfirms, StripeConfirmationEffect
  <2> QED  BY <2>2, <2>3
<1>6. ASSUME NEW v \in Verifiers, VerifyCommit(v) PROVE RowSound(p)'
  <2>1. UNCHANGED <<session, invoice>>
    BY <1>6 DEF VerifyCommit, providers
  <2>2. CASE p = VerifyPay(v)
    BY <1>6, <2>1, <2>2, VerifyConfirms, ConfirmedRowSound
  <2>3. CASE p # VerifyPay(v)
    BY <1>2, <1>6, <2>1, <2>3, VerifyConfirms, StripeConfirmationEffect
  <2> QED  BY <2>2, <2>3
<1>7. ASSUME NEW i \in Invoices, NEW status \in {"waiting", "finished"}, CryptoIpn(i, status),
             pay'[p] # pay[p]
      PROVE  RowSound(p)'
  <2>1. /\ invoice[i].state = "finished" /\ pay[p].state # "absent"
        /\ pay[p].provider = "crypto" /\ pay[p].ref = i
        /\ pay'[p].state = "confirmed" /\ pay'[p].ref = i
        /\ pay'[p].run \in Runs /\ ~run'[pay'[p].run].locked
    BY <1>7, IpnEffect
  <2>2. /\ pay'[p].provider = "crypto" /\ pay'[p].user = pay[p].user /\ pay'[p].run = pay[p].run
    BY <1>1, <2>1 DEF PaysGrow
  <2> PICK r \in Runs : r = pay[p].run
    BY <2>1, <2>2
  <2>3. /\ Exists(r) /\ run[r].user = pay[p].user
        /\ invoice[i].run = r /\ invoice[i].user = pay[p].user
    BY <2>1, PaywallAssumption DEF IInv, RowSound
  <2>4. Exists(r)' /\ run'[r].user = pay'[p].user
    BY <1>1, <2>2, <2>3 DEF RunsGrow
  <2>5. UNCHANGED invoice /\ i \in cryptoEvents'
    BY <1>7 DEF CryptoIpn
  <2>6. i # None
    BY PaywallAssumption
  <2> QED  BY <2>1, <2>2, <2>3, <2>4, <2>5, <2>6 DEF RowSound, Backed, BackedBy
<1>8. CASE UNCHANGED pay
  BY <1>2, <1>8
<1>9. CASE RunNext \/ Tick \/ Restart \/ UNCHANGED vars
  BY <1>8, <1>9 DEF RunNext, LaunchAsk, LaunchDecide, LaunchCommit, ExecStart, ExecFinish, Tick, Restart,
     vars, tables
<1>10. CASE StripeNext
  BY <1>3, <1>5, <1>8, <1>10 DEF StripeNext, WebhookNext, CheckoutRowLost, CustomerCompletes, DelayedPayment,
     StripeWebhookSelect, StripeWebhookConflict, tables
<1>11. CASE VerifyNext
  BY <1>6, <1>8, <1>11 DEF VerifyNext, VerifyStep, VerifyRead, VerifyLook, VerifyConfirmed, VerifyPending, VerifyOwn, VerifyUnowned, VerifyUnlock,
     VerifyConflict, tables
<1>12. CASE CryptoNext
  BY <1>2, <1>4, <1>7, <1>8, <1>12 DEF CryptoNext, CryptoInvoice, CryptoPaid, tables
<1> QED  BY <1>9, <1>10, <1>11, <1>12 DEF Next

LEMMA RunFrame ==
  ASSUME IInv, PaysGrow, NEW r \in Runs, run'[r] = run[r], exec'[r] = exec[r]
  PROVE  RunSound(r)'
<1>1. RunSound(r) /\ run[r].payment \in PayIds \cup {NoPay}
  BY DEF IInv, TypeOK, RunRow
<1>2. ASSUME run[r].payment # NoPay
      PROVE  pay'[run[r].payment].state = "confirmed" /\ pay'[run[r].payment].user = run[r].user
  <2>1. run[r].payment \in PayIds /\ pay[run[r].payment].state = "confirmed"
        /\ pay[run[r].payment].user = run[r].user
    BY <1>1, <1>2 DEF RunSound
  <2> QED  BY <2>1 DEF PaysGrow
<1> QED  BY <1>1, <1>2 DEF RunSound, Exists

\* A run that a handler opens with a confirmed payment of its user is sound.
LEMMA OpenedRunSound ==
  ASSUME IInv, NEW r \in Runs, exec'[r] = exec[r], Exists(r),
         run'[r].state = run[r].state, run'[r].user = run[r].user,
         run'[r].mode = run[r].mode, run'[r].free = run[r].free,
         run'[r].payment \in PayIds, pay'[run'[r].payment].state = "confirmed",
         pay'[run'[r].payment].user = run[r].user
  PROVE  RunSound(r)'
<1>1. RunSound(r) /\ run'[r].payment # NoPay
  BY PaywallAssumption DEF IInv, PayIds, NoPay
<1> QED  BY <1>1 DEF RunSound, Exists, Created

LEMMA ConfirmedRunSound ==
  ASSUME IInv, UNCHANGED <<session, invoice, exec>>,
         NEW p, NEW row, NEW r, NEW ref, StripeConfirmation(p, row, r, ref), NEW q \in Runs
  PROVE  RunSound(q)'
<1>1. /\ PaysGrow /\ \A x \in Runs : x # r => run'[x] = run[x]
      /\ \A x \in Runs : run'[x].state = run[x].state /\ run'[x].user = run[x].user
                         /\ run'[x].free = run[x].free /\ run'[x].mode = run[x].mode
      /\ run'[r].payment = p /\ pay'[p].state = "confirmed" /\ pay'[p].user = run[r].user
  BY StripeConfirmationEffect
<1>2. p \in PayIds /\ r \in Runs /\ Exists(r)
  BY DEF StripeConfirmation
<1>3. CASE q = r
  BY <1>1, <1>2, <1>3, OpenedRunSound
<1>4. CASE q # r
  BY <1>1, <1>4, RunFrame
<1> QED  BY <1>3, <1>4

LEMMA LaunchedRunSound ==
  ASSUME IInv, RunNext, NEW q \in Runs
  PROVE  RunSound(q)'
<1>1. TypeOK /\ run \in [Runs -> RunRow] /\ RunSound(q)
  BY DEF IInv, TypeOK
<1>2. UNCHANGED pay /\ PaysGrow
  BY DEF RunNext, LaunchAsk, LaunchDecide, LaunchCommit, ExecStart, ExecFinish, PaysGrow
<1>7. ASSUME NEW r \in Runs, LaunchDecide(r) PROVE RunSound(q)'
  <2>1. /\ exec' = exec /\ run[r].mode = "asked"
        /\ \A x \in Runs : x # r => run'[x] = run[x]
    BY <1>1, <1>7 DEF LaunchDecide, requests
  <2>2. /\ run'[r].state = run[r].state /\ run'[r].user = run[r].user
        /\ run'[r].payment = run[r].payment /\ run'[r].locked = run[r].locked
        /\ run'[r].free = run[r].free
    BY <1>1, <1>7 DEF LaunchDecide, RunRow
  <2>3. CASE q = r
    BY <1>1, <1>2, <2>1, <2>2, <2>3 DEF RunSound, Exists, Created
  <2> QED  BY <1>2, <2>1, <2>3, RunFrame
<1>3. ASSUME NEW r \in Runs, NEW u \in Users, LaunchAsk(u, r) PROVE RunSound(q)'
  <2>1. exec' = exec /\ run[r].state = "absent" /\ \A x \in Runs : x # r => run'[x] = run[x]
    BY <1>1, <1>3 DEF LaunchAsk, requests
  <2>2. /\ run'[r].state = "deciding" /\ run'[r].user = u /\ run'[r].payment = NoPay
        /\ run'[r].free = FALSE
    BY <1>1, <1>3 DEF LaunchAsk, NoRun
  <2>3. CASE q = r
    BY <1>1, <2>1, <2>2, <2>3 DEF RunSound, Exists, Created
  <2> QED  BY <1>2, <2>1, <2>3, RunFrame
<1>4. ASSUME NEW r \in Runs, LaunchCommit(r) PROVE RunSound(q)'
  <2> DEFINE u == run[r].user
             p == IF run[r].mode = "paid" /\ ActivePays(u) # {} THEN GetActivePayment(u) ELSE NoPay
  <2>1. /\ run[r].state = "deciding" /\ exec'[r] = "ready"
        /\ \A x \in Runs : x # r => run'[x] = run[x] /\ exec'[x] = exec[x]
    BY <1>1, <1>4 DEF LaunchCommit, TypeOK
  <2>2. /\ run'[r].state = "queued" /\ run'[r].user = u /\ run'[r].payment = p
        /\ run'[r].locked = (run[r].mode # "free" /\ p = NoPay)
        /\ run'[r].free = (run[r].mode = "free") /\ run'[r].mode = "none"
    <3> HIDE DEF p
    <3>1. run' = [run EXCEPT ![r] = [@ EXCEPT !.state = "queued", !.mode = "none",
                                       !.locked = (run[r].mode # "free" /\ p = NoPay),
                                       !.free = (run[r].mode = "free"),
                                       !.payment = p]]
      BY <1>4 DEF LaunchCommit, p
    <3> QED  BY <1>1, <3>1 DEF RunRow
  <2>3. p # NoPay => pay[p].state = "confirmed" /\ pay[p].user = u
    BY <1>1, GetActivePaymentIsActive DEF ActivePays, ActivePayment
  <2>4. CASE q = r
    <3>1. u \in Users
      BY <1>1, <2>1, <2>4 DEF RunSound
    <3>2. pay' = pay
      BY <1>2
    <3> HIDE DEF p
    <3> QED  BY <2>1, <2>2, <2>3, <2>4, <3>1, <3>2 DEF RunSound, Exists, Created
  <2> QED  BY <1>2, <2>1, <2>4, RunFrame
<1>5. ASSUME NEW r \in Runs, ExecStart(r) PROVE RunSound(q)'
  <2>1. /\ exec[r] = "ready" /\ exec'[r] \in {"sawLocked", "sawOpen"}
        /\ \A x \in Runs : x # r => run'[x] = run[x] /\ exec'[x] = exec[x]
    BY <1>1, <1>5 DEF ExecStart, TypeOK
  <2>2. /\ run'[r].state = "running" /\ run'[r].user = run[r].user
        /\ run'[r].payment = run[r].payment /\ run'[r].locked = run[r].locked
        /\ run'[r].free = run[r].free /\ run'[r].mode = run[r].mode
    BY <1>1, <1>5 DEF ExecStart, RunRow
  <2>3. CASE q = r
    BY <1>1, <1>2, <2>1, <2>2, <2>3 DEF RunSound, Exists, Created
  <2> QED  BY <1>2, <2>1, <2>3, RunFrame
<1>6. ASSUME NEW r \in Runs, NEW outcome \in {"completed", "failed"}, ExecFinish(r, outcome)
      PROVE  RunSound(q)'
  <2>1. /\ exec[r] \in {"sawLocked", "sawOpen"} /\ exec'[r] = "none"
        /\ \A x \in Runs : x # r => run'[x] = run[x] /\ exec'[x] = exec[x]
    BY <1>1, <1>6 DEF ExecFinish, TypeOK
  <2>2. /\ run'[r].state = outcome /\ run'[r].user = run[r].user
        /\ run'[r].payment = run[r].payment /\ run'[r].locked = run[r].locked
        /\ run'[r].free = run[r].free /\ run'[r].mode = run[r].mode
    BY <1>1, <1>6 DEF ExecFinish, WriteBack, RunRow
  <2>3. CASE q = r
    BY <1>1, <1>2, <2>1, <2>2, <2>3 DEF RunSound, Exists, Created
  <2> QED  BY <1>2, <2>1, <2>3, RunFrame
<1> QED  BY <1>3, <1>4, <1>5, <1>6, <1>7 DEF RunNext

\* Every run stays sound.
LEMMA RunsStep ==
  ASSUME IInv, [Next]_vars, NEW q \in Runs
  PROVE  RunSound(q)'
<1>1. TypeOK /\ PaysGrow /\ RunSound(q)
  BY StepGrows DEF IInv
<1>2. CASE UNCHANGED <<run, exec>>
  BY <1>1, <1>2, RunFrame
<1>3. ASSUME NEW s \in Sessions, StripeWebhookCommit(s) PROVE RunSound(q)'
  <2>1. UNCHANGED <<session, invoice, exec>>
    BY <1>3 DEF StripeWebhookCommit, providers
  <2> QED  BY <1>3, <2>1, WebhookConfirms, ConfirmedRunSound
<1>4. ASSUME NEW v \in Verifiers, VerifyCommit(v) PROVE RunSound(q)'
  <2>1. UNCHANGED <<session, invoice, exec>>
    BY <1>4 DEF VerifyCommit, providers
  <2> QED  BY <1>4, <2>1, VerifyConfirms, ConfirmedRunSound
<1>5. ASSUME NEW v \in Verifiers, VerifyUnlock(v) PROVE RunSound(q)'
  <2> PICK p, r : p = verify[v].pay /\ r = verify[v].run
    OBVIOUS
  <2>1. /\ r \in Runs /\ Exists(r) /\ HeldRow(p, r, verify[v].ref)
        /\ p # NoPay /\ pay[p].state = "confirmed" /\ UnlockRun(p, r)
        /\ UNCHANGED <<pay, exec>>
    BY <1>5 DEF VerifyUnlock, IInv, VerifySound
  <2>2. p \in PayIds
    BY <1>1, <2>1 DEF TypeOK
  <2>3. pay[p].run = r /\ pay[p].user = run[r].user
    BY <2>1, <2>2 DEF HeldRow, IInv, RowSound
  <2>4. /\ run'[r].state = run[r].state /\ run'[r].user = run[r].user /\ run'[r].payment = p
        /\ run'[r].free = run[r].free /\ run'[r].mode = run[r].mode
        /\ \A x \in Runs : x # r => run'[x] = run[x]
    BY <1>1, <2>1, UnlockRunEffect
  <2>5. CASE q = r
    BY <2>1, <2>2, <2>3, <2>4, <2>5, OpenedRunSound
  <2>6. CASE q # r
    BY <1>1, <2>1, <2>4, <2>6, RunFrame
  <2> QED  BY <2>5, <2>6
<1>6. ASSUME NEW i \in Invoices, NEW status \in {"waiting", "finished"}, CryptoIpn(i, status)
      PROVE  RunSound(q)'
  <2>1. exec' = exec
    BY <1>6 DEF CryptoIpn, requests
  <2>2. CASE run'[q] = run[q]
    BY <1>1, <2>1, <2>2, RunFrame
  <2>3. CASE run'[q] # run[q]
    <3>1. /\ run'[q].payment \in PayIds /\ pay'[run'[q].payment].state = "confirmed"
          /\ pay'[run'[q].payment].user = run[q].user
          /\ run'[q].state = run[q].state /\ run'[q].user = run[q].user
          /\ run'[q].free = run[q].free /\ run'[q].mode = run[q].mode
      BY <1>6, <2>3, IpnEffect
    <3>2. CASE Exists(q)
      BY <2>1, <3>1, <3>2, OpenedRunSound
    <3>3. CASE ~Exists(q)
      <4>1. PICK p \in PayIds : p = run'[q].payment
        BY <3>1
      <4> QED  BY <1>1, <2>1, <3>1, <3>3 DEF RunSound, Exists, Created
    <3> QED  BY <3>2, <3>3
  <2> QED  BY <2>2, <2>3
<1>7. ASSUME Restart PROVE RunSound(q)'
  <2>1. /\ run'[q] = IF run[q].state = "deciding" THEN NoRun ELSE run[q]
        /\ exec'[q] = "none" /\ pay' = pay
    BY <1>7 DEF Restart
  <2>2. CASE run[q].state = "deciding"
    BY <1>1, <2>1, <2>2 DEF RunSound, NoRun, Exists, Created
  <2>3. CASE run[q].state # "deciding"
    BY <1>1, <2>1, <2>3 DEF RunSound, Exists
  <2> QED  BY <2>2, <2>3
<1>8. CASE RunNext
  BY <1>8, LaunchedRunSound
<1>9. CASE StripeNext
  BY <1>2, <1>3, <1>9 DEF StripeNext, WebhookNext, StripeCheckout, CheckoutRowLost, CustomerCompletes, DelayedPayment,
     StripeWebhookSelect, StripeWebhookConflict, tables, requests
<1>10. CASE VerifyNext
  BY <1>2, <1>4, <1>5, <1>10 DEF VerifyNext, VerifyStep, VerifyRead, VerifyLook, VerifyConfirmed, VerifyPending, VerifyOwn, VerifyUnowned,
     VerifyConflict, tables
<1>11. CASE CryptoNext
  BY <1>2, <1>6, <1>11 DEF CryptoNext, CryptoInvoice, CryptoInvoiceCommit, CryptoPaid, tables,
     requests
<1>12. CASE Tick \/ UNCHANGED vars
  BY <1>2, <1>12 DEF Tick, vars, tables, requests
<1> QED  BY <1>7, <1>8, <1>9, <1>10, <1>11, <1>12 DEF Next

\* A session is unpaid, or its delayed payment failed, only where Stripe offers a
\* method that can complete a checkout unpaid.
LEMMA SessionStates ==
  ASSUME TypeOK, [Next]_vars, NEW s \in Sessions,
         session[s].state \in {"unpaid", "lapsed"} => "unpaid" \in CompletedAs
  PROVE  session'[s].state \in {"unpaid", "lapsed"} => "unpaid" \in CompletedAs
<1>1. CASE session'[s] = session[s]
  BY <1>1
<1>2. ASSUME NEW x \in Sessions, NEW r \in Runs, StripeCheckout(r, x) \/ CheckoutRowLost(r, x)
      PROVE  session'[s] = session[s] \/ session'[s].state = "open"
  BY <1>2 DEF StripeCheckout, CheckoutRowLost, TypeOK
<1>3. ASSUME NEW x \in Sessions, CustomerCompletes(x)
      PROVE  session'[s] = session[s] \/ session'[s].state \in CompletedAs
  BY <1>3 DEF CustomerCompletes, TypeOK
<1>4. ASSUME NEW x \in Sessions, DelayedPayment(x)
      PROVE  session'[s] = session[s] \/ session[s].state = "unpaid"
  BY <1>4 DEF DelayedPayment, TypeOK
<1>5. CASE StripeNext
  BY <1>1, <1>2, <1>3, <1>4, <1>5, PaywallAssumption
  DEF StripeNext, WebhookNext, StripeWebhookSelect, StripeWebhookCommit, StripeWebhookConflict,
      providers
<1>6. CASE RunNext \/ VerifyNext
  BY <1>1, <1>6 DEF RunNext, VerifyNext, VerifyStep, LaunchAsk, LaunchDecide, LaunchCommit,
     ExecStart, ExecFinish, VerifyRead, VerifyLook, VerifyConfirmed, VerifyPending, VerifyOwn,
     VerifyUnowned, VerifyCommit, VerifyUnlock, VerifyConflict, providers
<1>7. CASE CryptoNext \/ Tick \/ Restart \/ UNCHANGED vars
  BY <1>1, <1>7 DEF CryptoNext, CryptoInvoice, CryptoInvoiceCommit, CryptoPaid, CryptoIpn, Tick,
     Restart, vars, providers
<1> QED  BY <1>5, <1>6, <1>7 DEF Next

\* Every session a checkout opened still names an existing run of its user.
LEMMA SessionsStep ==
  ASSUME IInv, [Next]_vars, NEW s \in Sessions
  PROVE  SessionSound(s)'
<1>1. TypeOK /\ RunsGrow /\ ChargesGrow /\ SessionSound(s)
  BY StepGrows, ChargesStepGrow DEF IInv
<1>6. session'[s].state \in {"unpaid", "lapsed"} => "unpaid" \in CompletedAs
  BY <1>1, SessionStates DEF SessionSound
<1>2. CASE session[s].state # "none"
  <2>1. PICK r \in Runs : r = session[s].run /\ Exists(r) /\ run[r].user = session[s].user
    BY <1>1, <1>2 DEF SessionSound
  <2>2. Exists(r)' /\ run'[r].user = session[s].user
    BY <1>1, <2>1 DEF RunsGrow
  <2>3. session'[s].run = r /\ session'[s].user = session[s].user
    BY <1>1, <1>2, <2>1 DEF ChargesGrow
  <2> QED  BY <1>1, <1>6, <2>2, <2>3 DEF SessionSound
<1>3. CASE session[s].state = "none" /\ session'[s] = session[s]
  BY <1>3 DEF SessionSound
<1>4. ASSUME NEW x \in Sessions, NEW r \in Runs, StripeCheckout(r, x) \/ CheckoutRowLost(r, x)
      PROVE  SessionSound(s)'
  <2>1. /\ Exists(r) /\ session'[x] = [state |-> "open", user |-> run[r].user, run |-> r]
        /\ \A y \in Sessions : y # x => session'[y] = session[y]
    BY <1>1, <1>4 DEF StripeCheckout, CheckoutRowLost, TypeOK
  <2>2. Exists(r)' /\ run'[r].user = run[r].user
    BY <1>1, <2>1 DEF RunsGrow
  <2>3. CASE s = x
    BY <2>1, <2>2, <2>3 DEF SessionSound
  <2> QED  BY <1>2, <1>3, <2>1, <2>3
<1>5. ASSUME NEW x \in Sessions, CustomerCompletes(x) \/ DelayedPayment(x)
      PROVE  SessionSound(s)'
  <2>1. session[x].state # "none" /\ \A y \in Sessions : y # x => session'[y] = session[y]
    BY <1>1, <1>5 DEF CustomerCompletes, DelayedPayment, TypeOK
  <2> QED  BY <1>2, <1>3, <2>1
<1>10. CASE UNCHANGED session
  BY <1>2, <1>3, <1>10
<1>7. CASE StripeNext
  BY <1>4, <1>5, <1>10, <1>7 DEF StripeNext, WebhookNext, StripeWebhookSelect,
     StripeWebhookCommit, StripeWebhookConflict, providers
<1>8. CASE RunNext \/ VerifyNext
  BY <1>10, <1>8 DEF RunNext, VerifyNext, VerifyStep, LaunchAsk, LaunchDecide, LaunchCommit, ExecStart,
     ExecFinish, VerifyRead, VerifyLook, VerifyConfirmed,
       VerifyPending, VerifyOwn, VerifyUnowned, VerifyCommit, VerifyUnlock, VerifyConflict, providers
<1>9. CASE CryptoNext \/ Tick \/ Restart \/ UNCHANGED vars
  BY <1>10, <1>9 DEF CryptoNext, CryptoInvoice, CryptoInvoiceCommit, CryptoPaid, CryptoIpn, Tick,
     Restart, vars, providers
<1> QED  BY <1>7, <1>8, <1>9 DEF Next

\* So does every NOWPayments invoice.
LEMMA InvoicesStep ==
  ASSUME IInv, [Next]_vars, NEW i \in Invoices
  PROVE  InvoiceSound(i)'
<1>1. TypeOK /\ RunsGrow /\ ChargesGrow /\ InvoiceSound(i)
  BY StepGrows, ChargesStepGrow DEF IInv
<1>2. CASE invoice[i].state # "none"
  <2>1. PICK r \in Runs : r = invoice[i].run /\ Exists(r) /\ run[r].user = invoice[i].user
    BY <1>1, <1>2 DEF InvoiceSound
  <2>2. Exists(r)' /\ run'[r].user = invoice[i].user
    BY <1>1, <2>1 DEF RunsGrow
  <2>3. invoice'[i].run = r /\ invoice'[i].user = invoice[i].user /\ invoice'[i].state # "none"
    BY <1>1, <1>2, <2>1 DEF ChargesGrow
  <2> QED  BY <2>2, <2>3 DEF InvoiceSound
<1>3. CASE /\ invoice[i].state = "none" /\ invoice'[i].state = "none"
           /\ invoice'[i].answer = "none" \/ invoice'[i].answer = invoice[i].answer
  BY <1>1, <1>3 DEF InvoiceSound
<1>4. ASSUME NEW x \in Invoices, NEW r \in Runs, CryptoInvoice(r, x) PROVE InvoiceSound(i)'
  <2>1. /\ Exists(r)
        /\ invoice'[x] = [state |-> "waiting", answer |-> "due", user |-> run[r].user, run |-> r]
        /\ \A y \in Invoices : y # x => invoice'[y] = invoice[y]
    BY <1>1, <1>4 DEF CryptoInvoice, TypeOK
  <2>2. Exists(r)' /\ run'[r].user = run[r].user
    BY <1>1, <2>1 DEF RunsGrow
  <2>3. CASE i = x
    BY <2>1, <2>2, <2>3 DEF InvoiceSound
  <2> QED  BY <1>2, <1>3, <2>1, <2>3
<1>5. ASSUME NEW x \in Invoices, CryptoInvoiceCommit(x) \/ CryptoPaid(x) PROVE InvoiceSound(i)'
  <2>1. /\ invoice[x].answer # "none" \/ invoice[x].state # "none"
        /\ \A y \in Invoices : y # x => invoice'[y] = invoice[y]
    BY <1>1, <1>5 DEF CryptoInvoiceCommit, CryptoPaid, TypeOK
  <2>2. invoice[x].state # "none"
    BY <2>1 DEF IInv, InvoiceSound
  <2> QED  BY <1>2, <1>3, <2>1, <2>2
<1>6. CASE UNCHANGED invoice
  BY <1>2, <1>3, <1>6
<1>7. ASSUME Restart PROVE InvoiceSound(i)'
  <2>1. invoice[i] \in [state: {"none", "waiting", "finished"}, answer: {"none", "due", "given"},
                        user: Users \cup {None}, run: Runs \cup {None}]
    BY <1>1 DEF TypeOK
  <2>2. /\ invoice'[i].state = invoice[i].state
        /\ invoice'[i].answer = "none" \/ invoice'[i].answer = invoice[i].answer
    BY <1>7, <2>1 DEF Restart
  <2> QED  BY <1>2, <1>3, <2>2
<1>8. CASE CryptoNext
  BY <1>4, <1>5, <1>6, <1>8 DEF CryptoNext, CryptoIpn
<1>9. CASE RunNext \/ VerifyNext
  BY <1>6, <1>9 DEF RunNext, VerifyNext, VerifyStep, LaunchAsk, LaunchDecide, LaunchCommit, ExecStart,
     ExecFinish, VerifyRead, VerifyLook, VerifyConfirmed,
       VerifyPending, VerifyOwn, VerifyUnowned, VerifyCommit, VerifyUnlock, VerifyConflict, providers
<1>10. CASE StripeNext \/ Tick \/ UNCHANGED vars
  BY <1>6, <1>10 DEF StripeNext, WebhookNext, StripeCheckout, CheckoutRowLost, CustomerCompletes, DelayedPayment,
     StripeWebhookSelect, StripeWebhookCommit, StripeWebhookConflict, Tick, vars, providers
<1> QED  BY <1>7, <1>8, <1>9, <1>10 DEF Next

\* What a handler holds of a row stays true while others run.
LEMMA HeldRowStays ==
  ASSUME IInv, PaysGrow, NEW p \in PayIds \cup {NoPay}, NEW r, NEW ref, HeldRow(p, r, ref)
  PROVE  HeldRow(p, r, ref)'
<1>1. CASE p = NoPay
  BY <1>1 DEF HeldRow
<1>2. CASE p # NoPay
  <2>1. p \in PayIds /\ RowSound(p)
    BY <1>2 DEF IInv
  <2>2. /\ pay[p].provider = "stripe" /\ pay[p].run = r
        /\ pay[p].ref = ref \/ pay[p].state = "confirmed"
    BY <1>2 DEF HeldRow
  <2>3. pay[p].state # "absent"
    BY <2>1, <2>2 DEF RowSound, NoPayRow
  <2> QED  BY <2>1, <2>2, <2>3 DEF HeldRow, PaysGrow
<1> QED  BY <1>1, <1>2

\* Whatever a webhook handler holds stays true until it commits.
LEMMA HooksStep ==
  ASSUME IInv, [Next]_vars, NEW s \in Sessions
  PROVE  HookSound(s)'
<1>1. TypeOK /\ PaysGrow /\ ChargesGrow /\ HookSound(s)
  BY StepGrows, ChargesStepGrow DEF IInv
<1>2. CASE hook'[s] = hook[s] /\ hook[s].pc = "selected"
  <2>0. s \notin stripeEvents'
    <3>1. ASSUME NEW x \in Sessions, StripeWebhookCommit(x) PROVE x # s
      BY <1>1, <1>2, <3>1 DEF StripeWebhookCommit, TypeOK, IdleHook
    <3>2. s \notin stripeEvents
      BY <1>1, <1>2 DEF HookSound
    <3> QED  BY <3>1, <3>2, EventsStepGrow DEF StripeWebhookCommit
  <2>1. PICK p \in PayIds \cup {NoPay}, ref \in Refs \cup {None}, r \in Runs \cup {None} :
          p = hook[s].pay /\ ref = hook[s].ref /\ r = session[s].run
    BY <1>1 DEF TypeOK
  <2>2. session[s].state \in Completed /\ HeldRow(p, r, ref)
    BY <1>1, <1>2, <2>1 DEF HookSound
  <2>3. HeldRow(p, r, ref)' /\ session'[s].state \in Completed /\ session'[s].run = session[s].run
    BY <1>1, <2>2, HeldRowStays DEF ChargesGrow, Completed
  <2> QED  BY <1>2, <2>0, <2>1, <2>2, <2>3 DEF HookSound
<1>3. CASE hook'[s].pc # "selected"
  BY <1>3 DEF HookSound
<1>4. CASE hook'[s] = hook[s]
  BY <1>2, <1>3, <1>4
<1>5. ASSUME NEW x \in Sessions, StripeWebhookSelect(x) PROVE HookSound(s)'
  <2> DEFINE rows == StripeRows(session[s].user, session[s].run, {"pending", "confirmed"})
  <2>1. /\ session[x].state \in Completed /\ UNCHANGED <<pay, session>> /\ x \notin stripeEvents'
        /\ hook'[x] = SelectedFor(x) /\ \A y \in Sessions : y # x => hook'[y] = hook[y]
    BY <1>1, <1>5 DEF StripeWebhookSelect, TypeOK, tables, providers
  <2>2. CASE s # x
    BY <1>4, <2>1, <2>2
  <2>3. CASE s = x /\ rows = {}
    BY <2>1, <2>3 DEF SelectedFor, HookSound, HeldRow
  <2>4. CASE s = x /\ rows # {}
    <3>1. rows \in SUBSET PayIds
      BY DEF StripeRows
    <3>2. Latest(rows) \in rows
      <4> HIDE DEF rows
      <4> QED  BY <2>4, <3>1, LatestIsOneOf
    <3>3. pay[Latest(rows)].provider = "stripe" /\ pay[Latest(rows)].run = session[s].run
      BY <3>2 DEF StripeRows
    <3>4. hook'[s].pay = Latest(rows) /\ hook'[s].ref = pay[Latest(rows)].ref
      BY <2>1, <2>4 DEF SelectedFor
    <3> HIDE DEF rows
    <3> QED  BY <2>1, <2>4, <3>3, <3>4 DEF HookSound, HeldRow
  <2> QED  BY <2>2, <2>3, <2>4
<1>6. ASSUME NEW x \in Sessions, StripeWebhookCommit(x) \/ StripeWebhookConflict(x)
      PROVE  HookSound(s)'
  <2>1. hook' = [hook EXCEPT ![x] = IdleHook] /\ hook \in [Sessions ->
            [pc: {"idle", "selected"}, pay: PayIds \cup {NoPay}, ref: Refs \cup {None}]]
    BY <1>1, <1>6 DEF StripeWebhookCommit, StripeWebhookConflict, TypeOK
  <2>2. CASE s = x
    BY <1>3, <2>1, <2>2 DEF IdleHook
  <2>3. CASE s # x
    BY <1>4, <2>1, <2>3
  <2> QED  BY <2>2, <2>3
<1>7. CASE Restart
  BY <1>3, <1>7 DEF Restart, IdleHook
<1>8. CASE StripeNext
  BY <1>4, <1>5, <1>6, <1>8 DEF StripeNext, WebhookNext, StripeCheckout, CheckoutRowLost,
     CustomerCompletes, DelayedPayment, requests
<1>9. CASE RunNext \/ VerifyNext
  BY <1>4, <1>9 DEF RunNext, VerifyNext, VerifyStep, LaunchAsk, LaunchDecide, LaunchCommit, ExecStart,
     ExecFinish, VerifyRead, VerifyLook, VerifyConfirmed,
       VerifyPending, VerifyOwn, VerifyUnowned, VerifyCommit, VerifyUnlock, VerifyConflict, requests
<1>10. CASE CryptoNext \/ Tick \/ UNCHANGED vars
  BY <1>4, <1>10 DEF CryptoNext, CryptoInvoice, CryptoInvoiceCommit, CryptoPaid, CryptoIpn, Tick,
     vars, requests
<1> QED  BY <1>7, <1>8, <1>9, <1>10 DEF Next

\* What a verify call holds after a look at the tables and at Stripe: a paid
\* session of its run, and once it has chosen, a row of that run.
HeldBy(w, r) ==
    /\ w.run = r
    /\ w.pc \in {"listed", "unowned"} => w.session # None /\ PaidFor(w.session, r)
    /\ w.pc = "chosen" =>
         /\ HeldRow(w.pay, r, w.ref) /\ PaidFor(w.session, r)
         /\ w.session = None => w.pay # NoPay /\ pay[w.pay].state = "confirmed"

LEMMA ChoiceSound ==
  ASSUME IInv, NEW v \in Verifiers, VerifyLook(v)
  PROVE  verify'[v].pc = "idle" \/ HeldBy(verify'[v], verify[v].run)
<1> DEFINE r == verify[v].run
           u == run[r].user
<1>1. TypeOK
  BY DEF IInv
<1>2. ASSUME NEW p \in PayIds \cup {NoPay}, NEW s \in Sessions \cup {None}, Choose(v, p, s)
      PROVE  /\ verify'[v].pc = "chosen" /\ verify'[v].run = r /\ verify'[v].pay = p
             /\ verify'[v].session = s
             /\ verify'[v].ref = IF p = NoPay THEN None ELSE pay[p].ref
  BY <1>1, <1>2 DEF TypeOK, Choose
<1>3. ASSUME NEW p \in PayIds, NEW s \in Sessions, Choose(v, p, s), PaidFor(s, r),
             pay[p].provider = "stripe", pay[p].run = r
      PROVE  HeldBy(verify'[v], r)
  <2>1. p # NoPay /\ s # None
    BY PaywallAssumption DEF PayIds, NoPay
  <2> QED  BY <1>2, <1>3, <2>1 DEF HeldBy, HeldRow
<1>4. ASSUME VerifyConfirmed(v) PROVE HeldBy(verify'[v], r)
  <2>1. CASE \E p \in StripeRows(u, r, {"confirmed"}) : Choose(v, p, None)
    <3>1. PICK p \in PayIds : /\ pay[p].provider = "stripe" /\ pay[p].run = r
                              /\ pay[p].state = "confirmed" /\ Choose(v, p, None)
      BY <2>1 DEF StripeRows
    <3>2. p # NoPay
      BY PaywallAssumption DEF PayIds, NoPay
    <3>3. /\ verify'[v].pc = "chosen" /\ verify'[v].run = r /\ verify'[v].pay = p
          /\ verify'[v].session = None /\ verify'[v].ref = pay[p].ref
      BY <1>2, <3>1, <3>2
    <3> QED  BY <3>1, <3>2, <3>3 DEF HeldBy, HeldRow, PaidFor
  <2>2. CASE verify' = [verify EXCEPT ![v].pc = "unconfirmed"]
    BY <1>1, <2>2 DEF TypeOK, HeldBy
  <2> QED  BY <1>4, <2>1, <2>2 DEF VerifyConfirmed
<1>5. ASSUME VerifyPending(v) PROVE verify'[v].pc = "idle" \/ HeldBy(verify'[v], r)
  <2> DEFINE rows == PaidPending(u, r)
  <2>1. CASE rows # {} /\ Choose(v, Latest(rows), pay[Latest(rows)].ref)
    <3>1. rows \in SUBSET PayIds
      BY DEF PaidPending, StripeRows
    <3>2. PICK p : p = Latest(rows) /\ Choose(v, p, pay[p].ref)
      BY <2>1
    <3>3. p \in rows
      <4> HIDE DEF rows
      <4> QED  BY <2>1, <3>1, <3>2, LatestIsOneOf
    <3>4. /\ p \in PayIds /\ pay[p].provider = "stripe" /\ pay[p].run = r
          /\ pay[p].state = "pending" /\ pay[p].ref \in Sessions
          /\ session[pay[p].ref].state = "paid"
      BY <3>3 DEF PaidPending, StripeRows
    <3>5. PaidFor(pay[p].ref, r)
      BY <3>4 DEF IInv, RowSound, PaidFor
    <3> QED  BY <1>3, <3>2, <3>4, <3>5
  <2>2. ASSUME NEW s \in Listed(u, r),
               verify' = [verify EXCEPT ![v].pc = "listed", ![v].session = s]
        PROVE  HeldBy(verify'[v], r)
    <3>1. s \in Sessions /\ session[s].state = "paid" /\ session[s].run = r /\ s # None
      BY <2>2, PaywallAssumption DEF Listed
    <3>2. verify'[v].pc = "listed" /\ verify'[v].session = s /\ verify'[v].run = r
      BY <1>1, <2>2 DEF TypeOK
    <3> QED  BY <3>1, <3>2 DEF HeldBy, PaidFor
  <2>3. CASE verify' = [verify EXCEPT ![v] = IdleVerify]
    BY <1>1, <2>3 DEF TypeOK, IdleVerify
  <2> QED  BY <1>5, <2>1, <2>2, <2>3 DEF VerifyPending
<1>6. ASSUME verify[v].pc \in {"listed", "unowned"}
      PROVE  verify[v].session \in Sessions /\ PaidFor(verify[v].session, r)
  BY <1>1, <1>6 DEF IInv, VerifySound, TypeOK
<1>7. ASSUME VerifyOwn(v) PROVE HeldBy(verify'[v], r)
  <2> DEFINE own == {p \in PayIds : pay[p].provider = "stripe" /\ pay[p].ref = verify[v].session}
  <2>1. CASE own # {} /\ Choose(v, Latest(own), verify[v].session)
    <3>1. PICK p : p = Latest(own) /\ Choose(v, p, verify[v].session)
      BY <2>1
    <3>2. p \in own
      <4>1. own \in SUBSET PayIds
        OBVIOUS
      <4> HIDE DEF own
      <4> QED  BY <2>1, <3>1, <4>1, LatestIsOneOf
    <3>3. p \in PayIds /\ RowSound(p) /\ pay[p].provider = "stripe"
          /\ pay[p].ref = verify[v].session /\ verify[v].pc = "listed"
      BY <1>7, <3>2 DEF IInv, VerifyOwn
    <3>4. pay[p].run = r
      BY <1>6, <3>3, PaywallAssumption DEF RowSound, NoPayRow, PaidFor
    <3> QED  BY <1>3, <1>6, <3>1, <3>3, <3>4
  <2>2. CASE verify' = [verify EXCEPT ![v].pc = "unowned"]
    <3>1. verify'[v].pc = "unowned" /\ verify'[v].session = verify[v].session
          /\ verify'[v].run = r
      BY <1>1, <2>2 DEF TypeOK
    <3>2. verify[v].session # None /\ PaidFor(verify[v].session, r)
      BY <1>6, <1>7, PaywallAssumption DEF VerifyOwn
    <3> QED  BY <3>1, <3>2 DEF HeldBy
  <2> QED  BY <1>7, <2>1, <2>2 DEF VerifyOwn
<1>8. ASSUME VerifyUnowned(v) PROVE HeldBy(verify'[v], r)
  <2> DEFINE rows == StripeRows(u, r, {"pending"})
  <2>1. PICK p, s : /\ p = IF rows = {} THEN NoPay ELSE Latest(rows)
                    /\ s = verify[v].session /\ Choose(v, p, s)
    BY <1>8 DEF VerifyUnowned
  <2>2. s \in Sessions /\ PaidFor(s, r)
    BY <1>6, <1>8, <2>1 DEF VerifyUnowned
  <2>3. CASE rows = {}
    <3>1. /\ verify'[v].pc = "chosen" /\ verify'[v].run = r /\ verify'[v].pay = NoPay
          /\ verify'[v].session = s
      BY <1>2, <2>1, <2>2, <2>3
    <3> QED  BY <2>2, <3>1, PaywallAssumption DEF HeldBy, HeldRow
  <2>4. CASE rows # {}
    <3>1. p \in rows
      <4>1. rows \in SUBSET PayIds
        BY DEF StripeRows
      <4> HIDE DEF rows
      <4> QED  BY <2>1, <2>4, <4>1, LatestIsOneOf
    <3>2. p \in PayIds /\ pay[p].provider = "stripe" /\ pay[p].run = r
      BY <3>1 DEF StripeRows
    <3> QED  BY <1>3, <2>1, <2>2, <3>2
  <2> QED  BY <2>3, <2>4
<1> QED  BY <1>4, <1>5, <1>7, <1>8 DEF VerifyLook

\* Whatever a verify call holds stays true until it commits.
LEMMA VerifiesStep ==
  ASSUME IInv, [Next]_vars, NEW v \in Verifiers
  PROVE  VerifySound(v)'
<1>1. TypeOK /\ RunsGrow /\ PaysGrow /\ ChargesGrow /\ VerifySound(v)
  BY StepGrows, ChargesStepGrow DEF IInv
<1>2. CASE verify'[v] = verify[v] /\ verify[v].pc # "idle"
  <2>1. PICK r \in Runs : r = verify[v].run /\ Exists(r)
    BY <1>1, <1>2 DEF VerifySound
  <2>2. Exists(r)'
    BY <1>1, <2>1 DEF RunsGrow
  <2>3. PICK p, ref, s : /\ p = verify[v].pay /\ ref = verify[v].ref
                         /\ s = verify[v].session /\ p \in PayIds \cup {NoPay}
                         /\ s \in Sessions \cup {None}
    BY <1>1 DEF TypeOK
  <2>5. PaidFor(s, r) => PaidFor(s, r)'
    BY <1>1, <2>3 DEF ChargesGrow, PaidFor
  <2>4. verify[v].pc \in {"listed", "unowned"} => s # None /\ PaidFor(s, r)
    BY <1>1, <2>1, <2>3 DEF VerifySound
  <2>6. CASE verify[v].pc # "chosen"
    BY <1>2, <2>1, <2>2, <2>3, <2>4, <2>5, <2>6 DEF VerifySound, PaidFor
  <2>7. CASE verify[v].pc = "chosen"
    <3>1. /\ HeldRow(p, r, ref) /\ PaidFor(s, r)
          /\ s = None => p # NoPay /\ pay[p].state = "confirmed"
      BY <1>1, <2>1, <2>3, <2>7 DEF VerifySound
    <3>2. HeldRow(p, r, ref)'
      BY <1>1, <2>3, <3>1, HeldRowStays
    <3>3. s = None => pay'[p].state = "confirmed"
      BY <1>1, <2>3, <3>1 DEF PaysGrow
    <3>4. verify'[v].pay = p /\ verify'[v].ref = ref /\ verify'[v].session = s
      BY <1>2, <2>3
    <3> QED  BY <1>2, <2>1, <2>2, <2>5, <2>7, <3>1, <3>2, <3>3, <3>4 DEF VerifySound, HeldRow, PaidFor
  <2> QED  BY <2>6, <2>7
<1>3. CASE verify'[v].pc = "idle"
  BY <1>3 DEF VerifySound
<1>4. CASE verify'[v] = verify[v]
  BY <1>2, <1>3, <1>4
<1>5. ASSUME NEW x \in Verifiers, NEW r \in Runs, VerifyRead(x, r) PROVE VerifySound(v)'
  <2>1. /\ Exists(r) /\ run' = run /\ verify'[x].pc = "sawLocked" /\ verify'[x].run = r
        /\ \A y \in Verifiers : y # x => verify'[y] = verify[y]
    BY <1>1, <1>5 DEF VerifyRead, TypeOK, tables, IdleVerify
  <2>2. CASE v = x
    BY <2>1, <2>2 DEF VerifySound, Exists
  <2> QED  BY <1>4, <2>1, <2>2
<1>6. ASSUME NEW x \in Verifiers, VerifyLook(x) PROVE VerifySound(v)'
  <2>1. UNCHANGED <<run, pay, session>> /\ verify[x].pc # "idle"
    BY <1>6 DEF VerifyLook, VerifyConfirmed, VerifyPending, VerifyOwn, VerifyUnowned, tables,
       providers
  <2>2. CASE v = x
    <3>1. verify[v].run \in Runs /\ Exists(verify[v].run)
      BY <1>1, <2>1, <2>2 DEF VerifySound
    <3> QED  BY <1>3, <1>6, <2>1, <2>2, <3>1, ChoiceSound
               DEF VerifySound, HeldBy, HeldRow, PaidFor, Exists
  <2>3. CASE v # x
    <3>1. verify'[v] = verify[v]
      BY <1>1, <1>6, <2>3 DEF VerifyLook, VerifyConfirmed, VerifyPending, VerifyOwn,
         VerifyUnowned, Choose, TypeOK
    <3> QED  BY <1>4, <3>1
  <2> QED  BY <2>2, <2>3
<1>7. ASSUME NEW x \in Verifiers, VerifyCommit(x) \/ VerifyUnlock(x) \/ VerifyConflict(x)
      PROVE  VerifySound(v)'
  <2>1. verify' = [verify EXCEPT ![x] = IdleVerify] /\ v \in DOMAIN verify
    BY <1>1, <1>7 DEF VerifyCommit, VerifyUnlock, VerifyConflict, TypeOK
  <2>2. CASE v = x
    BY <1>3, <2>1, <2>2 DEF IdleVerify
  <2>3. CASE v # x
    BY <1>4, <2>1, <2>3
  <2> QED  BY <2>2, <2>3
<1>8. CASE Restart
  BY <1>3, <1>8 DEF Restart, IdleVerify
<1>9. CASE VerifyNext
  BY <1>5, <1>6, <1>7, <1>9 DEF VerifyNext, VerifyStep
<1>10. CASE RunNext \/ StripeNext
  BY <1>4, <1>10 DEF RunNext, StripeNext, WebhookNext, LaunchAsk, LaunchDecide, LaunchCommit, ExecStart,
     ExecFinish, StripeCheckout, CheckoutRowLost, CustomerCompletes, DelayedPayment, StripeWebhookSelect,
     StripeWebhookCommit, StripeWebhookConflict, requests
<1>11. CASE CryptoNext \/ Tick \/ UNCHANGED vars
  BY <1>4, <1>11 DEF CryptoNext, CryptoInvoice, CryptoInvoiceCommit, CryptoPaid, CryptoIpn, Tick,
     vars, requests
<1> QED  BY <1>8, <1>9, <1>10, <1>11 DEF Next

\* A recorded event belongs to a completed session, and has opened its run: the
\* commit that records it does.
LEMMA RecordedStep ==
  ASSUME IInv, [Next]_vars
  PROVE  /\ \A s \in stripeEvents' : session'[s].state \in Completed
         /\ RecordedEventOpensRun'
<1> DEFINE Opened(s) == session'[s].state \in Completed
                        /\ \E r \in Runs : session'[s].run = r /\ Exists(r)' /\ ~run'[r].locked
<1>1. TypeOK /\ RunsGrow /\ ChargesGrow /\ RecordedEventOpensRun
  BY StepGrows, ChargesStepGrow DEF IInv
<1>2. ASSUME NEW s \in stripeEvents PROVE Opened(s)
  <2>1. s \in Sessions /\ session[s].state \in Completed /\ session[s].run \in Runs
    BY DEF IInv, TypeOK, SessionSound, Completed
  <2>2. PICK r \in Runs : r = session[s].run
    BY <2>1
  <2>3. Exists(r) /\ ~run[r].locked
    BY <1>1, <2>2 DEF RecordedEventOpensRun
  <2> QED  BY <1>1, <2>1, <2>2, <2>3 DEF ChargesGrow, RunsGrow, Completed
<1>3. ASSUME NEW s \in Sessions, StripeWebhookCommit(s) PROVE Opened(s)
  <2>1. UNCHANGED <<session, invoice>>
    BY <1>3 DEF StripeWebhookCommit, providers
  <2>2. session[s].state \in Completed
    BY <1>3 DEF IInv, HookSound, StripeWebhookCommit
  <2>3. session[s].run \in Runs /\ Exists(session[s].run)
    BY <1>3, WebhookConfirms DEF StripeConfirmation
  <2>4. PICK r \in Runs : r = session[s].run /\ Exists(r)
    BY <2>3
  <2>5. ~run'[r].locked /\ RunsGrow
    BY <1>3, <2>1, <2>4, WebhookConfirms, StripeConfirmationEffect
  <2> QED  BY <2>1, <2>2, <2>4, <2>5 DEF RunsGrow
<1>4. \A s \in stripeEvents' : Opened(s)
  <2> HIDE DEF Opened
  <2>1. CASE stripeEvents' = stripeEvents
    BY <1>2, <2>1
  <2>2. ASSUME NEW x \in Sessions, StripeWebhookCommit(x)
        PROVE  \A s \in stripeEvents' : Opened(s)
    BY <1>2, <1>3, <2>2 DEF StripeWebhookCommit
  <2> QED  BY <2>1, <2>2, EventsStepGrow
<1> QED  BY <1>4 DEF RecordedEventOpensRun

\* The trial flag changes with the commit that completes a free run, and only so.
LEMMA TrialStep ==
  ASSUME IInv, [Next]_vars
  PROVE  TrialFlagExact'
<1> DEFINE Used(u) == \E r \in Runs : run[r].user = u /\ run[r].free /\ run[r].state = "completed"
           SameRuns == \A r \in Runs :
               /\ (run'[r].state = "completed") = (run[r].state = "completed")
               /\ run[r].state = "completed" => run'[r].user = run[r].user
                                                /\ run'[r].free = run[r].free
<1>1. TypeOK /\ TrialFlagExact /\ run \in [Runs -> RunRow]
  BY DEF IInv, TypeOK
<1>2. CASE SameRuns /\ UNCHANGED freeTrialUsed
  BY <1>1, <1>2 DEF TrialFlagExact
<1>3. ASSUME NEW r \in Runs, NEW outcome \in {"completed", "failed"}, ExecFinish(r, outcome)
      PROVE  TrialFlagExact'
  <2>1. run[r].state = "running" /\ run[r].user \in Users
    BY <1>3 DEF IInv, RunSound, ExecFinish
  <2>2. /\ run'[r].state = outcome /\ run'[r].user = run[r].user /\ run'[r].free = run[r].free
        /\ \A q \in Runs : q # r => run'[q] = run[q]
    BY <1>1, <1>3 DEF ExecFinish, WriteBack, RunRow
  <2>3. CASE run[r].free /\ outcome = "completed"
    <3>1. freeTrialUsed' = [freeTrialUsed EXCEPT ![run[r].user] = TRUE]
      BY <1>3, <2>3 DEF ExecFinish
    <3>2. ASSUME NEW u \in Users, u = run[r].user PROVE freeTrialUsed'[u] /\ Used(u)'
      BY <1>1, <2>2, <2>3, <3>1, <3>2 DEF TypeOK
    <3>3. ASSUME NEW u \in Users, u # run[r].user
          PROVE  freeTrialUsed'[u] = freeTrialUsed[u] /\ (Used(u)' <=> Used(u))
      <4>1. freeTrialUsed'[u] = freeTrialUsed[u]
        BY <1>1, <3>1, <3>3 DEF TypeOK
      <4>2. \A q \in Runs : run[q].user = u => run'[q] = run[q]
        BY <2>2, <3>3
      <4>3. \A q \in Runs : run'[q].user = u => run'[q] = run[q]
        BY <2>2, <3>3
      <4> QED  BY <4>1, <4>2, <4>3
    <3> QED  BY <1>1, <3>2, <3>3 DEF TrialFlagExact
  <2>4. CASE ~(run[r].free /\ outcome = "completed")
    <3>1. UNCHANGED freeTrialUsed
      BY <1>3, <2>4 DEF ExecFinish
    <3>2. \A u \in Users : Used(u)' <=> Used(u)
      BY <2>1, <2>2, <2>4
    <3> QED  BY <1>1, <3>1, <3>2 DEF TrialFlagExact
  <2> QED  BY <2>3, <2>4
<1>4. ASSUME NEW r \in Runs, NEW u \in Users, LaunchAsk(u, r) PROVE TrialFlagExact'
  <2>1. /\ run[r].state = "absent" /\ run'[r].state = "deciding" /\ UNCHANGED freeTrialUsed
        /\ \A q \in Runs : q # r => run'[q] = run[q]
    BY <1>1, <1>4 DEF LaunchAsk, NoRun
  <2> QED  BY <1>2, <2>1
<1>18. ASSUME NEW r \in Runs, LaunchDecide(r) PROVE TrialFlagExact'
  <2>1. /\ run'[r].state = run[r].state /\ run'[r].user = run[r].user
        /\ run'[r].free = run[r].free /\ UNCHANGED freeTrialUsed
        /\ \A q \in Runs : q # r => run'[q] = run[q]
    BY <1>1, <1>18 DEF LaunchDecide, RunRow
  <2> QED  BY <1>2, <2>1
<1>5. ASSUME NEW r \in Runs, LaunchCommit(r) PROVE TrialFlagExact'
  <2>1. /\ run[r].state = "deciding" /\ run'[r].state = "queued" /\ UNCHANGED freeTrialUsed
        /\ \A q \in Runs : q # r => run'[q] = run[q]
    BY <1>1, <1>5 DEF LaunchCommit, RunRow
  <2> QED  BY <1>2, <2>1
<1>6. ASSUME NEW r \in Runs, ExecStart(r) PROVE TrialFlagExact'
  <2>1. run[r].state = "queued"
    BY <1>6 DEF IInv, RunSound, ExecStart
  <2>2. /\ run'[r].state = "running" /\ UNCHANGED freeTrialUsed
        /\ \A q \in Runs : q # r => run'[q] = run[q]
    BY <1>1, <1>6 DEF ExecStart, RunRow
  <2> QED  BY <1>2, <2>1, <2>2
<1>7. CASE UNCHANGED <<run, freeTrialUsed>>
  BY <1>2, <1>7
<1>8. ASSUME NEW s \in Sessions, StripeWebhookCommit(s) PROVE TrialFlagExact'
  <2>1. UNCHANGED <<session, invoice, freeTrialUsed>>
    BY <1>8 DEF StripeWebhookCommit, providers
  <2>2. SameRuns
    BY <1>8, <2>1, WebhookConfirms, StripeConfirmationEffect
  <2> QED  BY <1>2, <2>1, <2>2
<1>9. ASSUME NEW v \in Verifiers, VerifyCommit(v) PROVE TrialFlagExact'
  <2>1. UNCHANGED <<session, invoice, freeTrialUsed>>
    BY <1>9 DEF VerifyCommit, providers
  <2>2. SameRuns
    BY <1>9, <2>1, VerifyConfirms, StripeConfirmationEffect
  <2> QED  BY <1>2, <2>1, <2>2
<1>10. ASSUME NEW v \in Verifiers, VerifyUnlock(v) PROVE TrialFlagExact'
  <2>1. verify[v].run \in Runs /\ UNCHANGED freeTrialUsed
        /\ UnlockRun(verify[v].pay, verify[v].run)
    BY <1>10 DEF VerifyUnlock, IInv, VerifySound
  <2>2. SameRuns
    BY <1>1, <2>1, UnlockRunEffect
  <2> QED  BY <1>2, <2>1, <2>2
<1>11. ASSUME NEW i \in Invoices, NEW status \in {"waiting", "finished"}, CryptoIpn(i, status)
       PROVE  TrialFlagExact'
  <2>1. UNCHANGED freeTrialUsed
    BY <1>11 DEF CryptoIpn
  <2>2. SameRuns
    BY <1>11, IpnEffect
  <2> QED  BY <1>2, <2>1, <2>2
<1>12. ASSUME Restart PROVE TrialFlagExact'
  BY <1>1, <1>2, <1>12 DEF Restart, NoRun
<1>13. CASE RunNext
  BY <1>3, <1>4, <1>5, <1>6, <1>13, <1>18 DEF RunNext
<1>14. CASE StripeNext
  BY <1>7, <1>8, <1>14 DEF StripeNext, WebhookNext, StripeCheckout, CheckoutRowLost, CustomerCompletes, DelayedPayment,
     StripeWebhookSelect, StripeWebhookConflict, tables
<1>15. CASE VerifyNext
  BY <1>7, <1>9, <1>10, <1>15 DEF VerifyNext, VerifyStep, VerifyRead, VerifyLook, VerifyConfirmed, VerifyPending, VerifyOwn, VerifyUnowned,
     VerifyConflict, tables
<1>16. CASE CryptoNext
  BY <1>7, <1>11, <1>16 DEF CryptoNext, CryptoInvoice, CryptoInvoiceCommit, CryptoPaid, tables
<1>17. CASE Tick \/ UNCHANGED vars
  BY <1>7, <1>17 DEF Tick, vars, tables
<1> QED  BY <1>12, <1>13, <1>14, <1>15, <1>16, <1>17 DEF Next

-----------------------------------------------------------------------------
(* The theorems.                                                           *)

LEMMA InitInvariant == Init => IInv
<1> SUFFICES ASSUME Init PROVE IInv
  OBVIOUS
<1>1. TypeOK
  BY TypeInit
<1>2. \A p \in PayIds : RowSound(p)
  BY DEF Init, RowSound, NoPayRow
<1>3. \A r \in Runs : RunSound(r)
  BY DEF Init, RunSound, NoRun, Exists, Created
<1>4. \A s \in Sessions : SessionSound(s) /\ HookSound(s)
  BY DEF Init, SessionSound, HookSound, IdleHook, NoSession
<1>5. \A i \in Invoices : InvoiceSound(i)
  BY DEF Init, InvoiceSound, NoInvoice
<1>6. \A v \in Verifiers : VerifySound(v)
  BY DEF Init, VerifySound, IdleVerify
<1>7. (\A s \in stripeEvents : session[s].state \in Completed) /\ RecordedEventOpensRun
  BY DEF Init, RecordedEventOpensRun
<1>8. TrialFlagExact
  BY DEF Init, TrialFlagExact, NoRun
<1> QED  BY <1>1, <1>2, <1>3, <1>4, <1>5, <1>6, <1>7, <1>8 DEF IInv

LEMMA InvariantStep ==
  ASSUME IInv, [Next]_vars
  PROVE  IInv'
<1>1. TypeOK'
  BY TypeStep DEF IInv
<1>2. \A p \in PayIds : RowSound(p)'
  BY RowsStep
<1>3. \A r \in Runs : RunSound(r)'
  BY RunsStep
<1>4. \A s \in Sessions : SessionSound(s)' /\ HookSound(s)'
  BY SessionsStep, HooksStep
<1>5. \A i \in Invoices : InvoiceSound(i)'
  BY InvoicesStep
<1>6. \A v \in Verifiers : VerifySound(v)'
  BY VerifiesStep
<1>7. (\A s \in stripeEvents' : session'[s].state \in Completed) /\ RecordedEventOpensRun'
  BY RecordedStep
<1>8. TrialFlagExact'
  BY TrialStep
<1> QED  BY <1>1, <1>2, <1>3, <1>4, <1>5, <1>6, <1>7, <1>8 DEF IInv

\* The inductive invariant holds in every reachable state.
THEOREM Invariance == Spec => []IInv
<1>1. Init => IInv
  BY InitInvariant
<1>2. IInv /\ [Next]_vars => IInv'
  BY InvariantStep
<1> QED  BY <1>1, <1>2, PTL DEF Spec

\* The tables and the values the handlers hold have their types, for every
\* number of users, runs, sessions, invoices and concurrent calls.
THEOREM TypeCorrect == Spec => []TypeOK
<1>1. IInv => TypeOK
  BY DEF IInv
<1> QED  BY <1>1, Invariance, PTL

LEMMA OpenHasPayment ==
  ASSUME IInv, NEW r \in Runs, Exists(r), ~run[r].locked, ~run[r].free
  PROVE  \E p \in PayIds : /\ p = run[r].payment /\ p # NoPay /\ pay[p].state = "confirmed"
                           /\ pay[p].user = run[r].user /\ Backed(p)
<1>1. PICK p \in PayIds : p = run[r].payment /\ p # NoPay
  BY DEF IInv, RunSound, TypeOK, RunRow
<1>2. pay[p].state = "confirmed" /\ pay[p].user = run[r].user
  BY <1>1 DEF IInv, RunSound
<1>3. Backed(p)
  BY <1>2 DEF IInv, RowSound
<1> QED  BY <1>1, <1>2, <1>3

\* Nobody reads the output of a run that was neither a free trial nor checked out
\* for: whatever the interleaving of checkouts, webhooks, verify calls, launches
\* and crashes, an open run is free or hangs on a confirmed payment of its user
\* whose checkout a provider has completed, be the money there or not.
THEOREM OpenRunsAreCheckedOut == Spec => []OpenRunHasItsCheckout
<1>1. IInv => OpenRunHasItsCheckout
  BY OpenHasPayment DEF OpenRunHasItsCheckout, OpenBy, Backed
<1> QED  BY <1>1, Invariance, PTL

\* ... and where Stripe offers only methods that pay at once, the provider has
\* the money.
THEOREM OpenRunsArePaid ==
  ASSUME CompletedAs \subseteq {"paid"}
  PROVE  Spec => []OpenRunIsPaid
<1>1. ASSUME IInv, NEW p \in PayIds, Backed(p) PROVE BackedBy(p, {"paid"})
  BY <1>1 DEF Backed, BackedBy, Completed, IInv, SessionSound
<1>2. IInv => OpenRunIsPaid
  BY <1>1, OpenHasPayment DEF OpenRunIsPaid, OpenBy
<1> QED  BY <1>2, Invariance, PTL

\* Confirming a payment and opening its run are never seen apart.
THEOREM ConfirmationOpens == Spec => []ConfirmedOpensItsRun
<1>1. IInv => ConfirmedOpensItsRun
  BY DEF IInv, RowSound, ConfirmedOpensItsRun
<1> QED  BY <1>1, Invariance, PTL

\* The Stripe idempotency log never swallows a payment.
THEOREM RecordedEventsOpen == Spec => []RecordedEventOpensRun
<1>1. IInv => RecordedEventOpensRun
  BY DEF IInv
<1> QED  BY <1>1, Invariance, PTL

\* free_trial_used is set exactly when a free run of the user has completed.
THEOREM TrialFlag == Spec => []TrialFlagExact
<1>1. IInv => TrialFlagExact
  BY DEF IInv
<1> QED  BY <1>1, Invariance, PTL

\* No step closes an open run: not the executor with the lock flag it captured
\* minutes ago, not a webhook or verify call with a row it read before others
\* wrote, not a crash.
THEOREM OpenStaysOpen == Spec => NeverRelocked
<1>1. ASSUME IInv, [Next]_vars
      PROVE  [\A r \in Runs : Exists(r) /\ ~run[r].locked => Exists(r)' /\ ~run'[r].locked]_vars
  BY <1>1, StepGrows DEF RunsGrow
<1> QED  BY <1>1, Invariance, PTL DEF Spec, NeverRelocked

LEMMA UnlockKeepsMode ==
  ASSUME TypeOK, NEW p, NEW r, UnlockRun(p, r)
  PROVE  \A q \in Runs : run'[q].mode = run[q].mode /\ run'[q].free = run[q].free
BY DEF TypeOK, UnlockRun, RunRow

\* Only the load of the user, at the start of a request, sets it on the course
\* of a free run.
LEMMA OnlyLoadingBindsFree ==
  ASSUME IInv, [Next]_vars, NEW r \in Runs, BoundFree(r)', ~BoundFree(r)
  PROVE  \E u \in Users : LaunchAsk(u, r) /\ FreeAsLoaded(u)
<1>1. TypeOK /\ run \in [Runs -> RunRow]
  BY DEF IInv, TypeOK
<1>2. ASSUME run'[r].mode = run[r].mode, run'[r].free = run[r].free PROVE FALSE
  BY <1>2 DEF BoundFree
<1>3. ASSUME NEW q \in Runs, NEW u \in Users, LaunchAsk(u, q)
      PROVE  \E x \in Users : LaunchAsk(x, r) /\ FreeAsLoaded(x)
  <2>1. CASE q = r
    BY <1>1, <1>3, <2>1 DEF LaunchAsk, NoRun, BoundFree
  <2>2. CASE q # r
    BY <1>1, <1>2, <1>3, <2>2 DEF LaunchAsk
  <2> QED  BY <2>1, <2>2
<1>4. ASSUME NEW q \in Runs, LaunchDecide(q) PROVE FALSE
  BY <1>1, <1>4 DEF LaunchDecide, BoundFree, RunRow
<1>5. ASSUME NEW q \in Runs, LaunchCommit(q) PROVE FALSE
  <2> DEFINE p == IF run[q].mode = "paid" /\ ActivePays(run[q].user) # {}
                  THEN GetActivePayment(run[q].user) ELSE NoPay
  <2>1. run' = [run EXCEPT ![q] = [@ EXCEPT !.state = "queued", !.mode = "none",
                       !.locked = (run[q].mode # "free" /\ p = NoPay),
                       !.free = (run[q].mode = "free"), !.payment = p]]
    BY <1>5 DEF LaunchCommit
  <2> HIDE DEF p
  <2>2. /\ run'[q].mode = "none" /\ run'[q].free = (run[q].mode = "free")
        /\ \A x \in Runs : x # q => run'[x] = run[x]
    BY <1>1, <2>1 DEF RunRow
  <2> QED  BY <1>2, <2>2 DEF BoundFree
<1>6. ASSUME NEW q \in Runs, ExecStart(q) PROVE FALSE
  BY <1>1, <1>2, <1>6 DEF ExecStart, RunRow
<1>7. ASSUME NEW q \in Runs, NEW outcome \in {"completed", "failed"}, ExecFinish(q, outcome)
      PROVE  FALSE
  BY <1>1, <1>2, <1>7 DEF ExecFinish, RunRow
<1>8. CASE RunNext
  BY <1>3, <1>4, <1>5, <1>6, <1>7, <1>8 DEF RunNext
<1>9. ASSUME NEW p, NEW q, UnlockRun(p, q) PROVE FALSE
  BY <1>1, <1>2, <1>9, UnlockKeepsMode
<1>10. ASSUME UNCHANGED run PROVE FALSE
  BY <1>2, <1>10
<1>11. CASE StripeNext
  BY <1>9, <1>10, <1>11
  DEF StripeNext, WebhookNext, StripeCheckout, CheckoutRowLost, CustomerCompletes,
      DelayedPayment, StripeWebhookSelect, StripeWebhookCommit, StripeWebhookConflict, tables
<1>12. CASE VerifyNext
  BY <1>9, <1>10, <1>12
  DEF VerifyNext, VerifyStep, VerifyRead, VerifyLook, VerifyConfirmed, VerifyPending, VerifyOwn,
      VerifyUnowned, VerifyCommit, VerifyUnlock, VerifyConflict, tables
<1>13. CASE CryptoNext
  BY <1>9, <1>10, <1>13
  DEF CryptoNext, CryptoInvoice, CryptoInvoiceCommit, CryptoPaid, CryptoIpn, tables
<1>14. CASE Restart
  <2>1. run'[r] = IF run[r].state = "deciding" THEN NoRun ELSE run[r]
    BY <1>14 DEF Restart
  <2> QED  BY <1>2, <2>1 DEF NoRun, BoundFree
<1>15. CASE Tick \/ UNCHANGED vars
  BY <1>10, <1>15 DEF Tick, vars, tables
<1> QED  BY <1>8, <1>11, <1>12, <1>13, <1>14, <1>15 DEF Next

\* A request that begins once a free run of its user has completed never comes to
\* a free run; one that had loaded the user before still may.
THEOREM TrialIsOver == Spec => TrialNotReopened
<1> DEFINE Over == \A r \in Runs :
       PaymentsEnabled /\ BoundFree(r)' /\ ~BoundFree(r) => ~TrialOver(run'[r].user)
<1>1. ASSUME IInv, [Next]_vars PROVE Over
  <2> SUFFICES ASSUME NEW r \in Runs, PaymentsEnabled, BoundFree(r)', ~BoundFree(r)
               PROVE  ~TrialOver(run'[r].user)
    OBVIOUS
  <2>1. PICK u \in Users : LaunchAsk(u, r) /\ FreeAsLoaded(u)
    BY <1>1, OnlyLoadingBindsFree
  <2>2. run \in [Runs -> RunRow] /\ TrialFlagExact
    BY <1>1 DEF IInv, TypeOK
  <2>3. run'[r].user = u
    BY <2>1, <2>2 DEF LaunchAsk, NoRun
  <2>4. ~freeTrialUsed[u]
    BY <2>1 DEF FreeAsLoaded
  <2> QED  BY <2>2, <2>3, <2>4 DEF TrialFlagExact, TrialOver
<1>2. ASSUME IInv, [Next]_vars PROVE [Over]_vars
  BY <1>1, <1>2
<1> QED  BY <1>2, Invariance, PTL DEF Spec, TrialNotReopened

\* A settled payment keeps its 24-hour window: it starts over only for a
\* completed session of the run that is not recorded yet, or for a verify call that had
\* chosen this payment before.
THEOREM WindowsStand == Spec => WindowRestartsOnlyInFlight
<1> DEFINE InFlight(p) ==
             \/ \E s \in Sessions \ stripeEvents :
                   session[s].state \in Completed /\ session[s].run = pay[p].run
             \/ \E v \in Verifiers : verify[v].pc = "chosen" /\ verify[v].pay = p
           Stands == \A p \in PayIds :
             pay[p].state = "confirmed" /\ pay'[p].confirmedAt # pay[p].confirmedAt => InFlight(p)
<1>1. ASSUME IInv, [Next]_vars PROVE Stands
  <2> SUFFICES ASSUME NEW p \in PayIds, pay[p].state = "confirmed", pay'[p] # pay[p]
               PROVE  InFlight(p)
    OBVIOUS
  <2>1. TypeOK
    BY <1>1 DEF IInv
  <2>2. ASSUME NEW s \in Sessions, StripeWebhookCommit(s) PROVE InFlight(p)
    <3>1. UNCHANGED <<session, invoice>>
      BY <2>2 DEF StripeWebhookCommit, providers
    <3>2. p = HookPay(s)
      BY <1>1, <2>2, <3>1, WebhookConfirms, StripeConfirmationEffect
    <3>3. pay[p].run = session[s].run
      BY <1>1, <2>2, <3>2, WebhookConfirms DEF StripeConfirmation
    <3>4. session[s].state \in Completed /\ s \notin stripeEvents
      BY <1>1, <2>2 DEF IInv, HookSound, StripeWebhookCommit
    <3> QED  BY <3>3, <3>4
  <2>3. ASSUME NEW v \in Verifiers, VerifyCommit(v) PROVE InFlight(p)
    <3>1. UNCHANGED <<session, invoice>>
      BY <2>3 DEF VerifyCommit, providers
    <3>2. p = VerifyPay(v)
      BY <1>1, <2>3, <3>1, VerifyConfirms, StripeConfirmationEffect
    <3>3. verify[v].pay # NoPay
      BY <2>3, <3>2, NextPayIsFree DEF VerifyCommit, VerifyPay
    <3> QED  BY <2>3, <3>2, <3>3 DEF VerifyCommit, VerifyPay
  <2>4. ASSUME NEW i \in Invoices, NEW status \in {"waiting", "finished"}, CryptoIpn(i, status)
        PROVE  FALSE
    <3>1. i \notin cryptoEvents /\ pay[p].provider = "crypto" /\ pay[p].ref = i
      BY <1>1, <2>4, IpnEffect
    <3> QED  BY <1>1, <3>1, PaywallAssumption DEF IInv, RowSound
  <2>5. ASSUME NEW s \in Sessions, NEW r \in Runs, StripeCheckout(r, s) PROVE FALSE
    BY <2>1, <2>5, InsertGrows DEF StripeCheckout
  <2>6. ASSUME NEW i \in Invoices, CryptoInvoiceCommit(i) PROVE FALSE
    BY <2>1, <2>6, InsertGrows DEF CryptoInvoiceCommit
  <2>7. CASE StripeNext
    BY <2>2, <2>5, <2>7 DEF StripeNext, WebhookNext, CheckoutRowLost, CustomerCompletes, DelayedPayment,
       StripeWebhookSelect, StripeWebhookConflict, tables
  <2>8. CASE VerifyNext
    BY <2>3, <2>8 DEF VerifyNext, VerifyStep, VerifyRead, VerifyLook, VerifyConfirmed, VerifyPending, VerifyOwn, VerifyUnowned, VerifyUnlock,
       VerifyConflict, tables
  <2>9. CASE CryptoNext
    BY <2>4, <2>6, <2>9 DEF CryptoNext, CryptoInvoice, CryptoPaid, tables
  <2>10. CASE RunNext \/ Tick \/ Restart \/ UNCHANGED vars
    BY <2>10 DEF RunNext, LaunchAsk, LaunchDecide, LaunchCommit, ExecStart, ExecFinish, Tick, Restart,
       vars, tables
  <2> QED  BY <1>1, <2>7, <2>8, <2>9, <2>10 DEF Next
<1>2. ASSUME IInv, [Next]_vars PROVE [Stands]_vars
  BY <1>1, <1>2
<1> QED  BY <1>2, Invariance, PTL DEF Spec, WindowRestartsOnlyInFlight

--------------------------------------------------------------------------------
(* What may be read. *)

\* A run that hangs on a payment is open.
LinkedIsOpen == \A r \in Runs : run[r].payment # NoPay => ~run[r].locked

LEMMA UnlockKeepsLinks ==
  ASSUME TypeOK, LinkedIsOpen, NEW p, NEW r, UnlockRun(p, r)
  PROVE  LinkedIsOpen'
<1>1. run \in [Runs -> RunRow]
  BY DEF TypeOK
<1>2. ASSUME NEW q \in Runs PROVE run'[q] = run[q] \/ ~run'[q].locked
  BY <1>1 DEF UnlockRun, RunRow
<1> QED  BY <1>2 DEF LinkedIsOpen

LEMMA LinksStep ==
  ASSUME IInv, LinkedIsOpen, [Next]_vars
  PROVE  LinkedIsOpen'
<1>1. TypeOK /\ run \in [Runs -> RunRow]
  BY DEF IInv, TypeOK
<1>2. CASE UNCHANGED run
  BY <1>2 DEF LinkedIsOpen
<1>3. ASSUME NEW u \in Users, NEW r \in Runs, LaunchAsk(u, r) PROVE LinkedIsOpen'
  <2>1. run'[r].payment = NoPay /\ \A q \in Runs : q # r => run'[q] = run[q]
    BY <1>1, <1>3 DEF LaunchAsk, NoRun
  <2> QED  BY <2>1 DEF LinkedIsOpen
<1>13. ASSUME NEW r \in Runs, LaunchDecide(r) PROVE LinkedIsOpen'
  <2>1. /\ run'[r].payment = run[r].payment /\ run'[r].locked = run[r].locked
        /\ \A q \in Runs : q # r => run'[q] = run[q]
    BY <1>1, <1>13 DEF LaunchDecide, RunRow
  <2> QED  BY <2>1 DEF LinkedIsOpen
<1>4. ASSUME NEW r \in Runs, LaunchCommit(r) PROVE LinkedIsOpen'
  <2> DEFINE p == IF run[r].mode = "paid" /\ ActivePays(run[r].user) # {}
                  THEN GetActivePayment(run[r].user) ELSE NoPay
  <2>1. /\ run' = [run EXCEPT ![r] = [@ EXCEPT !.state = "queued", !.mode = "none",
                       !.locked = (run[r].mode # "free" /\ p = NoPay),
                       !.free = (run[r].mode = "free"), !.payment = p]]
    BY <1>4 DEF LaunchCommit
  <2> HIDE DEF p
  <2>2. /\ run'[r].payment = p /\ run'[r].locked = (run[r].mode # "free" /\ p = NoPay)
        /\ \A q \in Runs : q # r => run'[q] = run[q]
    BY <1>1, <2>1 DEF RunRow
  <2> QED  BY <2>2 DEF LinkedIsOpen
<1>5. ASSUME NEW r \in Runs, ExecStart(r) PROVE LinkedIsOpen'
  <2>1. /\ run'[r].payment = run[r].payment /\ run'[r].locked = run[r].locked
        /\ \A q \in Runs : q # r => run'[q] = run[q]
    BY <1>1, <1>5 DEF ExecStart, RunRow
  <2> QED  BY <2>1 DEF LinkedIsOpen
<1>6. ASSUME NEW r \in Runs, NEW outcome \in {"completed", "failed"}, ExecFinish(r, outcome)
      PROVE  LinkedIsOpen'
  <2>1. /\ run'[r].payment = run[r].payment /\ run'[r].locked = run[r].locked
        /\ \A q \in Runs : q # r => run'[q] = run[q]
    BY <1>1, <1>6 DEF ExecFinish, WriteBack, RunRow
  <2> QED  BY <2>1 DEF LinkedIsOpen
<1>7. CASE RunNext
  BY <1>3, <1>4, <1>5, <1>6, <1>7, <1>13 DEF RunNext
<1>8. CASE StripeNext
  BY <1>1, <1>2, <1>8, UnlockKeepsLinks
  DEF StripeNext, WebhookNext, StripeCheckout, CheckoutRowLost, CustomerCompletes, DelayedPayment,
      StripeWebhookSelect, StripeWebhookCommit, StripeWebhookConflict, tables
<1>9. CASE VerifyNext
  BY <1>1, <1>2, <1>9, UnlockKeepsLinks
  DEF VerifyNext, VerifyStep, VerifyRead, VerifyLook, VerifyConfirmed,
       VerifyPending, VerifyOwn, VerifyUnowned, VerifyCommit, VerifyUnlock,
      VerifyConflict, tables
<1>10. CASE CryptoNext
  BY <1>1, <1>2, <1>10, UnlockKeepsLinks
  DEF CryptoNext, CryptoInvoice, CryptoInvoiceCommit, CryptoPaid, CryptoIpn, tables
<1>11. CASE Restart
  <2>1. \A r \in Runs : run'[r] = IF run[r].state = "deciding" THEN NoRun ELSE run[r]
    BY <1>11 DEF Restart
  <2>2. NoRun.payment = NoPay
    BY DEF NoRun
  <2> QED  BY <2>1, <2>2 DEF LinkedIsOpen
<1>12. CASE Tick \/ UNCHANGED vars
  BY <1>2, <1>12 DEF Tick, vars, tables
<1> QED  BY <1>7, <1>8, <1>9, <1>10, <1>11, <1>12 DEF Next

\* The three grants of can_view_output, can_export and the rule of POST /exports
\* agree with the lock flag the API reports, in every reachable state.
THEOREM ViewFollowsTheLock == Spec => []ViewAndExportFollowTheLock
<1>1. Init => LinkedIsOpen
  BY DEF Init, LinkedIsOpen, NoRun
<1>2. IInv /\ LinkedIsOpen /\ [Next]_vars => LinkedIsOpen'
  BY LinksStep
<1>3. ASSUME IInv, LinkedIsOpen, NEW r \in Runs, NEW u \in Users, Exists(r)
      PROVE  LET open == u = run[r].user /\ (~PaymentsEnabled \/ ~run[r].locked)
             IN  /\ CanViewOutput(u, r) <=> open
                 /\ CanExport(u, r) <=> open
                 /\ CreateExport(u, r, "txt") <=> open
                 /\ CreateExport(u, r, "docx") <=> open /\ ~run[r].free
  <2>1. run[r].payment # NoPay => ~run[r].locked
    BY <1>3 DEF LinkedIsOpen
  <2>2. ASSUME NEW p \in PayIds, pay[p].run = r, pay[p].state = "confirmed"
        PROVE  ~run[r].locked
    BY <1>3, <2>2 DEF IInv, RowSound
  <2>3. ~run[r].locked => run[r].free \/ run[r].payment # NoPay
    BY <1>3 DEF IInv, RunSound
  <2>4. CanViewOutput(u, r) <=> u = run[r].user /\ (~PaymentsEnabled \/ ~run[r].locked)
    BY <2>1, <2>2 DEF CanViewOutput
  <2> QED  BY <2>3, <2>4 DEF CanExport, CreateExport
<1>4. IInv /\ LinkedIsOpen => ViewAndExportFollowTheLock
  BY <1>3 DEF ViewAndExportFollowTheLock
<1> QED  BY <1>1, <1>2, <1>4, Invariance, PTL DEF Spec

-----------------------------------------------------------------------------
(* The paywall implements PaywallContract: each step of a handler is one    *)
(* step of the contract or none.                                            *)

\* A step that changes no launched run and no checkout is none of the contract's.
LEMMA ContractStutters ==
  ASSUME \A r \in Runs : /\ Exists(r)' = Exists(r)
                         /\ Exists(r) => /\ run'[r].user = run[r].user /\ run'[r].free = run[r].free
                                         /\ run'[r].locked = run[r].locked,
         CheckedOut' = CheckedOut
  PROVE  UNCHANGED Contract!promise
<1> DEFINE launched == {q \in Runs : Exists(q)}
<1>1. launched' = launched
  OBVIOUS
<1>2. [r \in launched |-> run[r].user]' = [r \in launched |-> run[r].user]
  BY <1>1
<1>3. {r \in Runs : Exists(r) /\ ~run[r].locked}' = {r \in Runs : Exists(r) /\ ~run[r].locked}
  OBVIOUS
<1>4. {r \in Runs : Exists(r) /\ run[r].free}' = {r \in Runs : Exists(r) /\ run[r].free}
  OBVIOUS
<1> QED  BY <1>2, <1>3, <1>4 DEF Contract!promise

\* A step that changes the lock of one checked-out run at most opens it.
LEMMA ContractOpens ==
  ASSUME NEW r \in CheckedOut, r \in Runs, Exists(r),
         \A q \in Runs : run'[q].state = run[q].state /\ run'[q].user = run[q].user
                         /\ run'[q].free = run[q].free,
         \A q \in Runs : q # r => run'[q] = run[q],
         ~run'[r].locked, CheckedOut' = CheckedOut
  PROVE  Contract!Open(r)
<1> DEFINE launched == {q \in Runs : Exists(q)}
<1>1. \A q \in Runs : Exists(q)' = Exists(q)
  BY DEF Exists
<1>2. [q \in launched |-> run[q].user]' = [q \in launched |-> run[q].user]
  <2>1. launched' = launched
    BY <1>1
  <2> QED  BY <2>1
<1>3. {q \in Runs : Exists(q) /\ ~run[q].locked}'
        = {q \in Runs : Exists(q) /\ ~run[q].locked} \cup {r}
  BY <1>1
<1>4. {q \in Runs : Exists(q) /\ run[q].free}' = {q \in Runs : Exists(q) /\ run[q].free}
  BY <1>1
<1> QED  BY <1>2, <1>3, <1>4 DEF Contract!Open

\* Only the customer's two ways through a checkout add to the checked-out runs.
LEMMA CheckedOutSame ==
  ASSUME \A s \in Sessions : \/ session'[s].state = session[s].state
                                /\ session'[s].run = session[s].run
                             \/ session[s].state \notin Completed /\ session'[s].state \notin Completed
                             \/ /\ session[s].state \in Completed /\ session'[s].state \in Completed
                                /\ session'[s].run = session[s].run,
         \A i \in Invoices : \/ invoice'[i].state = invoice[i].state
                                /\ invoice'[i].run = invoice[i].run
                             \/ invoice[i].state # "finished" /\ invoice'[i].state # "finished"
  PROVE  CheckedOut' = CheckedOut
BY DEF CheckedOut

LEMMA CustomerChecksOut ==
  ASSUME IInv,
         \/ \E s \in Sessions : CustomerCompletes(s)
         \/ \E i \in Invoices : CryptoPaid(i)
  PROVE  \E r \in Runs : Contract!CheckOut(r)
<1>1. TypeOK /\ UNCHANGED run
  BY DEF IInv, CustomerCompletes, CryptoPaid, tables
<1>2. ASSUME NEW r \in Runs, Exists(r), CheckedOut' = CheckedOut \cup {r} PROVE Contract!CheckOut(r)
  <2> DEFINE launched == {q \in Runs : Exists(q)}
  <2>1. \A q \in Runs : Exists(q)' = Exists(q)
    BY <1>1 DEF Exists
  <2>2. [q \in launched |-> run[q].user]' = [q \in launched |-> run[q].user]
    BY <1>1, <2>1
  <2>3. {q \in Runs : Exists(q) /\ ~run[q].locked}' = {q \in Runs : Exists(q) /\ ~run[q].locked}
        /\ {q \in Runs : Exists(q) /\ run[q].free}' = {q \in Runs : Exists(q) /\ run[q].free}
    BY <1>1, <2>1
  <2>4. r \in DOMAIN [q \in launched |-> run[q].user]
    BY <1>2
  <2> QED  BY <1>2, <2>2, <2>3, <2>4 DEF Contract!CheckOut, Contract!Launched
<1>3. ASSUME NEW s \in Sessions, CustomerCompletes(s) PROVE \E r \in Runs : Contract!CheckOut(r)
  <2>1. PICK r \in Runs : r = session[s].run /\ Exists(r)
    BY <1>3 DEF IInv, SessionSound, CustomerCompletes
  <2>2. /\ session'[s].state \in Completed /\ session'[s].run = r /\ session[s].state = "open"
        /\ \A x \in Sessions : x # s => session'[x] = session[x]
        /\ UNCHANGED invoice
    BY <1>1, <1>3, <2>1, PaywallAssumption DEF CustomerCompletes, TypeOK, Completed
  <2>3. CheckedOut' = CheckedOut \cup {r}
    BY <2>2 DEF CheckedOut, Completed
  <2> QED  BY <1>2, <2>1, <2>3
<1>4. ASSUME NEW i \in Invoices, CryptoPaid(i) PROVE \E r \in Runs : Contract!CheckOut(r)
  <2>1. PICK r \in Runs : r = invoice[i].run /\ Exists(r)
    BY <1>4 DEF IInv, InvoiceSound, CryptoPaid
  <2>2. /\ invoice'[i].state = "finished" /\ invoice'[i].run = r
        /\ invoice[i].state = "waiting"
        /\ \A x \in Invoices : x # i => invoice'[x] = invoice[x]
        /\ UNCHANGED session
    BY <1>1, <1>4, <2>1 DEF CryptoPaid, TypeOK
  <2>3. CheckedOut' = CheckedOut \cup {r}
    BY <2>2 DEF CheckedOut
  <2> QED  BY <1>2, <2>1, <2>3
<1> QED  BY <1>3, <1>4

LEMMA ConfirmationIsContractual ==
  ASSUME IInv, UNCHANGED <<session, invoice>>,
         NEW p, NEW row, NEW r, NEW ref, StripeConfirmation(p, row, r, ref)
  PROVE  \E x \in Runs : Contract!Open(x)
<1>1. r \in Runs /\ Exists(r) /\ r \in CheckedOut /\ CheckedOut' = CheckedOut
  BY CheckedOutSame DEF StripeConfirmation, CheckedOut
<1> QED  BY <1>1, StripeConfirmationEffect, ContractOpens

\* A launch is the contract's: an open one is free, or follows a checkout.
LEMMA LaunchIsContractual ==
  ASSUME IInv, NEW r \in Runs, LaunchCommit(r)
  PROVE  \E u \in Users, free, open \in BOOLEAN : Contract!Launch(r, u, free, open)
<1> DEFINE p == IF run[r].mode = "paid" /\ ActivePays(run[r].user) # {}
                THEN GetActivePayment(run[r].user) ELSE NoPay
           launched == {q \in Runs : Exists(q)}
<1>1. TypeOK /\ run \in [Runs -> RunRow] /\ run[r].state = "deciding"
  BY DEF IInv, TypeOK, LaunchCommit
<1>2. PICK u \in Users : u = run[r].user
  BY <1>1 DEF IInv, RunSound
<1>3. PICK free, open \in BOOLEAN :
        free = (run[r].mode = "free") /\ open = ~(run[r].mode # "free" /\ p = NoPay)
  OBVIOUS
<1>4. /\ run'[r].state = "queued" /\ run'[r].user = u /\ run'[r].free = free
      /\ run'[r].locked = ~open /\ \A q \in Runs : q # r => run'[q] = run[q]
  <2> HIDE DEF p
  <2>1. run' = [run EXCEPT ![r] = [@ EXCEPT !.state = "queued", !.mode = "none",
                                     !.locked = (run[r].mode # "free" /\ p = NoPay),
                                     !.free = (run[r].mode = "free"), !.payment = p]]
    BY DEF LaunchCommit, p
  <2> QED  BY <1>1, <1>2, <1>3, <2>1 DEF RunRow
<1>5. ~Exists(r) /\ Exists(r)' /\ \A q \in Runs : q # r => Exists(q)' = Exists(q)
  BY <1>1, <1>4 DEF Exists, Created
<1>6. CheckedOut' = CheckedOut
  BY CheckedOutSame DEF LaunchCommit, providers
<1>7. ASSUME open PROVE free \/ \E q \in CheckedOut : q \in launched /\ run[q].user = u
  <2>1. CASE free
    BY <2>1
  <2>2. CASE ~free
    <3>1. p \in ActivePays(u)
      BY <1>1, <1>2, <1>3, <1>7, <2>2, GetActivePaymentIsActive
    <3> HIDE DEF p
    <3>2. p \in PayIds /\ pay[p].user = u /\ pay[p].state = "confirmed"
      BY <3>1 DEF ActivePays, ActivePayment
    <3>3. PICK q \in Runs : q = pay[p].run /\ Exists(q) /\ run[q].user = u /\ Backed(p)
      BY <3>2 DEF IInv, RowSound
    <3>4. q \in CheckedOut
      BY <3>3 DEF Backed, BackedBy, CheckedOut
    <3> QED  BY <3>3, <3>4
  <2> QED  BY <2>1, <2>2
<1>8. [q \in launched |-> run[q].user]'
        = [q \in launched \cup {r} |-> IF q = r THEN u ELSE [x \in launched |-> run[x].user][q]]
  <2>1. launched' = launched \cup {r}
    BY <1>5
  <2> QED  BY <1>4, <1>5, <2>1
<1>9. {q \in Runs : Exists(q) /\ run[q].free}'
        = IF free THEN {q \in Runs : Exists(q) /\ run[q].free} \cup {r}
                  ELSE {q \in Runs : Exists(q) /\ run[q].free}
  BY <1>4, <1>5
<1>10. {q \in Runs : Exists(q) /\ ~run[q].locked}'
        = IF open THEN {q \in Runs : Exists(q) /\ ~run[q].locked} \cup {r}
                  ELSE {q \in Runs : Exists(q) /\ ~run[q].locked}
  BY <1>4, <1>5
<1>11. /\ DOMAIN [q \in launched |-> run[q].user] = launched /\ r \notin launched
       /\ \A q \in launched : [x \in launched |-> run[x].user][q] = run[q].user
  BY <1>5
<1>12. Contract!Launch(r, u, free, open)
  <2>1. ASSUME open PROVE free \/ \E q \in CheckedOut : [x \in launched |-> run[x].user][q] = u
    BY <1>7, <1>11, <2>1
  <2> QED  BY <1>6, <1>8, <1>9, <1>10, <1>11, <2>1 DEF Contract!Launch, Contract!Launched
<1> QED  BY <1>12

\* Every step of the paywall is a step of its contract or leaves it alone.
LEMMA StepImplements ==
  ASSUME IInv, [Next]_vars
  PROVE  [Contract!Next]_(Contract!promise)
<1> DEFINE Done == [Contract!Next]_(Contract!promise)
<1>1. TypeOK /\ run \in [Runs -> RunRow]
  BY DEF IInv, TypeOK
<1>2. ASSUME \A r \in Runs : /\ Exists(r)' = Exists(r)
                             /\ Exists(r) => /\ run'[r].user = run[r].user
                                             /\ run'[r].free = run[r].free
                                             /\ run'[r].locked = run[r].locked,
             UNCHANGED <<session, invoice>>
      PROVE  Done
  <2>1. CheckedOut' = CheckedOut
    BY <1>2, CheckedOutSame
  <2> QED  BY <1>2, <2>1, ContractStutters
<1>3. ASSUME UNCHANGED <<run, session, invoice>> PROVE Done
  BY <1>2, <1>3 DEF Exists
<1>4. ASSUME UNCHANGED run, CheckedOut' = CheckedOut PROVE Done
  BY <1>4, ContractStutters DEF Exists
<1>5. ASSUME \E r \in Runs : Contract!Open(r) PROVE Done
  BY <1>5 DEF Contract!Next
<1>6. CASE RunNext
  <2>1. ASSUME NEW r \in Runs, NEW u \in Users, LaunchAsk(u, r) PROVE Done
    <3>1. /\ run[r].state = "absent" /\ run'[r].state = "deciding"
          /\ \A q \in Runs : q # r => run'[q] = run[q]
          /\ UNCHANGED <<session, invoice>>
      BY <1>1, <2>1 DEF LaunchAsk, NoRun, providers
    <3> QED  BY <1>2, <3>1 DEF Exists, Created
  <2>5. ASSUME NEW r \in Runs, LaunchDecide(r) PROVE Done
    <3>1. /\ run'[r].state = run[r].state /\ run'[r].user = run[r].user
          /\ run'[r].free = run[r].free /\ run'[r].locked = run[r].locked
          /\ \A q \in Runs : q # r => run'[q] = run[q]
          /\ UNCHANGED <<session, invoice>>
      BY <1>1, <2>5 DEF LaunchDecide, RunRow, providers
    <3> QED  BY <1>2, <3>1 DEF Exists
  <2>2. ASSUME NEW r \in Runs, LaunchCommit(r) PROVE Done
    BY <2>2, LaunchIsContractual DEF Contract!Next
  <2>3. ASSUME NEW r \in Runs, ExecStart(r) PROVE Done
    <3>1. /\ run[r].state = "queued" /\ run'[r].state = "running"
          /\ run'[r].user = run[r].user /\ run'[r].free = run[r].free
          /\ run'[r].locked = run[r].locked
          /\ \A q \in Runs : q # r => run'[q] = run[q]
          /\ UNCHANGED <<session, invoice>>
      BY <1>1, <2>3 DEF ExecStart, IInv, RunSound, RunRow, providers
    <3> QED  BY <1>2, <3>1 DEF Exists, Created
  <2>4. ASSUME NEW r \in Runs, NEW outcome \in {"completed", "failed"}, ExecFinish(r, outcome)
        PROVE  Done
    <3>1. /\ run[r].state = "running" /\ run'[r].state = outcome
          /\ run'[r].user = run[r].user /\ run'[r].free = run[r].free
          /\ run'[r].locked = run[r].locked
          /\ \A q \in Runs : q # r => run'[q] = run[q]
          /\ UNCHANGED <<session, invoice>>
      BY <1>1, <2>4 DEF ExecFinish, WriteBack, IInv, RunSound, RunRow, providers
    <3> QED  BY <1>2, <3>1 DEF Exists, Created
  <2> QED  BY <1>6, <2>1, <2>2, <2>3, <2>4, <2>5 DEF RunNext
<1>7. CASE StripeNext
  <2>1. ASSUME NEW s \in Sessions, NEW r \in Runs, StripeCheckout(r, s) \/ CheckoutRowLost(r, s)
        PROVE  Done
    <3>1. /\ session[s].state = "none" /\ session'[s].state = "open" /\ UNCHANGED <<run, invoice>>
          /\ \A x \in Sessions : x # s => session'[x] = session[x]
      BY <1>1, <2>1 DEF StripeCheckout, CheckoutRowLost, TypeOK, tables
    <3> QED  BY <1>4, <3>1, CheckedOutSame DEF Completed
  <2>2. ASSUME NEW s \in Sessions, CustomerCompletes(s) PROVE Done
    BY <2>2, CustomerChecksOut DEF Contract!Next
  <2>5. ASSUME NEW s \in Sessions, DelayedPayment(s) PROVE Done
    <3>1. /\ session[s].state \in Completed /\ session'[s].state \in Completed
          /\ session'[s].run = session[s].run /\ UNCHANGED <<run, invoice>>
          /\ \A x \in Sessions : x # s => session'[x] = session[x]
      BY <1>1, <2>5 DEF DelayedPayment, TypeOK, tables, Completed
    <3> QED  BY <1>4, <3>1, CheckedOutSame
  <2>3. ASSUME NEW s \in Sessions, StripeWebhookCommit(s) PROVE Done
    <3>1. UNCHANGED <<session, invoice>>
      BY <2>3 DEF StripeWebhookCommit, providers
    <3> QED  BY <1>5, <2>3, <3>1, WebhookConfirms, ConfirmationIsContractual
  <2>4. ASSUME NEW s \in Sessions, StripeWebhookSelect(s) \/ StripeWebhookConflict(s) PROVE Done
    BY <1>3, <2>4 DEF StripeWebhookSelect, StripeWebhookConflict, tables, providers
  <2> QED  BY <1>7, <2>1, <2>2, <2>3, <2>4, <2>5 DEF StripeNext, WebhookNext
<1>8. CASE VerifyNext
  <2>1. ASSUME NEW v \in Verifiers, VerifyCommit(v) PROVE Done
    <3>1. UNCHANGED <<session, invoice>>
      BY <2>1 DEF VerifyCommit, providers
    <3> QED  BY <1>5, <2>1, <3>1, VerifyConfirms, ConfirmationIsContractual
  <2>2. ASSUME NEW v \in Verifiers, VerifyUnlock(v) PROVE Done
    <3>1. PICK p, r : p = verify[v].pay /\ r = verify[v].run
      OBVIOUS
    <3>2. /\ r \in Runs /\ Exists(r) /\ HeldRow(p, r, verify[v].ref)
          /\ p # NoPay /\ pay[p].state = "confirmed" /\ UnlockRun(p, r)
          /\ UNCHANGED <<session, invoice>>
      BY <2>2, <3>1 DEF VerifyUnlock, IInv, VerifySound, providers
    <3>3. p \in PayIds
      BY <1>1, <3>1, <3>2 DEF TypeOK
    <3>4. pay[p].run = r /\ Backed(p)
      BY <3>2, <3>3 DEF HeldRow, IInv, RowSound
    <3>5. r \in CheckedOut /\ CheckedOut' = CheckedOut
      BY <3>2, <3>4, CheckedOutSame DEF Backed, BackedBy, CheckedOut
    <3>6. Contract!Open(r)
      BY <1>1, <3>2, <3>5, UnlockRunEffect, ContractOpens
    <3> QED  BY <1>5, <3>2, <3>6
  <2>3. ASSUME NEW v \in Verifiers,
               (\E r \in Runs : VerifyRead(v, r)) \/ VerifyLook(v) \/ VerifyConflict(v)
        PROVE  Done
    BY <1>3, <2>3 DEF VerifyRead, VerifyLook, VerifyConfirmed, VerifyPending, VerifyOwn,
       VerifyUnowned, VerifyConflict, tables, providers
  <2> QED  BY <1>8, <2>1, <2>2, <2>3 DEF VerifyNext, VerifyStep
<1>9. CASE CryptoNext
  <2>1. ASSUME NEW i \in Invoices, NEW r \in Runs, CryptoInvoice(r, i) PROVE Done
    <3>1. /\ invoice[i].state = "none" /\ invoice'[i].state = "waiting"
          /\ UNCHANGED <<run, session>> /\ \A x \in Invoices : x # i => invoice'[x] = invoice[x]
      BY <1>1, <2>1 DEF CryptoInvoice, TypeOK, tables
    <3> QED  BY <1>4, <3>1, CheckedOutSame
  <2>2. ASSUME NEW i \in Invoices, CryptoInvoiceCommit(i) PROVE Done
    <3>1. /\ invoice'[i].state = invoice[i].state /\ invoice'[i].run = invoice[i].run
          /\ UNCHANGED <<run, session>> /\ \A x \in Invoices : x # i => invoice'[x] = invoice[x]
      BY <1>1, <2>2 DEF CryptoInvoiceCommit, TypeOK
    <3> QED  BY <1>4, <3>1, CheckedOutSame
  <2>3. ASSUME NEW i \in Invoices, CryptoPaid(i) PROVE Done
    BY <2>3, CustomerChecksOut DEF Contract!Next
  <2>4. ASSUME NEW i \in Invoices, NEW status \in {"waiting", "finished"}, CryptoIpn(i, status)
        PROVE  Done
    <3>1. UNCHANGED <<session, invoice>>
      BY <2>4 DEF CryptoIpn
    <3>2. CASE UNCHANGED run
      BY <1>3, <3>1, <3>2
    <3>3. CASE ~UNCHANGED run
      <4>1. PICK r \in Runs : run'[r] # run[r]
        BY <1>1, <2>4, <3>3, TypeStep DEF IInv, TypeOK
      <4>2. /\ invoice[i].state = "finished" /\ r = invoice[i].run
            /\ \A q \in Runs : run'[q].state = run[q].state /\ run'[q].user = run[q].user
                               /\ run'[q].free = run[q].free
            /\ \A q \in Runs : q # r => run'[q] = run[q]
            /\ ~run'[r].locked
        BY <2>4, <3>3, <4>1, IpnEffect
      <4>3. Exists(r) /\ r \in CheckedOut /\ CheckedOut' = CheckedOut
        BY <3>1, <4>2, CheckedOutSame DEF IInv, InvoiceSound, CheckedOut
      <4> QED  BY <1>5, <4>2, <4>3, ContractOpens
    <3> QED  BY <3>2, <3>3
  <2> QED  BY <1>9, <2>1, <2>2, <2>3, <2>4 DEF CryptoNext
<1>10. CASE Restart
  <2>1. \A r \in Runs : /\ Exists(r)' = Exists(r)
                        /\ Exists(r) => run'[r] = run[r]
    BY <1>10 DEF Restart, Exists, Created, NoRun
  <2>2. CheckedOut' = CheckedOut
    BY <1>1, <1>10, CheckedOutSame DEF Restart, TypeOK
  <2> QED  BY <2>1, <2>2, ContractStutters
<1>11. CASE Tick \/ UNCHANGED vars
  BY <1>3, <1>11 DEF Tick, vars, tables, providers
<1> QED  BY <1>6, <1>7, <1>8, <1>9, <1>10, <1>11 DEF Next

LEMMA InitImplements == Init => Contract!Init
<1> SUFFICES ASSUME Init PROVE Contract!Init
  OBVIOUS
<1>1. \A r \in Runs : ~Exists(r)
  BY DEF Init, NoRun, Exists, Created
<1>2. CheckedOut = {}
  BY DEF Init, CheckedOut, NoSession, NoInvoice, Completed
<1> QED  BY <1>1, <1>2 DEF Contract!Init

\* The paywall implements its contract: runs open only as free runs, in the
\* wake of a checkout of their user or by a checkout for themselves, and an open
\* run and a completed checkout are for ever.
THEOREM PaywallImplements == Spec => ImplementsContract
<1>1. Init => Contract!Init
  BY InitImplements
<1>2. IInv /\ [Next]_vars => [Contract!Next]_(Contract!promise)
  BY StepImplements
<1> QED  BY <1>1, <1>2, Invariance, PTL DEF Spec, ImplementsContract, Contract!Spec

=============================================================================
