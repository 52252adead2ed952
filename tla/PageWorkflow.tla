----------------------------- MODULE PageWorkflow -----------------------------
(***************************************************************************)
(* The page "/" as a whole: PageInputs with the run it starts, the output   *)
(* it shows, the paywall, and the browser that leaves for Stripe, returns   *)
(* and reloads.  A load of the page is a fresh state dictionary, filled by  *)
(* a bootstrap that runs beside the user's clicks and a payment timer.      *)
(***************************************************************************)
EXTENDS PageInputs

VARIABLES
    run,           \* agent_runs of the user, as the API serves them
    store          \* the workflow kept in sessionStorage

vars == <<inputVars, run, store>>

RunRows ==
    [status  : {"running", "completed", "failed"},
     executor : {"unstarted", "started", "done", "error", "lost"},   \* the end it announces
     open    : BOOLEAN,      \* ~output_locked: free or unlocked
     paid    : SUBSET {"checkout", "settled", "invoice"},   \* what Stripe and NOWPayments know
     resume  : Resumes,
     job     : Jobs]

\* GET /api/v1/runs/{id}
Bodies == [id : Runs, status : {"running", "completed", "failed"}, open : BOOLEAN,
           resume : Resumes, job : Jobs]
Body(r, row) == [id |-> r, status |-> row.status, open |-> row.open,
                 resume |-> row.resume, job |-> row.job]
HasOutput(b) == b.open /\ b.status = "completed"     \* final_output is in the body

Panels == [kind : {"empty", "loading", "error"}, run : {None}]
             \cup [kind : {"locked", "full", "bare"}, run : Runs]

Views ==
    [panel  : Panels,
     dialog : BOOLEAN,                                   \* the paywall is open
     busy   : BOOLEAN,                                   \* "Tailor resume" is loading
     job    : Jobs \cup {None},                          \* jd_input
     typed  : BOOLEAN,    \* history: the user has typed in it
     late   : BOOLEAN,   \* history: the page had left the panel's run, or its bootstrap replaced it
     stuck  : BOOLEAN,   \* history: tailor ended before the try that gives the button back
     gaveUp : BOOLEAN]   \* history: the bootstrap ended the wait for a payment without an answer

\* No row and no answer is None.
ASSUME PageAssumption == None \notin RunRows \cup Bodies

NoPanel(kind) == [kind |-> kind, run |-> None]

FreshView == [panel |-> NoPanel("empty"), dialog |-> FALSE, busy |-> FALSE,
              job |-> None, typed |-> FALSE, late |-> FALSE, stuck |-> FALSE, gaveUp |-> FALSE]

ResumeOf(r) == IF r = None THEN 0 ELSE run[r].resume

\* index_page for the address of a return from a paid checkout of r, or for None.
FreshPage(r) == [run |-> r, resume |-> ResumeOf(r), jd |-> None, poll |-> r # None,
                 locked |-> FALSE, scored |-> None, query |-> r]

FreshTasks == [c \in Callbacks |-> IF c = "boot" THEN [at |-> "start"] ELSE Idle]

Init ==
    /\ resumes \in {0, 1}
    /\ page = FreshPage(None)
    /\ view = FreshView
    /\ task = FreshTasks
    /\ events = MaxEvents
    /\ run = [r \in Runs |-> None]
    /\ store = None

--------------------------------------------------------------------------------
(* refresh_run: what an answer does to the page *)

BodyInPage(b) == [page EXCEPT !.resume = b.resume, !.jd = b.job, !.locked = ~b.open]

\* apply_form_from_state: an empty field takes the page's job description.
Refilled(v, jd) == [v EXCEPT !.job = IF @ = None THEN jd ELSE @]

BodyInView(b, paywall) ==
    [Refilled(view, b.job) EXCEPT
        !.panel = [kind |-> IF HasOutput(b) THEN "full" ELSE IF b.open THEN "bare" ELSE "locked",
                   run |-> b.id],
        !.late = b.id # page.run,
        !.dialog = @ \/ (~b.open /\ (paywall \/ b.status = "completed"))]

\* A slip: what Stripe says of the session is not written to the run.
VerifiedSlip == run

\* sync_payment_status: Stripe says the session is paid, and the run is opened.
Verified == [r \in Runs |->
    IF r = page.run /\ "settled" \in run[r].paid THEN [run[r] EXCEPT !.open = TRUE] ELSE run[r]]

\* The request of refresh_run, answered at once and applied later: None without a run.
Asked(rows) ==
    [at |-> "body", body |-> IF page.run = None THEN None ELSE Body(page.run, rows[page.run])]

Account == [at |-> "list", n |-> resumes]

--------------------------------------------------------------------------------
(* bootstrap_workflow *)

\* The address goes before the stored workflow.
BootMerge ==
    /\ task["boot"].at = "start"
    /\ LET kept == IF store = None THEN [run |-> None, resume |-> 0, job |-> None] ELSE store
           jd == IF page.jd = None THEN kept.job ELSE page.jd
           r == IF page.query # None THEN page.query
                ELSE IF kept.run # None THEN kept.run ELSE page.run
       IN /\ page' = [page EXCEPT !.run = r,
                                  !.resume = IF page.query # None THEN ResumeOf(page.query)
                                             ELSE IF kept.resume # 0 THEN kept.resume ELSE @,
                                  !.jd = jd]
          /\ view' = [Refilled(view, jd) EXCEPT !.late = @ \/ r # page.run]
    /\ Suspend("boot", Account)
    /\ UNCHANGED <<resumes, events, run, store>>

\* With no payment to wait for, the run is put aside: the page starts fresh.
BootListed ==
    /\ task["boot"].at = "list"
    /\ LET p == Listed(page, task["boot"].n)
           fresh == p.run # None /\ ~p.poll
       IN /\ page' = IF fresh THEN [p EXCEPT !.run = None] ELSE p
          /\ Suspend("boot", IF p.run = None THEN Idle
                             ELSE IF fresh THEN [at |-> "clear"] ELSE [at |-> "verify"])
          /\ view' = [Refilled(view, p.jd) EXCEPT !.late = @ \/ fresh]
    /\ UNCHANGED <<resumes, events, run, store>>

BootClear ==
    /\ task["boot"].at = "clear"
    /\ store' = None
    /\ task' = Scheduled([task EXCEPT !["boot"] = Idle])
    /\ UNCHANGED <<resumes, page, view, events, run>>

BootVerify ==
    /\ task["boot"].at = "verify"
    /\ run' = Verified
    /\ Suspend("boot", Asked(Verified))
    /\ UNCHANGED <<resumes, page, view, events, store>>

\* The wait for the payment ends unless the last answer the page has had is
\* locked: without one current_run or {} has no lock.
BootShown ==
    /\ task["boot"].at = "body"
    /\ LET b == task["boot"].body
           done == IF b = None THEN ~page.locked ELSE b.open
           p == IF b = None THEN page ELSE BodyInPage(b)
           v == IF b = None THEN view ELSE BodyInView(b, TRUE)
       IN /\ page' = [p EXCEPT !.poll = @ /\ ~done]
          /\ view' = [v EXCEPT !.dialog = @ /\ ~done, !.gaveUp = @ \/ (b = None /\ done)]
          /\ Suspend("boot", IF done THEN [at |-> "forget"] ELSE Idle)
    /\ UNCHANGED <<resumes, events, run, store>>

BootForget ==
    /\ task["boot"].at = "forget"
    /\ store' = None
    /\ Return("boot")
    /\ UNCHANGED <<resumes, page, view, events, run>>

BootStep == BootMerge \/ BootListed \/ BootClear \/ BootVerify \/ BootShown \/ BootForget

--------------------------------------------------------------------------------
(* poll_after_payment, every 2.5 seconds *)

PollAsk ==
    /\ task["poll"] = Idle
    /\ page.poll
    /\ run' = Verified
    /\ Suspend("poll", Asked(Verified))
    /\ UNCHANGED <<resumes, page, view, events, store>>

\* Without an answer, or with a locked one, the page goes on waiting.
PollShown ==
    /\ task["poll"].at = "body"
    /\ LET b == task["poll"].body
       IN \/ /\ b = None
             /\ Return("poll")
             /\ UNCHANGED <<page, view>>
          \/ /\ b # None
             /\ page' = [BodyInPage(b) EXCEPT !.poll = @ /\ ~b.open]
             /\ view' = [BodyInView(b, FALSE) EXCEPT !.dialog = @ /\ ~b.open]
             /\ Suspend("poll", IF b.open THEN Account ELSE Idle)
    /\ UNCHANGED <<resumes, events, run, store>>

PollListed ==
    /\ task["poll"].at = "list"
    /\ page' = Listed(page, task["poll"].n)
    /\ Suspend("poll", [at |-> "forget"])
    /\ UNCHANGED <<resumes, view, events, run, store>>

PollForget ==
    /\ task["poll"].at = "forget"
    /\ store' = None
    /\ Return("poll")
    /\ UNCHANGED <<resumes, page, view, events, run>>

PollStep == PollAsk \/ PollShown \/ PollListed \/ PollForget

--------------------------------------------------------------------------------
(* tailor.  A page that has no resume selected yet asks for the list first. *)

Start(resume, job) ==
    /\ view' = [view EXCEPT !.busy = TRUE, !.dialog = FALSE,
                            !.panel = NoPanel("loading"), !.late = FALSE]
    /\ Suspend("tailor", [at |-> "create", resume |-> resume, job |-> job])

Tailor ==
    /\ Event
    /\ task["tailor"] = Idle /\ ~view.busy
    /\ view.job # None
    /\ \/ /\ page.resume # 0
          /\ Start(page.resume, view.job)
       \/ /\ page.resume = 0
          /\ Suspend("tailor", [at |-> "resume", n |-> resumes, job |-> view.job])
          /\ UNCHANGED view
    /\ UNCHANGED <<resumes, page, run, store>>

TailorResume ==
    LET t == task["tailor"]
        p == Listed(page, t.n)
    IN  /\ t.at = "resume"
        /\ page' = p
        /\ \/ p.resume # 0 /\ Start(p.resume, t.job)
           \/ p.resume = 0 /\ Return("tailor") /\ UNCHANGED view
        /\ UNCHANGED <<resumes, events, run, store>>

\* create_run_record commits, and the page takes the new run for its own.
TailorCreate ==
    LET t == task["tailor"]
        r == CHOOSE new \in Runs : run[new] = None
    IN  /\ t.at = "create"
        /\ \E new \in Runs : run[new] = None
        /\ \E free \in BOOLEAN :
              run' = [run EXCEPT ![r] = [status |-> "running", executor |-> "unstarted", open |-> free, paid |-> {},
                                         resume |-> t.resume, job |-> t.job]]
        /\ page' = [page EXCEPT !.run = r, !.jd = t.job]
        /\ Suspend("tailor", [at |-> "save", run |-> r])
        /\ UNCHANGED <<resumes, view, events, store>>

\* A slip: only the paths that raise give the button back.
ShowErrorSlip == [view EXCEPT !.panel = NoPanel("error"), !.late = FALSE]

ShowError == [view EXCEPT !.busy = FALSE, !.panel = NoPanel("error"), !.late = FALSE]

\* RunLaunchError, or anything else the launch raises.
TailorRefused ==
    /\ task["tailor"].at = "create"
    /\ view' = ShowError
    /\ Return("tailor")
    /\ UNCHANGED <<resumes, page, events, run, store>>

Kept(r) == [run |-> r, resume |-> run[r].resume, job |-> run[r].job]

Started(rows, r) == [rows EXCEPT ![r].executor = "started"]

\* The browser has kept the workflow: the run is executed, and watched.
TailorSave ==
    LET r == task["tailor"].run
    IN  /\ task["tailor"].at = "save"
        /\ store' = Kept(r)
        /\ run' = Started(run, r)
        /\ Suspend("tailor", [at |-> "watch", run |-> r])
        /\ UNCHANGED <<resumes, page, view, events>>

\* The watcher returns at the end it is told, which is "done" for a run that
\* ended in fatal_error without raising; the page then asks for the run that is
\* its own by now.
TailorWatched ==
    LET r == task["tailor"].run
    IN  /\ task["tailor"].at = "watch"
        /\ \/ /\ run[r].executor = "error"
              /\ view' = ShowError
              /\ Return("tailor")
           \/ /\ run[r].executor = "done"
              /\ view' = [view EXCEPT !.busy = FALSE]
              /\ Suspend("tailor", Asked(run))
        /\ UNCHANGED <<resumes, page, events, run, store>>

TailorShown ==
    /\ task["tailor"].at = "body"
    /\ LET b == task["tailor"].body
       IN /\ page' = IF b = None THEN page ELSE BodyInPage(b)
          /\ view' = IF b = None THEN [view EXCEPT !.late = TRUE] ELSE BodyInView(b, TRUE)
    /\ Suspend("tailor", Account)
    /\ UNCHANGED <<resumes, events, run, store>>

TailorListed ==
    /\ task["tailor"].at = "list"
    /\ page' = Listed(page, task["tailor"].n)
    /\ Return("tailor")
    /\ UNCHANGED <<resumes, view, events, run, store>>

TailorStep ==
    \/ TailorResume \/ TailorCreate
    \/ TailorRefused \/ TailorSave \/ TailorWatched \/ TailorShown \/ TailorListed

--------------------------------------------------------------------------------
(* A Generate button: _wire_variant_gen_button *)

Generate ==
    /\ Event
    /\ task["generate"] = Idle
    /\ view.panel.kind \in {"full", "bare"}      \* its row is shown
    /\ page.run # None
    /\ Suspend("generate", [at |-> "post", run |-> page.run])
    /\ UNCHANGED <<resumes, page, view, run, store>>

\* The variant is built, and the page asks again for its run; or 402, 409,
\* 503 and a message.
Generated ==
    LET r == task["generate"].run
    IN  /\ task["generate"].at = "post"
        /\ \/ run[r].open /\ run[r].status = "completed" /\ Suspend("generate", Asked(run))
           \/ Return("generate")
        /\ UNCHANGED <<resumes, page, view, events, run, store>>

GenerateShown ==
    /\ task["generate"].at = "body"
    /\ LET b == task["generate"].body
       IN /\ page' = IF b = None THEN page ELSE BodyInPage(b)
          /\ view' = IF b = None THEN view ELSE BodyInView(b, FALSE)
    /\ Return("generate")
    /\ UNCHANGED <<resumes, events, run, store>>

GenerateStep == Generated \/ GenerateShown

--------------------------------------------------------------------------------
(* The paywall: pay_stripe, pay_crypto, and the way to Stripe and back *)

Pay(kind) ==
    /\ Event
    /\ task["pay"] = Idle
    /\ view.dialog
    /\ page.run # None
    /\ Suspend("pay", [at |-> kind, run |-> page.run])
    /\ store' = IF kind = "stripe"
                THEN [run |-> page.run, resume |-> page.resume, job |-> view.job]
                ELSE store
    /\ UNCHANGED <<resumes, page, view, run>>

\* The API starts the payment, or refuses it (400, 502) and a message is shown.
PayAnswered ==
    LET p == task["pay"]
    IN  /\ p.at \in {"stripe", "crypto"}
        /\ \/ /\ run' = [run EXCEPT ![p.run].paid =
                                IF p.at = "crypto" THEN @ \cup {"invoice"} ELSE @]
              /\ page' = [page EXCEPT !.poll = TRUE]
              /\ Suspend("pay", IF p.at = "stripe" THEN [at |-> "away", run |-> p.run] ELSE Idle)
           \/ Return("pay") /\ UNCHANGED <<page, run>>
        /\ UNCHANGED <<resumes, view, events, store>>

\* A load of the page: the callbacks of the load before are gone, though a run
\* that waited for the browser may have had its answer.
Load(r, rows) ==
    /\ page' = FreshPage(r)
    /\ view' = FreshView
    /\ task' = FreshTasks
    /\ \/ run' = rows
       \/ task["tailor"].at = "save" /\ run' = Started(rows, task["tailor"].run)
    /\ UNCHANGED <<resumes, store>>

\* The customer pays at Stripe and is sent back, or cancels.
ReturnPaid ==
    LET r == task["pay"].run
    IN  /\ task["pay"].at = "away"
        /\ Load(r, [run EXCEPT ![r].paid = @ \cup {"checkout"}])
        /\ UNCHANGED events

\* ?cancelled=1&run_id=r: bootstrap would put r aside, as it does a stored run.
ReturnCancelled ==
    /\ task["pay"].at = "away"
    /\ Load(None, run)
    /\ UNCHANGED events

Reload ==
    /\ Event
    /\ Load(page.query, run)

--------------------------------------------------------------------------------
(* new_resume *)

Restart ==
    /\ Event
    /\ task["restart"] = Idle
    /\ page' = [page EXCEPT !.run = None, !.jd = None, !.poll = FALSE, !.locked = FALSE,
                            !.scored = None]
    /\ task' = [task EXCEPT !["restart"] = [at |-> "clear"], !["score"] = [at |-> "dropped"]]
    /\ UNCHANGED <<resumes, view, run, store>>

\* A slip: the fields are cleared, the output panel is left.
RestartClearSlip ==
    /\ task["restart"].at = "clear"
    /\ store' = None
    /\ view' = [view EXCEPT !.job = None, !.typed = FALSE, !.dialog = FALSE]
    /\ Return("restart")
    /\ UNCHANGED <<resumes, page, events, run>>

RestartClear ==
    /\ task["restart"].at = "clear"
    /\ store' = None
    /\ view' = [FreshView EXCEPT !.busy = view.busy, !.stuck = view.stuck, !.gaveUp = view.gaveUp]
    /\ Return("restart")
    /\ UNCHANGED <<resumes, page, events, run>>

--------------------------------------------------------------------------------
(* What fails *)

\* A GET is not answered 200: refresh_run and load_account leave the page alone.
AnswerFails(c) ==
    /\ Event
    /\ \/ task[c].at = "body" /\ task' = [task EXCEPT ![c].body = None]
       \/ task[c].at \in {"list", "resume"} /\ task' = [task EXCEPT ![c].n = 0]
    /\ UNCHANGED <<resumes, page, view, run, store>>

\* What the browser keeps once it has run the script a callback waits for.
Scripted(t) ==
    IF t.at = "save" THEN Kept(t.run) ELSE IF t.at \in {"clear", "forget"} THEN None ELSE store

\* A script is not answered in time, or a call raises: the callback ends where
\* it is.  Nothing is shown, and the browser may have run the script or not.
Raises(c) ==
    LET t == task[c]
    IN  /\ c \notin {"pay", "score"}     \* as if they were refused
        /\ t.at \in {"start", "list", "clear", "verify", "body", "forget", "stored", "resume", "save"}
        /\ Event
        /\ task' = [task EXCEPT ![c] = Idle,
                                !["score"] = IF c = "upload" /\ t.at = "list" /\ @.at = "idle"
                                             THEN [at |-> "dropped"] ELSE @]
        /\ view' = [view EXCEPT !.stuck = @ \/ t.at = "save",
                                !.late = @ \/ t.at = "save" \/ c = "restart"
                                           \/ (c = "tailor" /\ t.at = "body")]
        /\ store' \in {store, Scripted(t)}
        /\ UNCHANGED <<resumes, page, run>>

Failure == \E c \in Callbacks : AnswerFails(c) \/ Raises(c)

--------------------------------------------------------------------------------
(* The server *)

\* The end that is committed and the one that is announced, if any is: the
\* executor may die, and another watcher may take the announcement.
Ends == {[status |-> "completed", executor |-> "done"], [status |-> "failed", executor |-> "done"],
         [status |-> "failed", executor |-> "error"]}
           \cup [status : {"running", "completed", "failed"}, executor : {"lost"}]

RunEnds(r, end) ==
    /\ run[r] # None /\ run[r].executor = "started"
    /\ run' = [run EXCEPT ![r].status = end.status, ![r].executor = end.executor]
    /\ UNCHANGED <<inputVars, store>>

\* Stripe settles the session.
Settle(r) ==
    /\ run[r] # None /\ "checkout" \in run[r].paid /\ "settled" \notin run[r].paid
    /\ run' = [run EXCEPT ![r].paid = @ \cup {"settled"}]
    /\ UNCHANGED <<inputVars, store>>

\* A webhook of Stripe or NOWPayments opens the run.
Webhook(r) ==
    /\ run[r] # None /\ ~run[r].open /\ {"settled", "invoice"} \cap run[r].paid # {}
    /\ run' = [run EXCEPT ![r].open = TRUE]
    /\ UNCHANGED <<inputVars, store>>

UserStep ==
    \/ Tailor \/ Generate \/ Restart \/ Reload
    \/ \E kind \in {"stripe", "crypto"} : Pay(kind)

Next ==
    \/ InputStep /\ UNCHANGED <<run, store>>
    \/ BootStep \/ PollStep \/ TailorStep \/ GenerateStep
    \/ PayAnswered \/ ReturnPaid \/ ReturnCancelled \/ RestartClear
    \/ UserStep \/ Failure
    \/ \E r \in Runs : Settle(r) \/ Webhook(r) \/ \E end \in Ends : RunEnds(r, end)

\* The event loop resumes the coroutines that wait for their own server and
\* browser, and what is executed ends, or is lost.  Nothing makes Stripe settle
\* or send a webhook, a customer return, or a model answer a score or a variant.
Fairness ==
    /\ WF_vars(BootStep)
    /\ WF_vars(PollStep)
    /\ WF_vars(TailorStep)
    /\ \A r \in Runs : WF_vars(\E end \in Ends : RunEnds(r, end))

Spec == Init /\ [][Next]_vars /\ Fairness

--------------------------------------------------------------------------------
ListStates == [at : {"list"}, n : 0 .. MaxResumes]
BodyStates == [at : {"body"}, body : Bodies \cup {None}]

TaskStates ==
    {Idle}
      \cup [at : {"start", "clear", "verify", "forget", "due", "skipped", "failed", "dropped"}]
      \cup ListStates \cup BodyStates
      \cup [at : {"asked"}, job : Jobs]
      \cup [at : {"stored"}, resume : Resumes]
      \cup [at : {"resume"}, n : 0 .. MaxResumes, job : Jobs]
      \cup [at : {"create"}, resume : Resumes, job : Jobs]
      \cup [at : {"save", "watch", "post", "stripe", "crypto", "away"}, run : Runs]

\* The page, the view and every answer in flight are well formed.
TypeOK ==
    /\ resumes \in 0 .. MaxResumes
    /\ page \in Pages
    /\ view \in Views
    /\ task \in [Callbacks -> TaskStates]
    /\ events \in 0 .. MaxEvents
    /\ run \in [Runs -> RunRows \cup {None}]
    /\ store \in [run : Runs, resume : Resumes \cup {0}, job : Jobs \cup {None}] \cup {None}

\* What the output panel shows is the run the page would export, pay for and
\* generate variants of.  The exceptions are a run being tailored, a New
\* resume under way, and an answer that came after the page had left its run,
\* or did not come at all when it should have replaced the panel
\* (app.py:729, 1018, 1043, 1139).
ShownRunIsThePagesRun ==
    \/ view.panel.run \in {None, page.run}
    \/ view.late
    \/ view.busy \/ task["tailor"].at = "body"
    \/ task["restart"].at = "clear"

\* "Tailor resume" comes back whatever ends the run, well or badly, and
\* whatever the user did meanwhile, in all but two cases: the browser does not
\* answer save_browser_workflow, which is awaited after the button is set
\* loading and before the try that gives it back (app.py:1003), and the end of
\* the run is never announced (app.py:1009).
ButtonComesBack ==
    view.busy ~> \/ ~view.busy \/ view.stuck
                 \/ task["tailor"].at = "watch" /\ run[task["tailor"].run].executor = "lost"

\* A customer who comes back from a settled payment of a completed run is
\* shown its full text, by the bootstrap or by the timer, as long as the timer
\* is on, whatever calls fail on the way, unless the page is made to leave the
\* run, by a click or by an answer that comes late, or the bootstrap gives the
\* wait up for want of an answer.  (Once either has shown it the timer is off,
\* and a locked answer of the other, asked before the payment settled, may
\* still replace it: app.py:1103-1114, 1130-1134.)
PaidRunGetsShown ==
    \A r \in Runs :
        (page.poll /\ page.query = r /\ page.run = r
           /\ run[r].status = "completed" /\ "settled" \in run[r].paid)
            ~> (view.panel = [kind |-> "full", run |-> r] \/ page.run # r \/ view.late \/ view.gaveUp)

\* "Stripe return URLs [...] trigger polling until the run is unlocked by
\* backend webhook processing": the page that a payment of its run led to does
\* not stop polling for it while it is locked
\* (nicegui-paywall-polish.md:34, app.py:1130-1134).
PollsUntilUnlocked ==
    [][\A r \in Runs :
         (page.query = r /\ page.run = r /\ page'.run = r /\ page.poll /\ ~page'.poll)
            => run[r].open]_vars

\* The job description the user typed last is the one scored, or a task that
\* will score it is pending, through every cancellation and restart of that
\* task.  It is lost only if the preview fails, if the task ran before the
\* page had a resume, or if New resume or an upload ends between dropping a
\* score and starting the next (app.py:622, 646, 684, 1052).
TypedJobIsScored ==
    \/ ~view.typed
    \/ page.scored = view.job
    \/ task["score"].at \in {"due", "asked", "failed", "skipped", "dropped"}
    \/ task["upload"].at = "list"

================================================================================
