------------------------------- MODULE PageProofs -------------------------------
(***************************************************************************)
(* What holds of the page for any number of runs, resumes, job descriptions *)
(* and events.                                                              *)
(*                                                                         *)
(* A callback of the page applies what it asked for to a page that others   *)
(* have changed meanwhile.  It may, because the runs it holds on to are     *)
(* never deleted, because every step that takes the page to another run     *)
(* either empties the panel or says so, and because every step that makes   *)
(* the score stale schedules another one.                                   *)
(***************************************************************************)
EXTENDS PageWorkflow, TLAPS

Exists(r) == run[r] \in RunRows

\* Every run the page, its address, the stored workflow or a callback names was
\* created.
NamedRunsExist ==
    /\ page.run # None => Exists(page.run)
    /\ page.query # None => Exists(page.query)
    /\ store # None => Exists(store.run)
    /\ \A c \in Callbacks :
          task[c].at \in {"save", "watch", "post", "stripe", "crypto", "away"}
              => Exists(task[c].run)

\* The button is loading as long as a callback that will give it back creates,
\* saves or watches a run, and afterwards only if that callback raised.
ButtonIsBusy ==
    /\ task["tailor"].at \in {"create", "save", "watch"} => view.busy
    /\ view.busy => task["tailor"].at \in {"create", "save", "watch"} \/ view.stuck

\* The panel shows the page's run, but for a run that was created beside another
\* one's answer and will be shown next.
PanelAgrees ==
    \/ view.panel.run \in {None, page.run}
    \/ view.late
    \/ task["restart"].at = "clear"
    \/ task["tailor"].at \in {"save", "watch"} /\ page.run # None
    \/ task["tailor"].at = "body"

\* What the user typed is in the field, and a score under way is its score.
ScoreIsOfTheField ==
    /\ task["score"].at \in {"idle", "due", "asked", "skipped", "failed", "dropped"}
    /\ view.typed => /\ view.job # None
                     /\ task["score"].at = "asked" => task["score"].job = view.job

\* What the page says of its run, its button and its score.
Coherent ==
    /\ ButtonIsBusy
    /\ PanelAgrees
    /\ ScoreIsOfTheField
    /\ TypedJobIsScored

Inv ==
    /\ TypeOK
    /\ NamedRunsExist
    /\ Coherent

--------------------------------------------------------------------------------
(* Tasks, pages and answers *)

LEMMA TaskFields ==
    ASSUME NEW t \in TaskStates
    PROVE  /\ t.at = "list" => t.n \in 0 .. MaxResumes
           /\ t.at = "body" => t.body \in Bodies \cup {None}
           /\ t.at = "asked" => t.job \in Jobs
           /\ t.at = "stored" => t.resume \in Resumes
           /\ t.at = "resume" => t.n \in 0 .. MaxResumes /\ t.job \in Jobs
           /\ t.at = "create" => t.resume \in Resumes /\ t.job \in Jobs
           /\ t.at \in {"save", "watch", "post", "stripe", "crypto", "away"} => t.run \in Runs
  BY DEF TaskStates, Idle, ListStates, BodyStates

LEMMA TasksTyped ==
    /\ Idle \in TaskStates /\ Idle.at = "idle"
    /\ \A a \in {"start", "clear", "verify", "forget", "due", "skipped", "failed", "dropped"} :
          [at |-> a] \in TaskStates
    /\ \A n \in 0 .. MaxResumes : [at |-> "list", n |-> n] \in TaskStates
    /\ \A b \in Bodies \cup {None} : [at |-> "body", body |-> b] \in TaskStates
    /\ \A j \in Jobs : [at |-> "asked", job |-> j] \in TaskStates
    /\ \A r \in Resumes : [at |-> "stored", resume |-> r] \in TaskStates
    /\ \A n \in 0 .. MaxResumes, j \in Jobs :
          [at |-> "resume", n |-> n, job |-> j] \in TaskStates
    /\ \A r \in Resumes, j \in Jobs :
          [at |-> "create", resume |-> r, job |-> j] \in TaskStates
    /\ \A a \in {"save", "watch", "post", "stripe", "crypto", "away"}, r \in Runs :
          [at |-> a, run |-> r] \in TaskStates
  BY DEF TaskStates, Idle, ListStates, BodyStates

\* A list of the resumes changes which one is selected, and nothing else.
LEMMA ListedPage ==
    ASSUME NEW p \in Pages, NEW n \in 0 .. MaxResumes
    PROVE  /\ Listed(p, n) \in Pages
           /\ Listed(p, n).run = p.run /\ Listed(p, n).query = p.query
           /\ Listed(p, n).scored = p.scored /\ Listed(p, n).poll = p.poll
           /\ Listed(p, n).jd = p.jd
<1>1. (IF n = 0 \/ p.resume \in 1 .. n THEN p.resume ELSE n) \in Resumes \cup {0}
  BY PageInputsAssumption DEF Pages, Resumes
<1> QED  BY <1>1 DEF Listed, Pages

\* A request for the page's run is a body, of that run if the page has one.
LEMMA AskedTask ==
    ASSUME page \in Pages, NEW rows \in [Runs -> RunRows \cup {None}],
           page.run # None => rows[page.run] \in RunRows
    PROVE  Asked(rows) \in TaskStates /\ Asked(rows).at = "body"
<1>1. CASE page.run = None
  BY <1>1, TasksTyped DEF Asked
<1>2. CASE page.run # None
  <2>1. page.run \in Runs
    BY <1>2 DEF Pages
  <2>2. Body(page.run, rows[page.run]) \in Bodies
    BY <1>2, <2>1 DEF Body, Bodies, RunRows
  <2> QED  BY <1>2, <2>2, TasksTyped DEF Asked
<1> QED  BY <1>1, <1>2

\* Stripe's word opens the page's run: no run appears, disappears or changes hands.
LEMMA VerifiedRows ==
    ASSUME run \in [Runs -> RunRows \cup {None}], page \in Pages,
           page.run # None => Exists(page.run)
    PROVE  /\ Verified \in [Runs -> RunRows \cup {None}]
           /\ \A r \in Runs : run[r] \in RunRows => Verified[r] \in RunRows
<1>1. ASSUME NEW r \in Runs, run[r] \in RunRows
      PROVE  [run[r] EXCEPT !.open = TRUE] \in RunRows
  BY <1>1 DEF RunRows
<1>2. ASSUME NEW r \in Runs
      PROVE  /\ Verified[r] \in RunRows \cup {None}
             /\ run[r] \in RunRows => Verified[r] \in RunRows
  <2>1. CASE r = page.run /\ "settled" \in run[r].paid
    <3>1. run[r] \in RunRows
      BY <2>1, PageInputsAssumption DEF Exists
    <3> QED  BY <2>1, <3>1, <1>1 DEF Verified
  <2>2. CASE ~(r = page.run /\ "settled" \in run[r].paid)
    BY <2>2 DEF Verified
  <2> QED  BY <2>1, <2>2
<1> QED  BY <1>2 DEF Verified

\* The executor of a run that exists starts: it goes on existing.
LEMMA StartedRows ==
    ASSUME NEW rows \in [Runs -> RunRows \cup {None}], NEW r \in Runs, rows[r] \in RunRows
    PROVE  /\ Started(rows, r) \in [Runs -> RunRows \cup {None}]
           /\ \A q \in Runs : rows[q] \in RunRows => Started(rows, r)[q] \in RunRows
<1>1. PICK row \in RunRows : row = [rows[r] EXCEPT !.executor = "started"]
  BY DEF RunRows
<1>2. Started(rows, r) = [rows EXCEPT ![r] = row]
  BY <1>1 DEF Started
<1> QED  BY <1>2

LEMMA KeptWorkflow ==
    ASSUME NEW r \in Runs, run[r] \in RunRows
    PROVE  /\ Kept(r) \in [run : Runs, resume : Resumes \cup {0}, job : Jobs \cup {None}]
           /\ Kept(r).run = r
  BY DEF Kept, RunRows

\* What an answer does to a well-formed page and view.
LEMMA BodyApplied ==
    ASSUME page \in Pages, view \in Views, NEW b \in Bodies, NEW paywall \in BOOLEAN
    PROVE  /\ BodyInPage(b) \in Pages
           /\ BodyInPage(b).run = page.run /\ BodyInPage(b).query = page.query
           /\ BodyInPage(b).scored = page.scored /\ BodyInPage(b).poll = page.poll
           /\ BodyInView(b, paywall) \in Views
           /\ BodyInView(b, paywall).panel.run = b.id
           /\ BodyInView(b, paywall).late = (b.id # page.run)
           /\ BodyInView(b, paywall).busy = view.busy
           /\ BodyInView(b, paywall).stuck = view.stuck
           /\ BodyInView(b, paywall).typed = view.typed
           /\ view.job # None => BodyInView(b, paywall).job = view.job
<1>1. /\ b.id \in Runs /\ b.open \in BOOLEAN /\ b.resume \in Resumes /\ b.job \in Jobs
      /\ b.status \in {"running", "completed", "failed"}
  BY DEF Bodies
<1>2. /\ BodyInPage(b) \in Pages
      /\ BodyInPage(b).run = page.run /\ BodyInPage(b).query = page.query
      /\ BodyInPage(b).scored = page.scored /\ BodyInPage(b).poll = page.poll
  BY <1>1 DEF BodyInPage, Pages
<1> DEFINE filled == Refilled(view, b.job)
           panel == [kind |-> IF HasOutput(b) THEN "full" ELSE IF b.open THEN "bare" ELSE "locked",
                     run |-> b.id]
<1>3. /\ filled \in Views /\ filled.busy = view.busy /\ filled.typed = view.typed
      /\ filled.dialog = view.dialog /\ filled.stuck = view.stuck
      /\ view.job # None => filled.job = view.job
  BY <1>1 DEF Refilled, Views
<1>4. panel \in Panels /\ panel.run = b.id
  BY <1>1 DEF Panels
<1>5. PICK dialog \in BOOLEAN :
         dialog = (filled.dialog \/ (~b.open /\ (paywall \/ b.status = "completed")))
  OBVIOUS
<1>6. PICK late \in BOOLEAN : late = (b.id # page.run)
  OBVIOUS
<1>7. BodyInView(b, paywall) = [filled EXCEPT !.panel = panel, !.late = late, !.dialog = dialog]
  BY <1>5, <1>6 DEF BodyInView
<1> HIDE DEF filled, panel
<1>8. /\ BodyInView(b, paywall) \in Views
      /\ BodyInView(b, paywall).panel = panel
      /\ BodyInView(b, paywall).late = late
      /\ BodyInView(b, paywall).busy = filled.busy
      /\ BodyInView(b, paywall).stuck = filled.stuck
      /\ BodyInView(b, paywall).typed = filled.typed
      /\ BodyInView(b, paywall).job = filled.job
  BY <1>3, <1>4, <1>7 DEF Views
<1> QED  BY <1>2, <1>3, <1>4, <1>6, <1>8

--------------------------------------------------------------------------------
(* What one suspended callback leaves alone *)

LEMMA Suspended ==
    ASSUME TypeOK, NEW c \in Callbacks, NEW t \in TaskStates, Suspend(c, t)
    PROVE  /\ task' \in [Callbacks -> TaskStates]
           /\ \A d \in Callbacks : task'[d] = IF d = c THEN t ELSE task[d]
  BY DEF TypeOK, Suspend

\* No run disappears, and a page, an address, a stored workflow or a callback
\* that names another run than before names one that exists.
LEMMA NamesStay ==
    ASSUME TypeOK, NamedRunsExist,
           NEW c \in Callbacks, NEW t \in TaskStates, Suspend(c, t),
           t.at \in {"save", "watch", "post", "stripe", "crypto", "away"} => Exists(t.run)',
           page' \in Pages,
           page'.run \notin {None, page.run} => Exists(page.run)',
           page'.query = page.query,
           store' # None => store' = store \/ Exists(store.run)',
           \A r \in Runs : run[r] \in RunRows => run'[r] \in RunRows
    PROVE  NamedRunsExist'
<1>0. TypeOK /\ NamedRunsExist
  OBVIOUS
<1>1. /\ \A d \in Callbacks : task'[d] = IF d = c THEN t ELSE task[d]
      /\ \A d \in Callbacks : task[d] \in TaskStates
  BY Suspended DEF TypeOK
<1>2. page'.run # None => Exists(page.run)'
  <2>1. page.run # None => page.run \in Runs /\ run[page.run] \in RunRows
    BY DEF TypeOK, Pages, NamedRunsExist, Exists
  <2> QED  BY <2>1 DEF Exists
<1>3. page'.query # None => Exists(page.query)'
  <2>1. page.query # None => page.query \in Runs /\ run[page.query] \in RunRows
    BY DEF TypeOK, Pages, NamedRunsExist, Exists
  <2> QED  BY <2>1 DEF Exists
<1>4. store # None /\ store' = store => Exists(store.run)'
  BY DEF TypeOK, NamedRunsExist, Exists
<1>5. ASSUME NEW d \in Callbacks,
             task'[d].at \in {"save", "watch", "post", "stripe", "crypto", "away"}
      PROVE  Exists(task[d].run)'
  <2>1. CASE d = c
    BY <1>1, <1>5, <2>1 DEF Exists
  <2>2. CASE d # c
    BY <1>1, <1>5, <2>2, TaskFields DEF NamedRunsExist, Exists
  <2> QED  BY <2>1, <2>2
<1> QED  BY <1>2, <1>3, <1>4, <1>5 DEF NamedRunsExist, Exists

\* The bootstrap, the timer, a variant and a payment leave the button and the
\* score alone, and may change what the panel shows of which run only if they
\* say so.
LEMMA CoherentStays ==
    ASSUME TypeOK, Coherent, NEW c \in {"boot", "poll", "generate", "pay"},
           NEW t \in TaskStates, Suspend(c, t),
           view'.busy = view.busy, view'.stuck = view.stuck, view'.typed = view.typed,
           view.job # None => view'.job = view.job,
           page'.scored = page.scored,
           \/ view'.panel = view.panel /\ page'.run = page.run /\ view'.late = view.late
           \/ view'.late
           \/ view'.panel.run \in {None, page'.run}
    PROVE  Coherent'
<1>1. /\ task'["tailor"] = task["tailor"] /\ task'["restart"] = task["restart"]
      /\ task'["score"] = task["score"] /\ task'["upload"] = task["upload"]
  BY Suspended DEF Callbacks
<1>2. ButtonIsBusy'
  BY <1>1 DEF Coherent, ButtonIsBusy
<1>3. PanelAgrees'
  BY <1>1 DEF Coherent, PanelAgrees
<1>4. ScoreIsOfTheField' /\ TypedJobIsScored'
  BY <1>1 DEF Coherent, ScoreIsOfTheField, TypedJobIsScored
<1> QED  BY <1>2, <1>3, <1>4 DEF Coherent

\* An empty field is filled in, and nothing else.
LEMMA RefilledView ==
    ASSUME view \in Views, NEW jd \in Jobs \cup {None}
    PROVE  /\ Refilled(view, jd) \in Views
           /\ Refilled(view, jd).busy = view.busy /\ Refilled(view, jd).stuck = view.stuck
           /\ Refilled(view, jd).typed = view.typed
           /\ Refilled(view, jd).panel = view.panel /\ Refilled(view, jd).late = view.late
           /\ view.job # None => Refilled(view, jd).job = view.job
  BY DEF Refilled, Views

--------------------------------------------------------------------------------
(* The bootstrap *)

LEMMA BootMergeKeeps == Inv /\ BootMerge => Inv'
<1> SUFFICES ASSUME Inv, BootMerge PROVE Inv'
  OBVIOUS
<1>0. TypeOK /\ NamedRunsExist /\ Coherent /\ page \in Pages /\ view \in Views
  BY DEF Inv, TypeOK
<1> DEFINE kept == IF store = None THEN [run |-> None, resume |-> 0, job |-> None] ELSE store
<1>1. PICK jd \in Jobs \cup {None} : jd = IF page.jd = None THEN kept.job ELSE page.jd
  BY <1>0 DEF TypeOK, Pages
<1>2. /\ kept.run \in Runs \cup {None} /\ kept.resume \in Resumes \cup {0}
      /\ kept.run # None => Exists(kept.run)
  BY <1>0, PageInputsAssumption DEF TypeOK, NamedRunsExist
<1>3. PICK r \in Runs \cup {None} :
         r = IF page.query # None THEN page.query
             ELSE IF kept.run # None THEN kept.run ELSE page.run
  BY <1>0, <1>2 DEF Pages
<1>4. r # None => Exists(r)
  BY <1>0, <1>2, <1>3 DEF NamedRunsExist
<1>5. PICK s \in Resumes \cup {0} :
         s = IF page.query # None THEN ResumeOf(page.query)
             ELSE IF kept.resume # 0 THEN kept.resume ELSE page.resume
  BY <1>0, <1>2 DEF Pages, ResumeOf, NamedRunsExist, Exists, RunRows
<1>6. /\ page' = [page EXCEPT !.run = r, !.resume = s, !.jd = jd]
      /\ view' = [Refilled(view, jd) EXCEPT !.late = @ \/ r # page.run]
      /\ Suspend("boot", Account)
      /\ UNCHANGED <<resumes, events, run, store>>
  BY <1>1, <1>3, <1>5 DEF BootMerge
<1>7. /\ page' \in Pages /\ page'.run = r /\ page'.query = page.query
      /\ page'.scored = page.scored
  BY <1>0, <1>6 DEF Pages
<1>8. PICK late \in BOOLEAN : late = (view.late \/ r # page.run)
  OBVIOUS
<1>9. view' = [Refilled(view, jd) EXCEPT !.late = late]
  BY <1>0, <1>6, <1>8, RefilledView
<1>10. /\ view' \in Views /\ view'.busy = view.busy /\ view'.stuck = view.stuck
       /\ view'.typed = view.typed
       /\ view'.panel = view.panel /\ view'.late = (view.late \/ r # page.run)
       /\ view.job # None => view'.job = view.job
  BY <1>0, <1>8, <1>9, RefilledView DEF Views
<1>11. Account \in TaskStates /\ Account.at = "list"
  BY <1>0, TasksTyped DEF Account, TypeOK
<1>12. TypeOK'
  BY <1>0, <1>6, <1>7, <1>10, <1>11, Suspended DEF TypeOK, Callbacks
<1>13. NamedRunsExist'
  BY <1>0, <1>4, <1>6, <1>7, <1>11, NamesStay DEF Callbacks, Exists
<1>14. Coherent'
  <2>1. view'.late \/ (page'.run = page.run /\ view'.late = view.late)
    BY <1>0, <1>7, <1>10 DEF Views
  <2> QED  BY <2>1, <1>0, <1>6, <1>7, <1>10, <1>11, CoherentStays
<1> QED  BY <1>12, <1>13, <1>14 DEF Inv

LEMMA BootListedKeeps == Inv /\ BootListed => Inv'
<1> SUFFICES ASSUME Inv, BootListed PROVE Inv'
  OBVIOUS
<1>0. TypeOK /\ NamedRunsExist /\ Coherent /\ page \in Pages /\ view \in Views
  BY DEF Inv, TypeOK
<1>1. task["boot"] \in TaskStates /\ task["boot"].at = "list"
  BY <1>0 DEF TypeOK, Callbacks, BootListed
<1>2. PICK n \in 0 .. MaxResumes : n = task["boot"].n
  BY <1>1, TaskFields
<1>3. PICK p \in Pages :
         /\ p = Listed(page, n)
         /\ p.run = page.run /\ p.query = page.query /\ p.scored = page.scored
  BY <1>0, ListedPage
<1>4. PICK fresh \in BOOLEAN : fresh = (p.run # None /\ ~p.poll)
  OBVIOUS
<1>5. PICK t \in {Idle, [at |-> "clear"], [at |-> "verify"]} :
         t = IF p.run = None THEN Idle
             ELSE IF fresh THEN [at |-> "clear"] ELSE [at |-> "verify"]
  OBVIOUS
<1>6. /\ page' = IF fresh THEN [p EXCEPT !.run = None] ELSE p
      /\ Suspend("boot", t)
      /\ view' = [Refilled(view, p.jd) EXCEPT !.late = @ \/ fresh]
      /\ UNCHANGED <<resumes, events, run, store>>
  BY <1>2, <1>3, <1>4, <1>5 DEF BootListed
<1>7. /\ page' \in Pages /\ page'.run \in {page.run, None} /\ page'.query = page.query
      /\ page'.scored = page.scored
      /\ ~fresh => page'.run = page.run
  BY <1>3, <1>6 DEF Pages
<1>8. /\ view' \in Views /\ view'.busy = view.busy /\ view'.stuck = view.stuck
      /\ view'.typed = view.typed
      /\ view'.panel = view.panel /\ view'.late = (view.late \/ fresh)
      /\ view.job # None => view'.job = view.job
  <2>1. p.jd \in Jobs \cup {None}
    BY DEF Pages
  <2>2. PICK late \in BOOLEAN : late = (view.late \/ fresh)
    OBVIOUS
  <2>3. view' = [Refilled(view, p.jd) EXCEPT !.late = late]
    BY <1>0, <1>6, <2>1, <2>2, RefilledView
  <2> QED  BY <1>0, <2>1, <2>2, <2>3, RefilledView DEF Views
<1>9. t \in TaskStates /\ t.at \in {"idle", "clear", "verify"}
  BY <1>5, TasksTyped
<1>10. TypeOK'
  BY <1>0, <1>6, <1>7, <1>8, <1>9, Suspended DEF TypeOK, Callbacks
<1>11. NamedRunsExist'
  BY <1>0, <1>6, <1>7, <1>9, NamesStay DEF Callbacks
<1>12. Coherent'
  <2>1. view'.late \/ (page'.run = page.run /\ view'.late = view.late)
    BY <1>0, <1>7, <1>8 DEF Views
  <2> QED  BY <2>1, <1>0, <1>6, <1>7, <1>8, <1>9, CoherentStays
<1> QED  BY <1>10, <1>11, <1>12 DEF Inv

LEMMA BootClearKeeps == Inv /\ BootClear => Inv'
<1> SUFFICES ASSUME Inv, BootClear PROVE Inv'
  OBVIOUS
<1>0. TypeOK /\ NamedRunsExist /\ Coherent
  BY DEF Inv
<1>1. /\ task' \in [Callbacks -> TaskStates]
      /\ task'["score"] = [at |-> "due"] /\ task'["boot"] = Idle
      /\ \A c \in Callbacks \ {"boot", "score"} : task'[c] = task[c]
  BY <1>0, TasksTyped DEF BootClear, Scheduled, TypeOK, Callbacks
<1>2. UNCHANGED <<resumes, page, view, events, run>> /\ store' = None
  BY DEF BootClear
<1>3. TypeOK'
  BY <1>0, <1>1, <1>2 DEF TypeOK
<1>4. NamedRunsExist'
  BY <1>0, <1>1, <1>2, TasksTyped DEF NamedRunsExist, Exists
<1>5. Coherent'
  BY <1>0, <1>1, <1>2 DEF Coherent, ButtonIsBusy, PanelAgrees, ScoreIsOfTheField,
                          TypedJobIsScored, Callbacks
<1> QED  BY <1>3, <1>4, <1>5 DEF Inv

LEMMA BootVerifyKeeps == Inv /\ BootVerify => Inv'
<1> SUFFICES ASSUME Inv, BootVerify PROVE Inv'
  OBVIOUS
<1>0. TypeOK /\ NamedRunsExist /\ Coherent
  BY DEF Inv
<1>1. /\ Verified \in [Runs -> RunRows \cup {None}]
      /\ \A r \in Runs : run[r] \in RunRows => Verified[r] \in RunRows
      /\ page.run # None => Verified[page.run] \in RunRows
  BY <1>0, VerifiedRows DEF TypeOK, NamedRunsExist, Exists, Pages
<1>2. PICK t \in TaskStates : t = Asked(Verified) /\ t.at = "body"
  BY <1>0, <1>1, AskedTask DEF TypeOK
<1>3. /\ run' = Verified /\ Suspend("boot", t)
      /\ UNCHANGED <<resumes, page, view, events, store>>
  BY <1>2 DEF BootVerify
<1>4. TypeOK'
  BY <1>0, <1>1, <1>3, Suspended DEF TypeOK, Callbacks
<1>5. NamedRunsExist'
  BY <1>0, <1>1, <1>2, <1>3, NamesStay DEF Callbacks, TypeOK
<1>6. Coherent'
  BY <1>0, <1>3, CoherentStays
<1> QED  BY <1>4, <1>5, <1>6 DEF Inv

LEMMA BootShownKeeps == Inv /\ BootShown => Inv'
<1> SUFFICES ASSUME Inv, BootShown PROVE Inv'
  OBVIOUS
<1>0. TypeOK /\ NamedRunsExist /\ Coherent /\ page \in Pages /\ view \in Views
  BY DEF Inv, TypeOK
<1>1. PICK b \in Bodies \cup {None} : b = task["boot"].body
  BY <1>0, TaskFields DEF TypeOK, Callbacks, BootShown
<1>2. PICK done \in BOOLEAN : done = IF b = None THEN ~page.locked ELSE b.open
  BY <1>0 DEF Pages, Bodies
<1>3. PICK p \in Pages :
         /\ p = IF b = None THEN page ELSE BodyInPage(b)
         /\ p.run = page.run /\ p.query = page.query /\ p.scored = page.scored
  BY <1>0, BodyApplied
<1>4. PICK v \in Views :
         /\ v = IF b = None THEN view ELSE BodyInView(b, TRUE)
         /\ v.busy = view.busy /\ v.stuck = view.stuck /\ v.typed = view.typed
         /\ view.job # None => v.job = view.job
         /\ b = None => v.panel = view.panel /\ v.late = view.late
         /\ b # None => v.panel.run = b.id /\ v.late = (b.id # page.run)
  BY <1>0, BodyApplied
<1>5. PICK t \in {Idle, [at |-> "forget"]} : t = IF done THEN [at |-> "forget"] ELSE Idle
  OBVIOUS
<1>6. /\ page' = [p EXCEPT !.poll = @ /\ ~done]
      /\ view' = [v EXCEPT !.dialog = @ /\ ~done, !.gaveUp = @ \/ (b = None /\ done)]
      /\ Suspend("boot", t)
      /\ UNCHANGED <<resumes, events, run, store>>
  BY <1>1, <1>2, <1>3, <1>4, <1>5 DEF BootShown
<1>7. /\ page' \in Pages /\ page'.run = page.run /\ page'.query = page.query
      /\ page'.scored = page.scored
  <2>1. PICK poll \in BOOLEAN : poll = (p.poll /\ ~done)
    OBVIOUS
  <2>2. page' = [p EXCEPT !.poll = poll]
    BY <1>6, <2>1
  <2> QED  BY <1>3, <2>2 DEF Pages
<1>8. /\ view' \in Views /\ view'.busy = view.busy /\ view'.stuck = view.stuck
      /\ view'.typed = view.typed
      /\ view'.panel = v.panel /\ view'.late = v.late
      /\ view.job # None => view'.job = view.job
  <2>1. PICK dialog \in BOOLEAN, gaveUp \in BOOLEAN :
           dialog = (v.dialog /\ ~done) /\ gaveUp = (v.gaveUp \/ (b = None /\ done))
    OBVIOUS
  <2>2. view' = [v EXCEPT !.dialog = dialog, !.gaveUp = gaveUp]
    BY <1>6, <2>1
  <2>3. view' \in Views
    BY <2>2 DEF Views
  <2>4. /\ view'.busy = v.busy /\ view'.stuck = v.stuck /\ view'.typed = v.typed /\ view'.job = v.job
        /\ view'.panel = v.panel /\ view'.late = v.late
    BY <2>2 DEF Views
  <2> QED  BY <1>4, <2>3, <2>4
<1>9. t \in TaskStates /\ t.at \in {"idle", "forget"}
  BY <1>5, TasksTyped
<1>10. TypeOK'
  BY <1>0, <1>6, <1>7, <1>8, <1>9, Suspended DEF TypeOK, Callbacks
<1>11. NamedRunsExist'
  BY <1>0, <1>6, <1>7, <1>9, NamesStay DEF Callbacks
<1>12. Coherent'
  BY <1>0, <1>4, <1>6, <1>7, <1>8, <1>9, CoherentStays
<1> QED  BY <1>10, <1>11, <1>12 DEF Inv

LEMMA BootForgetKeeps == Inv /\ BootForget => Inv'
<1> SUFFICES ASSUME Inv, BootForget PROVE Inv'
  OBVIOUS
<1>0. TypeOK /\ NamedRunsExist /\ Coherent
  BY DEF Inv
<1>1. /\ Suspend("boot", Idle) /\ Idle \in TaskStates /\ Idle.at = "idle"
      /\ UNCHANGED <<resumes, page, view, events, run>> /\ store' = None
  BY TasksTyped DEF BootForget, Return
<1>2. TypeOK'
  BY <1>0, <1>1, Suspended DEF TypeOK, Callbacks
<1>3. NamedRunsExist'
  BY <1>0, <1>1, NamesStay DEF Callbacks, TypeOK
<1>4. Coherent'
  BY <1>0, <1>1, CoherentStays
<1> QED  BY <1>2, <1>3, <1>4 DEF Inv

--------------------------------------------------------------------------------
(* The payment timer *)

LEMMA PollAskKeeps == Inv /\ PollAsk => Inv'
<1> SUFFICES ASSUME Inv, PollAsk PROVE Inv'
  OBVIOUS
<1>0. TypeOK /\ NamedRunsExist /\ Coherent
  BY DEF Inv
<1>1. /\ Verified \in [Runs -> RunRows \cup {None}]
      /\ \A r \in Runs : run[r] \in RunRows => Verified[r] \in RunRows
      /\ page.run # None => Verified[page.run] \in RunRows
  BY <1>0, VerifiedRows DEF TypeOK, NamedRunsExist, Exists, Pages
<1>2. PICK t \in TaskStates : t = Asked(Verified) /\ t.at = "body"
  BY <1>0, <1>1, AskedTask DEF TypeOK
<1>3. /\ run' = Verified /\ Suspend("poll", t)
      /\ UNCHANGED <<resumes, page, view, events, store>>
  BY <1>2 DEF PollAsk
<1>4. TypeOK'
  BY <1>0, <1>1, <1>3, Suspended DEF TypeOK, Callbacks
<1>5. NamedRunsExist'
  BY <1>0, <1>1, <1>2, <1>3, NamesStay DEF Callbacks, TypeOK
<1>6. Coherent'
  BY <1>0, <1>3, CoherentStays
<1> QED  BY <1>4, <1>5, <1>6 DEF Inv

LEMMA PollShownKeeps == Inv /\ PollShown => Inv'
<1> SUFFICES ASSUME Inv, PollShown PROVE Inv'
  OBVIOUS
<1>0. TypeOK /\ NamedRunsExist /\ Coherent /\ page \in Pages /\ view \in Views
  BY DEF Inv, TypeOK
<1>1. PICK b \in Bodies \cup {None} : b = task["poll"].body
  BY <1>0, TaskFields DEF TypeOK, Callbacks, PollShown
<1>2. PICK t \in {Idle, Account} :
         /\ Suspend("poll", t)
         /\ t \in TaskStates /\ t.at \in {"idle", "list"}
  BY <1>0, TasksTyped DEF PollShown, Return, Account, TypeOK
<1>3. /\ page' \in Pages /\ page'.run = page.run /\ page'.query = page.query
      /\ page'.scored = page.scored
      /\ view' \in Views /\ view'.busy = view.busy /\ view'.stuck = view.stuck
      /\ view'.typed = view.typed
      /\ view.job # None => view'.job = view.job
      /\ \/ view'.panel = view.panel /\ view'.late = view.late
         \/ view'.panel.run = page.run
         \/ view'.late
  <2>1. CASE b = None
    BY <1>0, <1>1, <2>1 DEF PollShown
  <2>2. CASE b # None
    <3>1. PICK p \in Pages :
             /\ p = BodyInPage(b)
             /\ p.run = page.run /\ p.query = page.query /\ p.scored = page.scored
      BY <1>0, <2>2, BodyApplied
    <3>2. PICK v \in Views :
             /\ v = BodyInView(b, FALSE)
             /\ v.busy = view.busy /\ v.stuck = view.stuck /\ v.typed = view.typed
             /\ view.job # None => v.job = view.job
             /\ v.panel.run = b.id /\ v.late = (b.id # page.run)
      BY <1>0, <2>2, BodyApplied
    <3>3. /\ page' = [p EXCEPT !.poll = @ /\ ~b.open]
          /\ view' = [v EXCEPT !.dialog = @ /\ ~b.open]
      BY <1>1, <2>2, <3>1, <3>2 DEF PollShown
    <3>4. /\ page' \in Pages /\ page'.run = page.run /\ page'.query = page.query
          /\ page'.scored = page.scored
      BY <3>1, <3>3 DEF Pages
    <3>5. /\ view' \in Views /\ view'.busy = v.busy /\ view'.stuck = v.stuck /\ view'.typed = v.typed
          /\ view'.job = v.job /\ view'.panel = v.panel /\ view'.late = v.late
      BY <3>2, <3>3 DEF Views
    <3> QED  BY <3>2, <3>4, <3>5
  <2> QED  BY <2>1, <2>2
<1>4. UNCHANGED <<resumes, events, run, store>>
  BY DEF PollShown
<1>5. TypeOK'
  BY <1>0, <1>2, <1>3, <1>4, Suspended DEF TypeOK, Callbacks
<1>6. NamedRunsExist'
  BY <1>0, <1>2, <1>3, <1>4, NamesStay DEF Callbacks
<1>7. Coherent'
  BY <1>0, <1>2, <1>3, CoherentStays
<1> QED  BY <1>5, <1>6, <1>7 DEF Inv

LEMMA PollListedKeeps == Inv /\ PollListed => Inv'
<1> SUFFICES ASSUME Inv, PollListed PROVE Inv'
  OBVIOUS
<1>0. TypeOK /\ NamedRunsExist /\ Coherent /\ page \in Pages
  BY DEF Inv, TypeOK
<1>1. task["poll"].n \in 0 .. MaxResumes
  BY <1>0, TaskFields DEF TypeOK, Callbacks, PollListed
<1>2. /\ page' \in Pages /\ page'.run = page.run /\ page'.query = page.query
      /\ page'.scored = page.scored
  BY <1>0, <1>1, ListedPage DEF PollListed
<1>3. PICK t \in TaskStates : t = [at |-> "forget"]
  BY TasksTyped
<1>4. Suspend("poll", t) /\ UNCHANGED <<resumes, view, events, run, store>>
  BY <1>3 DEF PollListed
<1>5. TypeOK'
  BY <1>0, <1>2, <1>4, Suspended DEF TypeOK, Callbacks
<1>6. NamedRunsExist'
  BY <1>0, <1>2, <1>3, <1>4, NamesStay DEF Callbacks
<1>7. Coherent'
  BY <1>0, <1>2, <1>4, CoherentStays
<1> QED  BY <1>5, <1>6, <1>7 DEF Inv

LEMMA PollForgetKeeps == Inv /\ PollForget => Inv'
<1> SUFFICES ASSUME Inv, PollForget PROVE Inv'
  OBVIOUS
<1>0. TypeOK /\ NamedRunsExist /\ Coherent
  BY DEF Inv
<1>1. /\ Suspend("poll", Idle) /\ Idle \in TaskStates /\ Idle.at = "idle"
      /\ UNCHANGED <<resumes, page, view, events, run>> /\ store' = None
  BY TasksTyped DEF PollForget, Return
<1>2. TypeOK'
  BY <1>0, <1>1, Suspended DEF TypeOK, Callbacks
<1>3. NamedRunsExist'
  BY <1>0, <1>1, NamesStay DEF Callbacks, TypeOK
<1>4. Coherent'
  BY <1>0, <1>1, CoherentStays
<1> QED  BY <1>2, <1>3, <1>4 DEF Inv

--------------------------------------------------------------------------------
(* Tailoring *)

\* The button starts loading and the panel is emptied.
LEMMA StartKeeps ==
    ASSUME Inv, NEW resume \in Resumes, NEW job \in Jobs, Start(resume, job),
           page' \in Pages, page'.run = page.run, page'.query = page.query,
           page'.scored = page.scored,
           UNCHANGED <<resumes, run, store>>, events' \in 0 .. MaxEvents
    PROVE  Inv'
<1>0. TypeOK /\ NamedRunsExist /\ Coherent /\ view \in Views
  BY DEF Inv, TypeOK
<1>1. PICK t \in TaskStates : t = [at |-> "create", resume |-> resume, job |-> job]
  BY TasksTyped
<1>2. t.at = "create" /\ Suspend("tailor", t)
  BY <1>1 DEF Start
<1>3. /\ task' \in [Callbacks -> TaskStates] /\ task'["tailor"] = t
      /\ \A c \in Callbacks \ {"tailor"} : task'[c] = task[c]
  BY <1>0, <1>2, Suspended DEF Callbacks
<1>4. /\ view' \in Views /\ view'.busy = TRUE /\ view'.panel.run = None
      /\ view'.job = view.job /\ view'.typed = view.typed
  <2>1. NoPanel("loading") \in Panels /\ NoPanel("loading").run = None
    BY DEF NoPanel, Panels
  <2> QED  BY <1>0, <2>1 DEF Start, Views
<1>5. TypeOK'
  BY <1>0, <1>3, <1>4 DEF TypeOK
<1>6. NamedRunsExist'
  BY <1>0, <1>2, NamesStay DEF Callbacks
<1>7. Coherent'
  BY <1>0, <1>2, <1>3, <1>4 DEF Coherent, ButtonIsBusy, PanelAgrees, ScoreIsOfTheField,
                                TypedJobIsScored, Callbacks
<1> QED  BY <1>5, <1>6, <1>7 DEF Inv

\* The tailoring callback holds the button while it has a run to start or to
\* watch, and the panel may show another run than the page's only until it asks
\* for the page's.
LEMMA TailorCoherent ==
    ASSUME TypeOK, Coherent, NEW t \in TaskStates, Suspend("tailor", t),
           view'.typed = view.typed, page'.scored = page.scored,
           view.job # None => view'.job = view.job,
           t.at \in {"create", "save", "watch"} => view'.busy,
           view'.busy => t.at \in {"create", "save", "watch"} \/ view'.stuck,
           \/ view'.panel.run \in {None, page'.run}
           \/ view'.late
           \/ t.at \in {"save", "watch"} /\ page'.run # None
           \/ t.at = "body"
           \/ /\ view'.panel = view.panel /\ view'.late = view.late /\ page'.run = page.run
              /\ ~(task["tailor"].at \in {"save", "watch"} /\ page.run # None)
              /\ task["tailor"].at # "body"
    PROVE  Coherent'
<1>1. /\ task'["tailor"] = t
      /\ \A c \in Callbacks \ {"tailor"} : task'[c] = task[c]
  BY Suspended DEF Callbacks
<1>2. ButtonIsBusy'
  BY <1>1 DEF ButtonIsBusy
<1>3. PanelAgrees'
  BY <1>1 DEF Coherent, PanelAgrees, Callbacks
<1>4. ScoreIsOfTheField' /\ TypedJobIsScored'
  BY <1>1 DEF Coherent, ScoreIsOfTheField, TypedJobIsScored, Callbacks
<1> QED  BY <1>2, <1>3, <1>4 DEF Coherent

LEMMA TailorKeeps == Inv /\ Tailor => Inv'
<1> SUFFICES ASSUME Inv, Tailor PROVE Inv'
  OBVIOUS
<1>0. TypeOK /\ NamedRunsExist /\ Coherent /\ page \in Pages /\ view \in Views
  BY DEF Inv, TypeOK
<1>1. /\ view.job \in Jobs /\ task["tailor"] = Idle
      /\ events' \in 0 .. MaxEvents /\ UNCHANGED <<resumes, page, run, store>>
  BY <1>0, PageInputsAssumption DEF Tailor, Event, Views, TypeOK
<1>2. CASE page.resume # 0 /\ Start(page.resume, view.job)
  <2>1. page.resume \in Resumes
    BY <1>0, <1>2 DEF Pages
  <2> QED  BY <1>0, <1>1, <1>2, <2>1, StartKeeps
<1>3. CASE Suspend("tailor", [at |-> "resume", n |-> resumes, job |-> view.job]) /\ UNCHANGED view
  <2>1. PICK t \in TaskStates :
           t = [at |-> "resume", n |-> resumes, job |-> view.job] /\ t.at = "resume"
    BY <1>0, <1>1, TasksTyped DEF TypeOK
  <2>2. Suspend("tailor", t)
    BY <1>3, <2>1
  <2>3. TypeOK'
    BY <1>0, <1>1, <1>3, <2>2, Suspended DEF TypeOK, Callbacks
  <2>4. NamedRunsExist'
    BY <1>0, <1>1, <2>1, <2>2, NamesStay DEF Callbacks
  <2>5. Coherent'
    <3>1. ~view.busy /\ task["tailor"].at = "idle"
      BY <1>1, TasksTyped DEF Tailor
    <3>2. /\ t.at \in {"create", "save", "watch"} => view'.busy
          /\ view'.busy => t.at \in {"create", "save", "watch"} \/ view'.stuck
      BY <1>3, <2>1, <3>1
    <3> QED  BY <1>0, <1>1, <1>3, <2>1, <2>2, <3>1, <3>2, TailorCoherent
  <2> QED  BY <2>3, <2>4, <2>5 DEF Inv
<1> QED  BY <1>2, <1>3 DEF Tailor

LEMMA TailorResumeKeeps == Inv /\ TailorResume => Inv'
<1> SUFFICES ASSUME Inv, TailorResume PROVE Inv'
  OBVIOUS
<1>0. TypeOK /\ NamedRunsExist /\ Coherent /\ page \in Pages /\ view \in Views
  BY DEF Inv, TypeOK
<1>1. PICK t \in TaskStates : t = task["tailor"] /\ t.at = "resume"
  BY <1>0 DEF TypeOK, Callbacks, TailorResume
<1>2. t.n \in 0 .. MaxResumes /\ t.job \in Jobs
  BY <1>1, TaskFields
<1>3. PICK p \in Pages :
         /\ p = Listed(page, t.n)
         /\ p.run = page.run /\ p.query = page.query /\ p.scored = page.scored
  BY <1>0, <1>2, ListedPage
<1>4. /\ page' = p /\ UNCHANGED <<resumes, events, run, store>>
      /\ \/ p.resume # 0 /\ Start(p.resume, t.job)
         \/ p.resume = 0 /\ Return("tailor") /\ UNCHANGED view
  BY <1>1, <1>3 DEF TailorResume
<1>5. CASE p.resume # 0 /\ Start(p.resume, t.job)
  <2>1. p.resume \in Resumes /\ events' \in 0 .. MaxEvents
    BY <1>0, <1>4, <1>5 DEF Pages, TypeOK
  <2> QED  BY <1>2, <1>3, <1>4, <1>5, <2>1, StartKeeps
<1>6. CASE Return("tailor") /\ UNCHANGED view
  <2>1. Suspend("tailor", Idle) /\ Idle \in TaskStates /\ Idle.at = "idle"
    BY <1>6, TasksTyped DEF Return
  <2>2. TypeOK'
    BY <1>0, <1>3, <1>4, <1>6, <2>1, Suspended DEF TypeOK, Callbacks
  <2>3. NamedRunsExist'
    BY <1>0, <1>3, <1>4, <2>1, NamesStay DEF Callbacks
  <2>4. Coherent'
    <3>1. /\ Idle.at \in {"create", "save", "watch"} => view'.busy
          /\ view'.busy => Idle.at \in {"create", "save", "watch"} \/ view'.stuck
      BY <1>0, <1>1, <1>6, <2>1 DEF Coherent, ButtonIsBusy
    <3> QED  BY <1>0, <1>1, <1>3, <1>4, <1>6, <2>1, <3>1, TailorCoherent
  <2> QED  BY <2>2, <2>3, <2>4 DEF Inv
<1> QED  BY <1>4, <1>5, <1>6

LEMMA TailorCreateKeeps == Inv /\ TailorCreate => Inv'
<1> SUFFICES ASSUME Inv, TailorCreate PROVE Inv'
  OBVIOUS
<1>0. TypeOK /\ NamedRunsExist /\ Coherent /\ page \in Pages /\ view \in Views
  BY DEF Inv, TypeOK
<1>1. PICK t \in TaskStates : t = task["tailor"] /\ t.at = "create"
  BY <1>0 DEF TypeOK, Callbacks, TailorCreate
<1>2. t.resume \in Resumes /\ t.job \in Jobs
  BY <1>1, TaskFields
<1>3. PICK r \in Runs : r = (CHOOSE new \in Runs : run[new] = None)
  BY DEF TailorCreate
<1>4. PICK free \in BOOLEAN :
         run' = [run EXCEPT ![r] = [status |-> "running", executor |-> "unstarted",
                                    open |-> free, paid |-> {},
                                    resume |-> t.resume, job |-> t.job]]
  BY <1>1, <1>3 DEF TailorCreate
<1>5. PICK row \in RunRows :
         row = [status |-> "running", executor |-> "unstarted", open |-> free, paid |-> {},
                resume |-> t.resume, job |-> t.job]
  BY <1>2 DEF RunRows
<1>6. /\ run' = [run EXCEPT ![r] = row]
      /\ run' \in [Runs -> RunRows \cup {None}]
      /\ \A q \in Runs : run[q] \in RunRows => run'[q] \in RunRows
      /\ run'[r] \in RunRows
  BY <1>0, <1>4, <1>5 DEF TypeOK
<1>7. PICK u \in TaskStates : u = [at |-> "save", run |-> r] /\ u.at = "save" /\ u.run = r
  BY TasksTyped
<1>8. /\ page' = [page EXCEPT !.run = r, !.jd = t.job]
      /\ Suspend("tailor", u)
      /\ UNCHANGED <<resumes, view, events, store>>
  BY <1>1, <1>3, <1>7 DEF TailorCreate
<1>9. /\ page' \in Pages /\ page'.run = r /\ page'.query = page.query
      /\ page'.scored = page.scored
  BY <1>0, <1>2, <1>8 DEF Pages
<1>10. TypeOK'
  BY <1>0, <1>6, <1>8, <1>9, Suspended DEF TypeOK, Callbacks
<1>11. NamedRunsExist'
  BY <1>0, <1>6, <1>7, <1>8, <1>9, NamesStay DEF Callbacks, Exists
<1>12. Coherent'
  <2>1. view.busy
    BY <1>0, <1>1 DEF Coherent, ButtonIsBusy
  <2>2. r # None
    BY PageInputsAssumption
  <2> QED  BY <1>0, <1>7, <1>8, <1>9, <2>1, <2>2, TailorCoherent
<1> QED  BY <1>10, <1>11, <1>12 DEF Inv

LEMMA ErrorShown ==
    ASSUME view \in Views
    PROVE  /\ ShowError \in Views /\ ShowError.panel.run = None
           /\ ShowError.job = view.job /\ ShowError.typed = view.typed
           /\ ShowError.busy = FALSE
<1>1. NoPanel("error") \in Panels /\ NoPanel("error").run = None
  BY DEF NoPanel, Panels
<1> QED  BY <1>1 DEF ShowError, Views

\* The launch was refused or the run failed: the error is all the panel shows.
LEMMA TailorFails ==
    ASSUME Inv, view' = ShowError, Return("tailor"),
           UNCHANGED <<resumes, page, events, run, store>>
    PROVE  Inv'
<1>0. TypeOK /\ NamedRunsExist /\ Coherent /\ page \in Pages /\ view \in Views
  BY DEF Inv, TypeOK
<1>1. Suspend("tailor", Idle) /\ Idle \in TaskStates /\ Idle.at = "idle"
  BY TasksTyped DEF Return
<1>2. /\ view' \in Views /\ view'.panel.run = None
      /\ view'.job = view.job /\ view'.typed = view.typed
      /\ view'.busy = FALSE
  BY <1>0, ErrorShown
<1>3. TypeOK'
  BY <1>0, <1>1, <1>2, Suspended DEF TypeOK, Callbacks
<1>4. NamedRunsExist'
  BY <1>0, <1>1, NamesStay DEF Callbacks
<1>5. Coherent'
  <2>1. /\ Idle.at \in {"create", "save", "watch"} => view'.busy
        /\ view'.busy => Idle.at \in {"create", "save", "watch"} \/ view'.stuck
    BY <1>1, <1>2
  <2> QED  BY <1>0, <1>1, <1>2, <2>1, TailorCoherent
<1> QED  BY <1>3, <1>4, <1>5 DEF Inv

LEMMA TailorRefusedKeeps == Inv /\ TailorRefused => Inv'
  BY TailorFails DEF TailorRefused

LEMMA TailorSaveKeeps == Inv /\ TailorSave => Inv'
<1> SUFFICES ASSUME Inv, TailorSave PROVE Inv'
  OBVIOUS
<1>0. TypeOK /\ NamedRunsExist /\ Coherent /\ page \in Pages /\ view \in Views
  BY DEF Inv, TypeOK
<1>1. task["tailor"] \in TaskStates /\ task["tailor"].at = "save"
  BY <1>0 DEF TypeOK, Callbacks, TailorSave
<1>2. PICK r \in Runs : r = task["tailor"].run
  BY <1>1, TaskFields
<1>3. run[r] \in RunRows
  BY <1>0, <1>1, <1>2 DEF NamedRunsExist, Exists, Callbacks
<1>4. PICK t \in TaskStates : t = [at |-> "watch", run |-> r] /\ t.at = "watch" /\ t.run = r
  BY TasksTyped
<1>5. /\ store' = Kept(r) /\ run' = Started(run, r)
      /\ Suspend("tailor", t)
      /\ UNCHANGED <<resumes, page, view, events>>
  BY <1>2, <1>4 DEF TailorSave
<1>6. /\ store' \in [run : Runs, resume : Resumes \cup {0}, job : Jobs \cup {None}]
      /\ store'.run = r
      /\ run' \in [Runs -> RunRows \cup {None}] /\ run'[r] \in RunRows
      /\ \A q \in Runs : run[q] \in RunRows => run'[q] \in RunRows
  BY <1>0, <1>3, <1>5, KeptWorkflow, StartedRows DEF TypeOK
<1>7. TypeOK'
  BY <1>0, <1>5, <1>6, Suspended DEF TypeOK, Callbacks
<1>8. NamedRunsExist'
  BY <1>0, <1>4, <1>5, <1>6, NamesStay DEF Callbacks, Exists
<1>9. Coherent'
  <2>1. view.busy
    BY <1>0, <1>1 DEF Coherent, ButtonIsBusy
  <2> QED  BY <1>0, <1>1, <1>4, <1>5, <2>1, TailorCoherent
<1> QED  BY <1>7, <1>8, <1>9 DEF Inv

LEMMA TailorWatchedKeeps == Inv /\ TailorWatched => Inv'
<1> SUFFICES ASSUME Inv, TailorWatched PROVE Inv'
  OBVIOUS
<1>0. TypeOK /\ NamedRunsExist /\ Coherent /\ page \in Pages /\ view \in Views
  BY DEF Inv, TypeOK
<1>1. UNCHANGED <<resumes, page, events, run, store>> /\ task["tailor"].at = "watch"
  BY DEF TailorWatched
<1>2. CASE view' = ShowError /\ Return("tailor")
  BY <1>1, <1>2, TailorFails
<1>3. CASE view' = [view EXCEPT !.busy = FALSE] /\ Suspend("tailor", Asked(run))
  <2>1. page.run # None => run[page.run] \in RunRows
    BY <1>0 DEF NamedRunsExist, Exists
  <2>2. PICK t \in TaskStates :
           t = Asked(run) /\ t.at = "body"
    BY <1>0, <2>1, AskedTask DEF TypeOK
  <2>3. /\ view' \in Views /\ view'.panel = view.panel /\ view'.late = view.late
        /\ view'.job = view.job /\ view'.typed = view.typed /\ ~view'.busy
    BY <1>0, <1>3 DEF Views
  <2>4. Suspend("tailor", t)
    BY <1>3, <2>2
  <2>5. TypeOK'
    BY <1>0, <1>1, <2>3, <2>4, Suspended DEF TypeOK, Callbacks
  <2>6. NamedRunsExist'
    BY <1>0, <1>1, <2>2, <2>4, NamesStay DEF Callbacks
  <2>7. Coherent'
    BY <1>0, <1>1, <2>2, <2>3, <2>4, TailorCoherent
  <2> QED  BY <2>5, <2>6, <2>7 DEF Inv
<1> QED  BY <1>2, <1>3 DEF TailorWatched

LEMMA TailorShownKeeps == Inv /\ TailorShown => Inv'
<1> SUFFICES ASSUME Inv, TailorShown PROVE Inv'
  OBVIOUS
<1>0. TypeOK /\ NamedRunsExist /\ Coherent /\ page \in Pages /\ view \in Views
  BY DEF Inv, TypeOK
<1>1. PICK b \in Bodies \cup {None} : b = task["tailor"].body
  BY <1>0, TaskFields DEF TypeOK, Callbacks, TailorShown
<1>2. /\ page' = IF b = None THEN page ELSE BodyInPage(b)
      /\ view' = IF b = None THEN [view EXCEPT !.late = TRUE] ELSE BodyInView(b, TRUE)
      /\ Suspend("tailor", Account) /\ task["tailor"].at = "body"
      /\ UNCHANGED <<resumes, events, run, store>>
  BY <1>1 DEF TailorShown
<1>3. /\ page' \in Pages /\ page'.run = page.run /\ page'.query = page.query
      /\ page'.scored = page.scored
  BY <1>0, <1>2, BodyApplied
<1>4. /\ view' \in Views /\ view'.busy = view.busy /\ view'.stuck = view.stuck
      /\ view'.typed = view.typed
      /\ view.job # None => view'.job = view.job
      /\ b = None => view'.late
      /\ b # None => view'.panel.run = b.id /\ view'.late = (b.id # page.run)
  <2>1. CASE b = None
    BY <1>0, <1>2, <2>1 DEF Views
  <2>2. CASE b # None
    BY <1>0, <1>2, <2>2, BodyApplied
  <2> QED  BY <2>1, <2>2
<1>5. Account \in TaskStates /\ Account.at = "list"
  BY <1>0, TasksTyped DEF Account, TypeOK
<1>6. TypeOK'
  BY <1>0, <1>2, <1>3, <1>4, <1>5, Suspended DEF TypeOK, Callbacks
<1>7. NamedRunsExist'
  BY <1>0, <1>2, <1>3, <1>5, NamesStay DEF Callbacks
<1>8. Coherent'
  <2>1. /\ Account.at \in {"create", "save", "watch"} => view'.busy
        /\ view'.busy => Account.at \in {"create", "save", "watch"} \/ view'.stuck
    BY <1>0, <1>2, <1>4, <1>5 DEF Coherent, ButtonIsBusy
  <2> QED  BY <1>0, <1>1, <1>2, <1>3, <1>4, <1>5, <2>1, TailorCoherent
<1> QED  BY <1>6, <1>7, <1>8 DEF Inv

LEMMA TailorListedKeeps == Inv /\ TailorListed => Inv'
<1> SUFFICES ASSUME Inv, TailorListed PROVE Inv'
  OBVIOUS
<1>0. TypeOK /\ NamedRunsExist /\ Coherent /\ page \in Pages
  BY DEF Inv, TypeOK
<1>1. task["tailor"].n \in 0 .. MaxResumes
  BY <1>0, TaskFields DEF TypeOK, Callbacks, TailorListed
<1>2. /\ page' \in Pages /\ page'.run = page.run /\ page'.query = page.query
      /\ page'.scored = page.scored
  BY <1>0, <1>1, ListedPage DEF TailorListed
<1>3. /\ Suspend("tailor", Idle) /\ Idle \in TaskStates /\ Idle.at = "idle"
      /\ task["tailor"].at = "list" /\ UNCHANGED <<resumes, view, events, run, store>>
  BY TasksTyped DEF TailorListed, Return
<1>4. TypeOK'
  BY <1>0, <1>2, <1>3, Suspended DEF TypeOK, Callbacks
<1>5. NamedRunsExist'
  BY <1>0, <1>2, <1>3, NamesStay DEF Callbacks
<1>6. Coherent'
  <2>1. /\ Idle.at \in {"create", "save", "watch"} => view'.busy
        /\ view'.busy => Idle.at \in {"create", "save", "watch"} \/ view'.stuck
    BY <1>0, <1>3 DEF Coherent, ButtonIsBusy
  <2> QED  BY <1>0, <1>2, <1>3, <2>1, TailorCoherent
<1> QED  BY <1>4, <1>5, <1>6 DEF Inv

--------------------------------------------------------------------------------
(* A Generate button *)

LEMMA GenerateKeeps == Inv /\ Generate => Inv'
<1> SUFFICES ASSUME Inv, Generate PROVE Inv'
  OBVIOUS
<1>0. TypeOK /\ NamedRunsExist /\ Coherent /\ page \in Pages
  BY DEF Inv, TypeOK
<1>1. page.run \in Runs /\ Exists(page.run)
  BY <1>0 DEF Generate, Pages, NamedRunsExist
<1>2. PICK t \in TaskStates : t = [at |-> "post", run |-> page.run] /\ t.run = page.run
  BY <1>1, TasksTyped
<1>3. /\ Suspend("generate", t) /\ events' \in 0 .. MaxEvents
      /\ UNCHANGED <<resumes, page, view, run, store>>
  BY <1>0, <1>2, PageInputsAssumption DEF Generate, Event, TypeOK
<1>4. TypeOK'
  BY <1>0, <1>3, Suspended DEF TypeOK, Callbacks
<1>5. NamedRunsExist'
  BY <1>0, <1>1, <1>2, <1>3, NamesStay DEF Callbacks, Exists
<1>6. Coherent'
  BY <1>0, <1>3, CoherentStays
<1> QED  BY <1>4, <1>5, <1>6 DEF Inv

LEMMA GeneratedKeeps == Inv /\ Generated => Inv'
<1> SUFFICES ASSUME Inv, Generated PROVE Inv'
  OBVIOUS
<1>0. TypeOK /\ NamedRunsExist /\ Coherent /\ page \in Pages
  BY DEF Inv, TypeOK
<1>1. page.run # None => run[page.run] \in RunRows
  BY <1>0 DEF NamedRunsExist, Exists
<1>2. PICK t \in TaskStates : Suspend("generate", t) /\ t.at \in {"idle", "body"}
  BY <1>0, <1>1, AskedTask, TasksTyped DEF Generated, Return, TypeOK
<1>3. UNCHANGED <<resumes, page, view, events, run, store>>
  BY DEF Generated
<1>4. TypeOK'
  BY <1>0, <1>2, <1>3, Suspended DEF TypeOK, Callbacks
<1>5. NamedRunsExist'
  BY <1>0, <1>2, <1>3, NamesStay DEF Callbacks
<1>6. Coherent'
  BY <1>0, <1>2, <1>3, CoherentStays
<1> QED  BY <1>4, <1>5, <1>6 DEF Inv

LEMMA GenerateShownKeeps == Inv /\ GenerateShown => Inv'
<1> SUFFICES ASSUME Inv, GenerateShown PROVE Inv'
  OBVIOUS
<1>0. TypeOK /\ NamedRunsExist /\ Coherent /\ page \in Pages /\ view \in Views
  BY DEF Inv, TypeOK
<1>1. PICK b \in Bodies \cup {None} : b = task["generate"].body
  BY <1>0, TaskFields DEF TypeOK, Callbacks, GenerateShown
<1>2. /\ page' = IF b = None THEN page ELSE BodyInPage(b)
      /\ view' = IF b = None THEN view ELSE BodyInView(b, FALSE)
      /\ Suspend("generate", Idle) /\ Idle \in TaskStates /\ Idle.at = "idle"
      /\ UNCHANGED <<resumes, events, run, store>>
  BY <1>1, TasksTyped DEF GenerateShown, Return
<1>3. /\ page' \in Pages /\ page'.run = page.run /\ page'.query = page.query
      /\ page'.scored = page.scored
  BY <1>0, <1>2, BodyApplied
<1>4. /\ view' \in Views /\ view'.busy = view.busy /\ view'.stuck = view.stuck
      /\ view'.typed = view.typed
      /\ view.job # None => view'.job = view.job
      /\ b = None => view'.panel = view.panel /\ view'.late = view.late
      /\ b # None => view'.panel.run = b.id /\ view'.late = (b.id # page.run)
  BY <1>0, <1>2, BodyApplied
<1>5. TypeOK'
  BY <1>0, <1>2, <1>3, <1>4, Suspended DEF TypeOK, Callbacks
<1>6. NamedRunsExist'
  BY <1>0, <1>2, <1>3, NamesStay DEF Callbacks
<1>7. Coherent'
  BY <1>0, <1>2, <1>3, <1>4, CoherentStays
<1> QED  BY <1>5, <1>6, <1>7 DEF Inv

--------------------------------------------------------------------------------
(* The paywall, and the loads of the page *)

LEMMA PayKeeps == ASSUME NEW kind \in {"stripe", "crypto"} PROVE Inv /\ Pay(kind) => Inv'
<1> SUFFICES ASSUME Inv, Pay(kind) PROVE Inv'
  OBVIOUS
<1>0. TypeOK /\ NamedRunsExist /\ Coherent /\ page \in Pages /\ view \in Views
  BY DEF Inv, TypeOK
<1>1. page.run \in Runs /\ run[page.run] \in RunRows
  BY <1>0 DEF Pay, Pages, NamedRunsExist, Exists
<1>2. PICK t \in TaskStates : t = [at |-> kind, run |-> page.run] /\ t.run = page.run
  BY <1>1, TasksTyped
<1>3. /\ Suspend("pay", t) /\ events' \in 0 .. MaxEvents
      /\ UNCHANGED <<resumes, page, view, run>>
  BY <1>0, <1>2, PageInputsAssumption DEF Pay, Event, TypeOK
<1>4. \/ store' = store
      \/ /\ store' \in [run : Runs, resume : Resumes \cup {0}, job : Jobs \cup {None}]
         /\ store'.run = page.run
  <2>1. /\ page.resume \in Resumes \cup {0} /\ view.job \in Jobs \cup {None}
        /\ \/ store' = store
           \/ store' = [run |-> page.run, resume |-> page.resume, job |-> view.job]
    BY <1>0 DEF Pay, Pages, Views
  <2> QED  BY <1>1, <2>1
<1>5. TypeOK'
  BY <1>0, <1>3, <1>4, Suspended DEF TypeOK, Callbacks
<1>6. NamedRunsExist'
  BY <1>0, <1>1, <1>2, <1>3, <1>4, NamesStay DEF Callbacks, Exists
<1>7. Coherent'
  BY <1>0, <1>3, CoherentStays
<1> QED  BY <1>5, <1>6, <1>7 DEF Inv

LEMMA PayAnsweredKeeps == Inv /\ PayAnswered => Inv'
<1> SUFFICES ASSUME Inv, PayAnswered PROVE Inv'
  OBVIOUS
<1>0. TypeOK /\ NamedRunsExist /\ Coherent /\ page \in Pages
  BY DEF Inv, TypeOK
<1>1. PICK p \in TaskStates : p = task["pay"] /\ p.at \in {"stripe", "crypto"}
  BY <1>0 DEF TypeOK, Callbacks, PayAnswered
<1>2. PICK r \in Runs : r = p.run
  BY <1>1, TaskFields
<1>3. run[r] \in RunRows
  BY <1>0, <1>1, <1>2 DEF NamedRunsExist, Exists, Callbacks
<1>4. UNCHANGED <<resumes, view, events, store>>
  BY DEF PayAnswered
<1>5. CASE /\ run' = [run EXCEPT ![r].paid =
                         IF p.at = "crypto" THEN @ \cup {"invoice"} ELSE @]
           /\ page' = [page EXCEPT !.poll = TRUE]
           /\ Suspend("pay", IF p.at = "stripe" THEN [at |-> "away", run |-> r] ELSE Idle)
  <2>1. PICK paid \in SUBSET {"checkout", "settled", "invoice"} :
           paid = IF p.at = "crypto" THEN run[r].paid \cup {"invoice"} ELSE run[r].paid
    BY <1>3 DEF RunRows
  <2>2. PICK row \in RunRows : row = [run[r] EXCEPT !.paid = paid]
    BY <1>3 DEF RunRows
  <2>3. run' = [run EXCEPT ![r] = row]
    BY <1>0, <1>5, <2>1, <2>2 DEF TypeOK
  <2>4. /\ run' \in [Runs -> RunRows \cup {None}]
        /\ \A q \in Runs : run[q] \in RunRows => run'[q] \in RunRows
    BY <1>0, <2>3 DEF TypeOK
  <2>5. PICK t \in TaskStates : /\ Suspend("pay", t)
                                /\ t.at = "idle" \/ t.run = r
    BY <1>5, TasksTyped
  <2>6. /\ page' \in Pages /\ page'.run = page.run /\ page'.query = page.query
        /\ page'.scored = page.scored
    BY <1>0, <1>5 DEF Pages
  <2>7. TypeOK'
    BY <1>0, <1>4, <2>4, <2>5, <2>6, Suspended DEF TypeOK, Callbacks
  <2>8. run'[r] \in RunRows
    BY <1>3, <2>4
  <2>9. NamedRunsExist'
    BY <1>0, <1>4, <2>4, <2>5, <2>6, <2>8, NamesStay DEF Callbacks, Exists
  <2>10. Coherent'
    BY <1>0, <1>4, <2>5, <2>6, CoherentStays
  <2> QED  BY <2>7, <2>9, <2>10 DEF Inv
<1>6. CASE Return("pay") /\ UNCHANGED <<page, run>>
  <2>1. Suspend("pay", Idle) /\ Idle \in TaskStates /\ Idle.at = "idle"
    BY <1>6, TasksTyped DEF Return
  <2>2. TypeOK'
    BY <1>0, <1>4, <1>6, <2>1, Suspended DEF TypeOK, Callbacks
  <2>3. NamedRunsExist'
    BY <1>0, <1>4, <1>6, <2>1, NamesStay DEF Callbacks
  <2>4. Coherent'
    BY <1>0, <1>4, <1>6, <2>1, CoherentStays
  <2> QED  BY <2>2, <2>3, <2>4 DEF Inv
<1> QED  BY <1>1, <1>2, <1>5, <1>6 DEF PayAnswered

\* A fresh page and fresh callbacks: only the bootstrap runs, and it names nothing.
LEMMA FreshLoad ==
    /\ FreshTasks \in [Callbacks -> TaskStates] /\ FreshTasks["score"].at = "idle"
    /\ \A c \in Callbacks : FreshTasks[c].at \in {"start", "idle"}
    /\ FreshView \in Views /\ FreshView.panel.run = None
    /\ FreshView.typed = FALSE /\ FreshView.busy = FALSE
<1>1. /\ FreshTasks \in [Callbacks -> TaskStates] /\ FreshTasks["score"].at = "idle"
      /\ \A c \in Callbacks : FreshTasks[c].at \in {"start", "idle"}
  BY TasksTyped DEF FreshTasks, Callbacks
<1>2. NoPanel("empty") \in Panels /\ NoPanel("empty").run = None
  BY DEF NoPanel, Panels
<1> QED  BY <1>1, <1>2 DEF FreshView, Views

LEMMA LoadKeeps ==
    ASSUME Inv, NEW r \in Runs \cup {None}, NEW rows \in [Runs -> RunRows \cup {None}],
           r # None => Exists(r),
           \A q \in Runs : run[q] \in RunRows => rows[q] \in RunRows,
           Load(r, rows), events' \in 0 .. MaxEvents
    PROVE  Inv'
<1>0. TypeOK /\ NamedRunsExist /\ Coherent
  BY DEF Inv
<1>1. /\ page' = FreshPage(r) /\ view' = FreshView /\ task' = FreshTasks
      /\ UNCHANGED <<resumes, store>>
  BY DEF Load
<1>2. ResumeOf(r) \in Resumes \cup {0}
  BY DEF ResumeOf, Exists, RunRows
<1>3. /\ page' \in Pages /\ page'.run = r /\ page'.query = r
  BY <1>1, <1>2 DEF FreshPage, Pages
<1>4. /\ run' \in [Runs -> RunRows \cup {None}]
      /\ \A q \in Runs : run[q] \in RunRows => run'[q] \in RunRows
  <2>1. CASE run' = rows
    BY <2>1
  <2>2. CASE task["tailor"].at = "save" /\ run' = Started(rows, task["tailor"].run)
    <3>1. PICK q \in Runs : q = task["tailor"].run
      BY <1>0, <2>2, TaskFields DEF TypeOK, Callbacks
    <3>2. rows[q] \in RunRows
      BY <1>0, <2>2, <3>1 DEF NamedRunsExist, Exists, Callbacks
    <3> QED  BY <2>2, <3>1, <3>2, StartedRows
  <2> QED  BY <2>1, <2>2 DEF Load
<1>5. TypeOK'
  BY <1>0, <1>1, <1>3, <1>4, FreshLoad DEF TypeOK
<1>6. NamedRunsExist'
  <2>1. r # None => run'[r] \in RunRows
    BY <1>4 DEF Exists
  <2>2. store # None => run'[store.run] \in RunRows
    BY <1>0, <1>4 DEF TypeOK, NamedRunsExist, Exists
  <2> QED  BY <1>1, <1>3, <2>1, <2>2, FreshLoad DEF NamedRunsExist, Exists
<1>7. Coherent'
  BY <1>1, <1>3, FreshLoad DEF Coherent, ButtonIsBusy, PanelAgrees, ScoreIsOfTheField,
                               TypedJobIsScored, Callbacks
<1> QED  BY <1>5, <1>6, <1>7 DEF Inv

LEMMA ReturnPaidKeeps == Inv /\ ReturnPaid => Inv'
<1> SUFFICES ASSUME Inv, ReturnPaid PROVE Inv'
  OBVIOUS
<1>0. TypeOK /\ NamedRunsExist
  BY DEF Inv
<1>1. task["pay"] \in TaskStates /\ task["pay"].at = "away"
  BY <1>0 DEF TypeOK, Callbacks, ReturnPaid
<1>2. PICK r \in Runs : r = task["pay"].run
  BY <1>1, TaskFields
<1>3. run[r] \in RunRows
  BY <1>0, <1>1, <1>2 DEF NamedRunsExist, Exists, Callbacks
<1>4. PICK row \in RunRows : row = [run[r] EXCEPT !.paid = @ \cup {"checkout"}]
  BY <1>3 DEF RunRows
<1>5. PICK rows \in [Runs -> RunRows \cup {None}] : rows = [run EXCEPT ![r] = row]
  BY <1>0 DEF TypeOK
<1>6. rows = [run EXCEPT ![r].paid = @ \cup {"checkout"}]
  BY <1>0, <1>4, <1>5 DEF TypeOK
<1>7. \A q \in Runs : run[q] \in RunRows => rows[q] \in RunRows
  BY <1>0, <1>5 DEF TypeOK
<1>8. Load(r, rows) /\ events' \in 0 .. MaxEvents
  BY <1>0, <1>2, <1>6 DEF ReturnPaid, TypeOK
<1> QED  BY <1>3, <1>7, <1>8, LoadKeeps DEF Exists

LEMMA ReturnCancelledKeeps == Inv /\ ReturnCancelled => Inv'
<1> SUFFICES ASSUME Inv, ReturnCancelled PROVE Inv'
  OBVIOUS
<1>1. run \in [Runs -> RunRows \cup {None}] /\ Load(None, run) /\ events' \in 0 .. MaxEvents
  BY DEF Inv, TypeOK, ReturnCancelled
<1> QED  BY <1>1, LoadKeeps

LEMMA ReloadKeeps == Inv /\ Reload => Inv'
<1> SUFFICES ASSUME Inv, Reload PROVE Inv'
  OBVIOUS
<1>1. /\ run \in [Runs -> RunRows \cup {None}] /\ Load(page.query, run)
      /\ events' \in 0 .. MaxEvents
  BY PageInputsAssumption DEF Inv, TypeOK, Reload, Event
<1>2. page.query \in Runs \cup {None} /\ (page.query # None => Exists(page.query))
  BY DEF Inv, TypeOK, Pages, NamedRunsExist
<1> QED  BY <1>1, <1>2, LoadKeeps

--------------------------------------------------------------------------------
(* New resume *)

LEMMA RestartKeeps == Inv /\ Restart => Inv'
<1> SUFFICES ASSUME Inv, Restart PROVE Inv'
  OBVIOUS
<1>0. TypeOK /\ NamedRunsExist /\ Coherent /\ page \in Pages
  BY DEF Inv, TypeOK
<1>1. /\ task' \in [Callbacks -> TaskStates]
      /\ task'["restart"].at = "clear" /\ task'["score"].at = "dropped"
      /\ \A c \in Callbacks \ {"restart", "score"} : task'[c] = task[c]
  BY <1>0, TasksTyped DEF Restart, TypeOK, Callbacks
<1>2. page' \in Pages /\ page'.run = None /\ page'.query = page.query
  BY <1>0 DEF Restart, Pages
<1>3. UNCHANGED <<resumes, view, run, store>> /\ events' \in 0 .. MaxEvents
  BY <1>0, PageInputsAssumption DEF Restart, Event, TypeOK
<1>4. TypeOK'
  BY <1>0, <1>1, <1>2, <1>3 DEF TypeOK
<1>5. NamedRunsExist'
  BY <1>0, <1>1, <1>2, <1>3 DEF NamedRunsExist, Exists
<1>6. Coherent'
  BY <1>0, <1>1, <1>2, <1>3 DEF Coherent, ButtonIsBusy, PanelAgrees, ScoreIsOfTheField,
                                TypedJobIsScored, Callbacks
<1> QED  BY <1>4, <1>5, <1>6 DEF Inv

LEMMA RestartClearKeeps == Inv /\ RestartClear => Inv'
<1> SUFFICES ASSUME Inv, RestartClear PROVE Inv'
  OBVIOUS
<1>0. TypeOK /\ NamedRunsExist /\ Coherent /\ view \in Views
  BY DEF Inv, TypeOK
<1>1. /\ Suspend("restart", Idle) /\ Idle \in TaskStates /\ Idle.at = "idle"
      /\ UNCHANGED <<resumes, page, events, run>> /\ store' = None
  BY TasksTyped DEF RestartClear, Return
<1>2. /\ view' \in Views /\ view'.busy = view.busy /\ view'.stuck = view.stuck
      /\ view'.typed = FALSE /\ view'.panel.run = None
  BY <1>0, FreshLoad DEF RestartClear, Views
<1>3. TypeOK'
  BY <1>0, <1>1, <1>2, Suspended DEF TypeOK, Callbacks
<1>4. NamedRunsExist'
  BY <1>0, <1>1, NamesStay DEF Callbacks, TypeOK
<1>5. Coherent'
  <2>1. \A c \in Callbacks \ {"restart"} : task'[c] = task[c]
    BY <1>0, <1>1, Suspended DEF Callbacks
  <2> QED  BY <1>0, <1>1, <1>2, <2>1 DEF Coherent, ButtonIsBusy, PanelAgrees,
                                      ScoreIsOfTheField, TypedJobIsScored, Callbacks
<1> QED  BY <1>3, <1>4, <1>5 DEF Inv

--------------------------------------------------------------------------------
(* What fails *)

\* A callback gets no answer, or an empty list, and goes on with that.
LEMMA AnswerFailsKeeps == ASSUME NEW c \in Callbacks PROVE Inv /\ AnswerFails(c) => Inv'
<1> SUFFICES ASSUME Inv, AnswerFails(c) PROVE Inv'
  OBVIOUS
<1>0. TypeOK /\ NamedRunsExist /\ Coherent /\ page \in Pages
  BY DEF Inv, TypeOK
<1>1. PICK t \in TaskStates :
         /\ Suspend(c, t) /\ t.at = task[c].at
         /\ t.at \in {"body", "list", "resume"}
  <2>1. task[c] \in TaskStates
    BY <1>0 DEF TypeOK
  <2>2. CASE task[c].at = "body" /\ task' = [task EXCEPT ![c].body = None]
    <3>1. [at |-> "body", body |-> None] \in TaskStates
      BY TasksTyped
    <3>2. [at |-> "body", body |-> None] = [task[c] EXCEPT !.body = None]
      BY <2>1, <2>2, <3>1 DEF TaskStates, Idle, ListStates, BodyStates
    <3> QED  BY <2>2, <3>1, <3>2 DEF Suspend
  <2>3. CASE task[c].at = "list" /\ task' = [task EXCEPT ![c].n = 0]
    <3>1. [at |-> "list", n |-> 0] \in TaskStates
      <4>1. 0 \in 0 .. MaxResumes
        BY PageInputsAssumption
      <4> QED  BY <4>1, TasksTyped
    <3>2. [at |-> "list", n |-> 0] = [task[c] EXCEPT !.n = 0]
      BY <2>1, <2>3, <3>1 DEF TaskStates, Idle, ListStates, BodyStates
    <3> QED  BY <2>3, <3>1, <3>2 DEF Suspend
  <2>4. CASE task[c].at = "resume" /\ task' = [task EXCEPT ![c].n = 0]
    <3>1. PICK job \in Jobs : job = task[c].job
      BY <2>1, <2>4, TaskFields
    <3>2. [at |-> "resume", n |-> 0, job |-> job] \in TaskStates
      <4>1. 0 \in 0 .. MaxResumes
        BY PageInputsAssumption
      <4> QED  BY <4>1, TasksTyped
    <3>3. [at |-> "resume", n |-> 0, job |-> job] = [task[c] EXCEPT !.n = 0]
      BY <2>1, <2>4, <3>1, <3>2 DEF TaskStates, Idle, ListStates, BodyStates
    <3> QED  BY <2>4, <3>2, <3>3 DEF Suspend
  <2> QED  BY <2>2, <2>3, <2>4 DEF AnswerFails
<1>2. UNCHANGED <<resumes, page, view, run, store>> /\ events' \in 0 .. MaxEvents
  BY <1>0, PageInputsAssumption DEF AnswerFails, Event, TypeOK
<1>3. /\ task' \in [Callbacks -> TaskStates]
      /\ \A d \in Callbacks : task'[d] = IF d = c THEN t ELSE task[d]
  BY <1>0, <1>1, Suspended
<1>4. TypeOK'
  BY <1>0, <1>2, <1>3 DEF TypeOK
<1>5. NamedRunsExist'
  BY <1>0, <1>1, <1>2, NamesStay
<1>6. Coherent'
  <2>1. /\ \A d \in Callbacks : task'[d].at = task[d].at
        /\ task["score"].at = "asked" => task'["score"] = task["score"]
    BY <1>1, <1>3 DEF Callbacks
  <2> QED  BY <1>0, <1>2, <2>1 DEF Coherent, ButtonIsBusy, PanelAgrees, ScoreIsOfTheField,
                                   TypedJobIsScored, Callbacks
<1> QED  BY <1>4, <1>5, <1>6 DEF Inv

\* A callback ends where it is: the button it would have given back is stuck, and
\* the panel it would have filled is marked.
LEMMA RaisesKeeps == ASSUME NEW c \in Callbacks PROVE Inv /\ Raises(c) => Inv'
<1> SUFFICES ASSUME Inv, Raises(c) PROVE Inv'
  OBVIOUS
<1>0. TypeOK /\ NamedRunsExist /\ Coherent /\ page \in Pages /\ view \in Views
  BY DEF Inv, TypeOK
<1>1. PICK t \in TaskStates :
         /\ t = task[c] /\ c \notin {"pay", "score"}
         /\ t.at \in {"start", "list", "clear", "verify", "body", "forget", "stored",
                      "resume", "save"}
  BY <1>0 DEF Raises, TypeOK
<1>2. /\ task' \in [Callbacks -> TaskStates]
      /\ task'[c] = Idle /\ Idle.at = "idle"
      /\ \A d \in Callbacks \ {c, "score"} : task'[d] = task[d]
      /\ \/ task'["score"] = task["score"] /\ ~(c = "upload" /\ t.at = "list" /\ task["score"].at = "idle")
         \/ task'["score"].at = "dropped"
  BY <1>0, <1>1, TasksTyped DEF Raises, TypeOK, Callbacks
<1>3. /\ view' \in Views /\ view'.panel = view.panel /\ view'.busy = view.busy
      /\ view'.job = view.job /\ view'.typed = view.typed
      /\ view'.stuck = (view.stuck \/ t.at = "save")
      /\ view'.late = (view.late \/ t.at = "save" \/ c = "restart"
                                \/ (c = "tailor" /\ t.at = "body"))
  <2>1. PICK stuck \in BOOLEAN, late \in BOOLEAN :
           /\ stuck = (view.stuck \/ t.at = "save")
           /\ late = (view.late \/ t.at = "save" \/ c = "restart"
                               \/ (c = "tailor" /\ t.at = "body"))
    OBVIOUS
  <2>2. view' = [view EXCEPT !.stuck = stuck, !.late = late]
    BY <1>1, <2>1 DEF Raises
  <2> QED  BY <1>0, <2>1, <2>2 DEF Views
<1>4. UNCHANGED <<resumes, page, run>> /\ events' \in 0 .. MaxEvents
  BY <1>0, PageInputsAssumption DEF Raises, Event, TypeOK
<1>5. /\ store' \in [run : Runs, resume : Resumes \cup {0}, job : Jobs \cup {None}] \cup {None}
      /\ store' # None => Exists(store.run)'
  <2>1. CASE store' = store
    BY <1>0, <1>4, <2>1 DEF TypeOK, NamedRunsExist, Exists
  <2>2. CASE store' = Scripted(t)
    <3>1. CASE t.at = "save"
      <4>1. PICK r \in Runs : r = t.run
        BY <3>1, TaskFields
      <4>2. run[r] \in RunRows
        BY <1>0, <1>1, <3>1, <4>1 DEF NamedRunsExist, Exists
      <4>3. store' = Kept(r)
        BY <2>2, <3>1, <4>1 DEF Scripted
      <4> QED  BY <1>4, <4>2, <4>3, KeptWorkflow DEF Exists
    <3>2. CASE t.at # "save"
      BY <1>0, <1>4, <2>2, <3>2 DEF Scripted, TypeOK, NamedRunsExist, Exists
    <3> QED  BY <3>1, <3>2
  <2> QED  BY <1>1, <2>1, <2>2 DEF Raises
<1>6. TypeOK'
  BY <1>0, <1>2, <1>3, <1>4, <1>5 DEF TypeOK
<1>7. NamedRunsExist'
  <2>1. ASSUME NEW d \in Callbacks,
               task'[d].at \in {"save", "watch", "post", "stripe", "crypto", "away"}
        PROVE  Exists(task[d].run)'
    <3>1. task'[d] = task[d]
      BY <1>2, <2>1 DEF Callbacks
    <3> QED  BY <1>0, <1>4, <2>1, <3>1 DEF NamedRunsExist, Exists
  <2> QED  BY <1>0, <1>4, <1>5, <2>1 DEF NamedRunsExist, Exists
<1>8. Coherent'
  <2>1. ButtonIsBusy'
    BY <1>0, <1>1, <1>2, <1>3 DEF Coherent, ButtonIsBusy, Callbacks
  <2>2. PanelAgrees'
    BY <1>0, <1>1, <1>2, <1>3, <1>4 DEF Coherent, PanelAgrees, Callbacks
  <2>3. ScoreIsOfTheField'
    BY <1>0, <1>2, <1>3 DEF Coherent, ScoreIsOfTheField
  <2>4. TypedJobIsScored'
    BY <1>0, <1>1, <1>2, <1>3, <1>4
       DEF Coherent, ScoreIsOfTheField, TypedJobIsScored, Callbacks
  <2> QED  BY <2>1, <2>2, <2>3, <2>4 DEF Coherent
<1> QED  BY <1>6, <1>7, <1>8 DEF Inv

--------------------------------------------------------------------------------
(* The server changes rows, and nothing on the page *)

LEMMA ServerKeeps ==
    ASSUME Inv, NEW r \in Runs, NEW row \in RunRows, run' = [run EXCEPT ![r] = row],
           UNCHANGED <<inputVars, store>>
    PROVE  Inv'
<1>0. TypeOK /\ NamedRunsExist /\ Coherent
  BY DEF Inv
<1>1. UNCHANGED <<resumes, page, view, task, events, store>>
  BY DEF inputVars
<1>2. /\ run' \in [Runs -> RunRows \cup {None}]
      /\ \A q \in Runs : run[q] \in RunRows => run'[q] \in RunRows
  BY <1>0 DEF TypeOK
<1>3. TypeOK'
  BY <1>0, <1>1, <1>2 DEF TypeOK
<1>4. NamedRunsExist'
  <2>1. /\ page.run # None => page.run \in Runs
        /\ page.query # None => page.query \in Runs
        /\ store # None => store.run \in Runs
    BY <1>0 DEF TypeOK, Pages
  <2>2. \A c \in Callbacks : task[c].at \in {"save", "watch", "post", "stripe", "crypto", "away"}
                                => task[c].run \in Runs
    BY <1>0, TaskFields DEF TypeOK
  <2> QED  BY <1>0, <1>1, <1>2, <2>1, <2>2 DEF NamedRunsExist, Exists
<1>5. Coherent'
  BY <1>0, <1>1 DEF Coherent, ButtonIsBusy, PanelAgrees, ScoreIsOfTheField, TypedJobIsScored
<1> QED  BY <1>3, <1>4, <1>5 DEF Inv

LEMMA ServerStepKeeps ==
    ASSUME NEW r \in Runs, Inv,
           Settle(r) \/ Webhook(r) \/ \E end \in Ends : RunEnds(r, end)
    PROVE  Inv'
<1>0. run \in [Runs -> RunRows \cup {None}]
  BY DEF Inv, TypeOK
<1>1. CASE Settle(r)
  <2>1. run[r] \in RunRows
    BY <1>0, <1>1 DEF Settle
  <2>2. PICK row \in RunRows : row = [run[r] EXCEPT !.paid = @ \cup {"settled"}]
    BY <2>1 DEF RunRows
  <2>3. run' = [run EXCEPT ![r] = row] /\ UNCHANGED <<inputVars, store>>
    BY <1>0, <1>1, <2>2 DEF Settle
  <2> QED  BY <2>3, ServerKeeps
<1>2. CASE Webhook(r)
  <2>1. run[r] \in RunRows
    BY <1>0, <1>2 DEF Webhook
  <2>2. PICK row \in RunRows : row = [run[r] EXCEPT !.open = TRUE]
    BY <2>1 DEF RunRows
  <2>3. run' = [run EXCEPT ![r] = row] /\ UNCHANGED <<inputVars, store>>
    BY <1>0, <1>2, <2>2 DEF Webhook
  <2> QED  BY <2>3, ServerKeeps
<1>3. ASSUME NEW end \in Ends, RunEnds(r, end)
      PROVE  Inv'
  <2>1. run[r] \in RunRows
    BY <1>0, <1>3 DEF RunEnds
  <2>2. /\ end.status \in {"running", "completed", "failed"}
        /\ end.executor \in {"unstarted", "started", "done", "error", "lost"}
    BY <1>3 DEF Ends
  <2>3. PICK row \in RunRows :
           row = [run[r] EXCEPT !.status = end.status, !.executor = end.executor]
    BY <2>1, <2>2 DEF RunRows
  <2>4. run' = [run EXCEPT ![r] = row] /\ UNCHANGED <<inputVars, store>>
    BY <1>0, <1>3, <2>3 DEF RunEnds
  <2> QED  BY <2>4, ServerKeeps
<1> QED  BY <1>1, <1>2, <1>3

--------------------------------------------------------------------------------
(* The left half of the page: neither the run, nor the button, nor the panel *)

LEMMA InputKeeps ==
    ASSUME Inv, UNCHANGED <<run, store>>,
           resumes' \in 0 .. MaxResumes, events' \in 0 .. MaxEvents,
           page' \in Pages, page'.run = page.run, page'.query = page.query,
           view' \in Views, view'.panel = view.panel, view'.late = view.late,
           view'.busy = view.busy, view'.stuck = view.stuck,
           task' \in [Callbacks -> TaskStates],
           \A c \in Callbacks \ {"score", "upload"} : task'[c] = task[c],
           task'["score"].at \in {"idle", "due", "asked", "skipped", "failed"}
               \/ task'["score"] = task["score"],
           task'["upload"].at \in {"idle", "stored", "list"} \/ task'["upload"] = task["upload"],
           ScoreIsOfTheField', TypedJobIsScored'
    PROVE  Inv'
<1>0. TypeOK /\ NamedRunsExist /\ Coherent
  BY DEF Inv
<1>1. TypeOK'
  BY <1>0 DEF TypeOK
<1>2. NamedRunsExist'
  <2>1. ASSUME NEW c \in Callbacks,
               task'[c].at \in {"save", "watch", "post", "stripe", "crypto", "away"}
        PROVE  Exists(task[c].run)'
    <3>1. task'[c] = task[c]
      BY <2>1
    <3> QED  BY <1>0, <2>1, <3>1 DEF NamedRunsExist, Exists
  <2> QED  BY <1>0, <2>1 DEF NamedRunsExist, Exists
<1>3. ButtonIsBusy' /\ PanelAgrees'
  BY <1>0 DEF Coherent, ButtonIsBusy, PanelAgrees, Callbacks
<1> QED  BY <1>1, <1>2, <1>3 DEF Inv, Coherent

LEMMA InputStepKeeps == Inv /\ InputStep /\ UNCHANGED <<run, store>> => Inv'
<1> SUFFICES ASSUME Inv, InputStep, UNCHANGED <<run, store>> PROVE Inv'
  OBVIOUS
<1>0. /\ TypeOK /\ page \in Pages /\ view \in Views /\ task \in [Callbacks -> TaskStates]
      /\ resumes \in 0 .. MaxResumes /\ events \in 0 .. MaxEvents
      /\ ScoreIsOfTheField /\ TypedJobIsScored
  BY DEF Inv, Coherent, TypeOK
<1> USE DEF Callbacks
<1>1. ASSUME NEW j \in Jobs, Type(j) PROVE Inv'
  <2>1. /\ view' \in Views /\ view'.panel = view.panel /\ view'.late = view.late
        /\ view'.busy = view.busy /\ view'.stuck = view.stuck /\ view'.job = j /\ view'.typed = TRUE
    BY <1>0, <1>1 DEF Type, Views
  <2>2. /\ task' \in [Callbacks -> TaskStates] /\ task'["score"].at = "due"
        /\ \A c \in Callbacks \ {"score"} : task'[c] = task[c]
    BY <1>0, <1>1, TasksTyped DEF Type, Scheduled
  <2>3. UNCHANGED <<resumes, page>> /\ events' \in 0 .. MaxEvents
    BY <1>0, <1>1, PageInputsAssumption DEF Type, Event
  <2>4. ScoreIsOfTheField' /\ TypedJobIsScored'
    BY <2>1, <2>2, PageInputsAssumption DEF ScoreIsOfTheField, TypedJobIsScored
  <2> QED  BY <1>0, <2>1, <2>2, <2>3, <2>4, InputKeeps
<1>2. CASE Upload
  <2>1. resumes + 1 \in Resumes /\ resumes' \in 0 .. MaxResumes /\ events' \in 0 .. MaxEvents
    BY <1>0, <1>2, PageInputsAssumption DEF Upload, Event, Resumes
  <2>2. PICK t \in TaskStates : t = [at |-> "stored", resume |-> resumes + 1] /\ t.at = "stored"
    BY <2>1, TasksTyped
  <2>3. Suspend("upload", t) /\ UNCHANGED <<page, view>> /\ task["upload"].at = "idle"
    BY <1>2, <2>2, TasksTyped DEF Upload
  <2>4. /\ task' \in [Callbacks -> TaskStates] /\ task'["upload"] = t
        /\ \A c \in Callbacks \ {"upload"} : task'[c] = task[c]
    BY <1>0, <2>3, Suspended
  <2>5. ScoreIsOfTheField' /\ TypedJobIsScored'
    BY <1>0, <2>3, <2>4 DEF ScoreIsOfTheField, TypedJobIsScored
  <2> QED  BY <1>0, <2>1, <2>2, <2>3, <2>4, <2>5, InputKeeps
<1>3. CASE ScoreAsk
  <2>1. PICK t \in TaskStates :
           /\ Suspend("score", t)
           /\ \/ t.at = "skipped"
              \/ t.at = "idle" /\ view.job \in {None, page.scored}
              \/ t.at = "asked" /\ t.job = view.job
    <3>1. view.job # None => view.job \in Jobs
      BY <1>0 DEF Views
    <3>2. CASE page.resume = 0
      BY <1>3, <3>2, TasksTyped DEF ScoreAsk
    <3>3. CASE page.resume # 0 /\ view.job \in {None, page.scored}
      BY <1>3, <3>3, TasksTyped DEF ScoreAsk
    <3>4. CASE page.resume # 0 /\ view.job \notin {None, page.scored}
      BY <1>3, <3>1, <3>4, TasksTyped DEF ScoreAsk
    <3> QED  BY <3>2, <3>3, <3>4
  <2>2. UNCHANGED <<resumes, page, view, events>>
    BY <1>3 DEF ScoreAsk
  <2>3. /\ task' \in [Callbacks -> TaskStates] /\ task'["score"] = t
        /\ \A c \in Callbacks \ {"score"} : task'[c] = task[c]
    BY <1>0, <2>1, Suspended
  <2>4. ScoreIsOfTheField' /\ TypedJobIsScored'
    BY <1>0, <2>1, <2>2, <2>3 DEF ScoreIsOfTheField, TypedJobIsScored
  <2> QED  BY <1>0, <2>1, <2>2, <2>3, <2>4, InputKeeps
<1>4. CASE ScoreAnswer
  <2>1. PICK s \in TaskStates : s = task["score"] /\ s.at = "asked"
    BY <1>0, <1>4 DEF ScoreAnswer
  <2>2. s.job \in Jobs
    BY <2>1, TaskFields
  <2>3. /\ page' = [page EXCEPT !.scored = s.job]
        /\ Suspend("score", Idle) /\ Idle \in TaskStates /\ Idle.at = "idle"
        /\ UNCHANGED <<resumes, view, events>>
    BY <1>4, <2>1, TasksTyped DEF ScoreAnswer, Return
  <2>4. /\ page' \in Pages /\ page'.run = page.run /\ page'.query = page.query
        /\ page'.scored = s.job
    BY <1>0, <2>2, <2>3 DEF Pages
  <2>5. /\ task' \in [Callbacks -> TaskStates] /\ task'["score"] = Idle
        /\ \A c \in Callbacks \ {"score"} : task'[c] = task[c]
    BY <1>0, <2>3, Suspended
  <2>6. ScoreIsOfTheField' /\ TypedJobIsScored'
    BY <1>0, <2>1, <2>3, <2>4, <2>5 DEF ScoreIsOfTheField, TypedJobIsScored
  <2> QED  BY <1>0, <2>3, <2>4, <2>5, <2>6, InputKeeps
<1>5. CASE ScoreFails
  <2>1. PICK t \in TaskStates : t = [at |-> "failed"] /\ t.at = "failed"
    BY TasksTyped
  <2>2. Suspend("score", t) /\ UNCHANGED <<resumes, page, view, events>>
    BY <1>5, <2>1 DEF ScoreFails
  <2>3. /\ task' \in [Callbacks -> TaskStates] /\ task'["score"] = t
        /\ \A c \in Callbacks \ {"score"} : task'[c] = task[c]
    BY <1>0, <2>2, Suspended
  <2>4. ScoreIsOfTheField' /\ TypedJobIsScored'
    BY <1>0, <2>1, <2>2, <2>3 DEF ScoreIsOfTheField, TypedJobIsScored
  <2> QED  BY <1>0, <2>1, <2>2, <2>3, <2>4, InputKeeps
<1>6. CASE UploadStored
  <2>1. task["upload"].resume \in Resumes
    BY <1>0, <1>6, TaskFields DEF UploadStored
  <2>2. PICK t \in TaskStates : t = [at |-> "list", n |-> resumes] /\ t.at = "list"
    BY <1>0, TasksTyped
  <2>3. Suspend("upload", t) /\ UNCHANGED <<resumes, view, events>>
    BY <1>6, <2>2 DEF UploadStored
  <2>4. page' \in Pages /\ page'.run = page.run /\ page'.query = page.query
    BY <1>0, <1>6, <2>1 DEF UploadStored, Pages
  <2>5. /\ task' \in [Callbacks -> TaskStates] /\ task'["upload"] = t
        /\ \A c \in Callbacks \ {"upload"} : task'[c] = task[c]
    BY <1>0, <2>3, Suspended
  <2>6. ScoreIsOfTheField' /\ TypedJobIsScored'
    BY <1>0, <2>2, <2>3, <2>5 DEF ScoreIsOfTheField, TypedJobIsScored
  <2> QED  BY <1>0, <2>2, <2>3, <2>4, <2>5, <2>6, InputKeeps
<1>7. CASE UploadListed
  <2>1. task["upload"].n \in 0 .. MaxResumes
    BY <1>0, <1>7, TaskFields DEF UploadListed
  <2>2. page' \in Pages /\ page'.run = page.run /\ page'.query = page.query
    BY <1>0, <1>7, <2>1, ListedPage DEF UploadListed
  <2>3. /\ task' \in [Callbacks -> TaskStates]
        /\ task'["score"].at = "due" /\ task'["upload"].at = "idle"
        /\ \A c \in Callbacks \ {"score", "upload"} : task'[c] = task[c]
    BY <1>0, <1>7, TasksTyped DEF UploadListed, Scheduled
  <2>4. UNCHANGED <<resumes, view, events>>
    BY <1>7 DEF UploadListed
  <2>5. ScoreIsOfTheField' /\ TypedJobIsScored'
    BY <1>0, <2>3, <2>4 DEF ScoreIsOfTheField, TypedJobIsScored
  <2> QED  BY <1>0, <2>2, <2>3, <2>4, <2>5, InputKeeps
<1> QED  BY <1>1, <1>2, <1>3, <1>4, <1>5, <1>6, <1>7 DEF InputStep, ScoreStep, UploadStep

--------------------------------------------------------------------------------
(* The invariant, and what it gives *)

LEMMA InitInv == Init => Inv
<1> SUFFICES ASSUME Init PROVE Inv
  OBVIOUS
<1>0. /\ resumes \in {0, 1} /\ page = FreshPage(None) /\ view = FreshView
      /\ task = FreshTasks /\ events = MaxEvents /\ store = None
      /\ run = [r \in Runs |-> None]
  BY DEF Init
<1>1. page \in Pages /\ page.run = None /\ page.query = None
  BY <1>0 DEF FreshPage, ResumeOf, Pages
<1>2. resumes \in 0 .. MaxResumes
  BY <1>0, PageInputsAssumption
<1>3. TypeOK
  BY <1>0, <1>1, <1>2, FreshLoad, PageInputsAssumption DEF TypeOK
<1>4. NamedRunsExist
  BY <1>0, <1>1, FreshLoad DEF NamedRunsExist
<1>5. Coherent
  BY <1>0, <1>1, FreshLoad DEF Coherent, ButtonIsBusy, PanelAgrees, ScoreIsOfTheField,
                               TypedJobIsScored, Callbacks
<1> QED  BY <1>3, <1>4, <1>5 DEF Inv

LEMMA NextInv == Inv /\ [Next]_vars => Inv'
<1> SUFFICES ASSUME Inv, [Next]_vars PROVE Inv'
  OBVIOUS
<1>1. CASE InputStep /\ UNCHANGED <<run, store>>
  BY <1>1, InputStepKeeps
<1>2. CASE BootStep
  BY <1>2, BootMergeKeeps, BootListedKeeps, BootClearKeeps, BootVerifyKeeps, BootShownKeeps,
     BootForgetKeeps DEF BootStep
<1>3. CASE PollStep
  BY <1>3, PollAskKeeps, PollShownKeeps, PollListedKeeps, PollForgetKeeps DEF PollStep
<1>4. CASE TailorStep
  BY <1>4, TailorResumeKeeps, TailorCreateKeeps, TailorRefusedKeeps, TailorSaveKeeps,
     TailorWatchedKeeps, TailorShownKeeps, TailorListedKeeps DEF TailorStep
<1>5. CASE GenerateStep
  BY <1>5, GeneratedKeeps, GenerateShownKeeps DEF GenerateStep
<1>6. CASE PayAnswered \/ ReturnPaid \/ ReturnCancelled \/ RestartClear
  BY <1>6, PayAnsweredKeeps, ReturnPaidKeeps, ReturnCancelledKeeps, RestartClearKeeps
<1>7. CASE UserStep
  BY <1>7, TailorKeeps, GenerateKeeps, RestartKeeps, ReloadKeeps, PayKeeps DEF UserStep
<1>8. CASE \E r \in Runs : \/ Settle(r) \/ Webhook(r)
                           \/ \E end \in Ends : RunEnds(r, end)
  BY <1>8, ServerStepKeeps
<1>9. CASE Failure
  BY <1>9, AnswerFailsKeeps, RaisesKeeps DEF Failure
<1>10. CASE UNCHANGED vars
  BY <1>10 DEF vars, inputVars, Inv, TypeOK, NamedRunsExist, Exists, Coherent, ButtonIsBusy,
              PanelAgrees, ScoreIsOfTheField, TypedJobIsScored
<1> QED  BY <1>1, <1>2, <1>3, <1>4, <1>5, <1>6, <1>7, <1>8, <1>9, <1>10 DEF Next

\* Whatever callbacks, loads and webhooks interleave, the page is well formed,
\* names only runs that exist, and agrees with itself.
THEOREM PageInvariance == Spec => []Inv
  BY InitInv, NextInv, PTL DEF Spec

\* The page, the view and every answer in flight stay well formed (ui/app.py).
THEOREM PageTyped == Spec => []TypeOK
<1>1. Inv => TypeOK
  BY DEF Inv
<1> QED  BY <1>1, PageInvariance, PTL

\* What the panel shows is the run the page would export, pay for and generate
\* variants of, but for the exceptions the property names (app.py:729, 1043, 1139).
THEOREM ShownRunIsRight == Spec => []ShownRunIsThePagesRun
<1>1. Inv => ShownRunIsThePagesRun
  BY DEF Inv, Coherent, PanelAgrees, ButtonIsBusy, ShownRunIsThePagesRun
<1> QED  BY <1>1, PageInvariance, PTL

\* The job description the user typed last is scored, or about to be, through
\* every cancellation of the scoring task (app.py:622, 646).
THEOREM TypedJobGetsScored == Spec => []TypedJobIsScored
<1>1. Inv => TypedJobIsScored
  BY DEF Inv, Coherent
<1> QED  BY <1>1, PageInvariance, PTL

\* The button is loading while a callback creates, saves or watches a run, and
\* afterwards only if that callback raised before the try that gives the button
\* back, whatever loads, restarts, late and failed answers interleave: what is
\* left of ButtonComesBack is that such a callback is run (app.py:1003-1018).
THEOREM ButtonHasItsCallback == Spec => []ButtonIsBusy
<1>1. Inv => ButtonIsBusy
  BY DEF Inv, Coherent
<1> QED  BY <1>1, PageInvariance, PTL

\* No callback, address or stored workflow holds on to a run that is not there,
\* whichever calls fail and whichever scripts the browser ran unacknowledged, so
\* that no answer is applied to a run that was never created (app.py:1061, 1139).
THEOREM NoRunIsMissing == Spec => []NamedRunsExist
<1>1. Inv => NamedRunsExist
  BY DEF Inv
<1> QED  BY <1>1, PageInvariance, PTL

================================================================================
