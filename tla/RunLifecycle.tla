----------------------------- MODULE RunLifecycle -----------------------------
(***************************************************************************)
(* One run from its launch to what its watchers are told.  The background  *)
(* task of the run commits its status to agent_runs and puts its progress  *)
(* and its end on an in-memory queue; SSE streams and the page that        *)
(* launched the run take items off that one queue.  The task, the queue    *)
(* and the watchers die with the web process, the row does not.            *)
(***************************************************************************)
EXTENDS Integers, Sequences

CONSTANTS
    Streams,        \* concurrent GET /runs/{id}/stream requests
    Page,           \* the NiceGUI page of the user
    MaxProgress,    \* bound: node events the graph emits
    MaxRestarts,    \* bound: crashes of the web process
    MaxFaults       \* bound: database or page calls that raise outside the executor's try

ASSUME LifecycleAssumption ==
    /\ Page \notin Streams
    /\ MaxProgress \in Nat /\ MaxRestarts \in Nat /\ MaxFaults \in Nat

VARIABLES
    status,      \* agent_runs.status as committed
    task,        \* how far the coroutine of the run has come
    verdict,     \* the status set on the loaded row and not committed yet
    queue,       \* _run_queues[run_id]
    progressed,  \* node events emitted so far
    by,          \* who launched the run
    listener,    \* what each watcher was told last
    taken,       \* a watcher took the terminal item off this process's queue
    shown,       \* what the page made of the end of the run
    restarts, faults

row == <<status, by>>
worker == <<task, verdict, progressed>>
watchers == <<listener, taken, shown>>
mishaps == <<restarts, faults>>
vars == <<row, worker, queue, watchers, mishaps>>

Listeners == Streams \cup {Page}
Final == {"completed", "failed"}
Terminal == {"done", "error"}

TypeOK ==
    /\ status \in {"absent", "queued", "running"} \cup Final
    /\ task \in {"none", "created", "scheduled", "graph", "announced"}
    /\ verdict \in {"none"} \cup Final
    /\ queue \in Seq({"progress"} \cup Terminal) /\ Len(queue) <= MaxProgress + 1
    /\ progressed \in 0 .. MaxProgress
    /\ by \in {"none", "api", "page"}
    /\ listener \in [Listeners -> {"away", "waiting"} \cup Terminal]
    /\ taken \in BOOLEAN
    /\ shown \in {"nothing", "error", "result", "unread"}
    /\ restarts \in 0 .. MaxRestarts /\ faults \in 0 .. MaxFaults

Init ==
    /\ status = "absent" /\ by = "none"
    /\ task = "none" /\ verdict = "none" /\ progressed = 0
    /\ queue = <<>>
    /\ listener = [l \in Listeners |-> "away"] /\ taken = FALSE /\ shown = "nothing"
    /\ restarts = 0 /\ faults = 0

Put(item) == queue' = Append(queue, item)

\* One more call has raised; execute_run_background or the page swallows it.
Fault == faults < MaxFaults /\ faults' = faults + 1 /\ UNCHANGED restarts

-----------------------------------------------------------------------------
(* The launcher and the background task.                                   *)

\* create_run_record commits the queued row.
Launch(who) ==
    /\ status = "absent"
    /\ status' = "queued" /\ by' = who /\ task' = "created"
    /\ UNCHANGED <<verdict, progressed, queue, watchers, mishaps>>

\* The refresh of the new row raises, or the page fails to store its workflow
\* in the browser: nothing will ever execute the row.
LaunchLost ==
    /\ task = "created" /\ Fault
    /\ task' = "none"
    /\ UNCHANGED <<row, verdict, progressed, queue, watchers>>

\* The API creates a task; the page gathers a watcher and the execution.
Schedule ==
    /\ task = "created"
    /\ task' = "scheduled"
    /\ listener' = IF by = "page" THEN [listener EXCEPT ![Page] = "waiting"] ELSE listener
    /\ UNCHANGED <<row, verdict, progressed, queue, taken, shown, mishaps>>

Start ==
    /\ task = "scheduled"
    /\ task' = "graph" /\ status' = "running"
    /\ UNCHANGED <<by, verdict, progressed, queue, watchers, mishaps>>

\* Loading the rows or the first commit raises, before the try.
StartFails ==
    /\ task = "scheduled" /\ Fault
    /\ task' = "none"
    /\ UNCHANGED <<row, verdict, progressed, queue, watchers>>

Progress ==
    /\ task = "graph" /\ progressed < MaxProgress
    /\ progressed' = progressed + 1
    /\ Put("progress")
    /\ UNCHANGED <<row, task, verdict, watchers, mishaps>>

\* The graph returns.  "done" is put whatever the outcome, and before the
\* commit: a fatal_error is a failed run announced as done.
GraphEnds(outcome) ==
    /\ task = "graph"
    /\ task' = "announced" /\ verdict' = outcome
    /\ Put("done")
    /\ UNCHANGED <<row, progressed, watchers, mishaps>>

GraphRaisesSilently ==  \* a slip: the except branch tells nobody
    /\ task = "graph"
    /\ task' = "announced" /\ verdict' = "failed"
    /\ UNCHANGED <<row, progressed, queue, watchers, mishaps>>
GraphRaisesLate ==  \* a slip: the except branch keeps the status set before
    /\ task = "graph"
    /\ task' = "announced" /\ verdict' = "completed"
    /\ Put("error")
    /\ UNCHANGED <<row, progressed, watchers, mishaps>>
GraphRaisesOut ==  \* a slip: the branch re-raises, the commit is skipped
    /\ task = "graph"
    /\ task' = "none"
    /\ Put("error")
    /\ UNCHANGED <<row, verdict, progressed, watchers, mishaps>>

\* The except branch: anything the graph, the checkpointer or the writing of
\* the result raises.
GraphRaises ==
    /\ task = "graph"
    /\ task' = "announced" /\ verdict' = "failed"
    /\ Put("error")
    /\ UNCHANGED <<row, progressed, watchers, mishaps>>

CommitAnnounces ==  \* a slip: the event is put after the commit as well
    /\ task = "announced"
    /\ status' = verdict
    /\ task' = "none" /\ verdict' = "none"
    /\ Put(IF verdict = "failed" THEN "error" ELSE "done")
    /\ UNCHANGED <<by, progressed, watchers, mishaps>>
Commit ==
    /\ task = "announced"
    /\ status' = verdict
    /\ task' = "none" /\ verdict' = "none"
    /\ UNCHANGED <<by, progressed, queue, watchers, mishaps>>

\* The last commit raises: the row stays running, the event is out.
CommitFails ==
    /\ task = "announced" /\ Fault
    /\ task' = "none" /\ verdict' = "none"
    /\ UNCHANGED <<row, progressed, queue, watchers>>

-----------------------------------------------------------------------------
(* The watchers.                                                           *)

Told(final) == IF final = "completed" THEN "done" ELSE "error"

\* stream_run reads the status once; a run that is not over is followed on
\* its queue.
OpenStream(s) ==
    /\ status # "absent" /\ listener[s] = "away"
    /\ listener' = [listener EXCEPT ![s] = IF status \in Final THEN Told(status) ELSE "waiting"]
    /\ UNCHANGED <<row, worker, queue, taken, shown, mishaps>>

ReceiveDoneOnly(l) ==  \* a slip: only "done" ends the loop
    /\ listener[l] = "waiting" /\ queue # <<>>
    /\ queue' = Tail(queue)
    /\ IF Head(queue) = "done"
       THEN listener' = [listener EXCEPT ![l] = Head(queue)] /\ taken' = TRUE
       ELSE UNCHANGED <<listener, taken>>
    /\ UNCHANGED <<row, worker, shown, mishaps>>

\* queue.get in the stream's generator or in watch_run_progress.  A timeout
\* of 30 seconds sends a ping, or a "still working", and waits again.
Receive(l) ==
    /\ listener[l] = "waiting" /\ queue # <<>>
    /\ queue' = Tail(queue)
    /\ IF Head(queue) \in Terminal
       THEN listener' = [listener EXCEPT ![l] = Head(queue)] /\ taken' = TRUE
       ELSE UNCHANGED <<listener, taken>>
    /\ UNCHANGED <<row, worker, shown, mishaps>>

\* A client disconnects, or has its answer; it may come back.
StreamLeaves(s) ==
    /\ listener[s] # "away"
    /\ listener' = [listener EXCEPT ![s] = "away"]
    /\ UNCHANGED <<row, worker, queue, taken, shown, mishaps>>

Displayed(end) == IF end = "error" THEN "error" ELSE "result"

PageRefreshesAtOnce ==  \* a slip: the page does not wait for the execution
    /\ listener[Page] \in Terminal /\ shown = "nothing"
    /\ shown' = Displayed(listener[Page])
    /\ UNCHANGED <<row, worker, queue, listener, taken, mishaps>>

\* gather returns when the watcher and the execution both have.  "error" is
\* displayed as such; after "done" the row is read again and displayed as a
\* result, with its exports or its paywall: its status is not looked at.
PageRefresh ==
    /\ listener[Page] \in Terminal /\ task = "none" /\ shown = "nothing"
    /\ shown' = Displayed(listener[Page])
    /\ UNCHANGED <<row, worker, queue, listener, taken, mishaps>>

\* The row cannot be read: refresh_run says so and returns None.
PageRefreshFails ==
    /\ listener[Page] = "done" /\ task = "none" /\ shown = "nothing"
    /\ Fault
    /\ shown' = "unread"
    /\ UNCHANGED <<row, worker, queue, listener, taken>>

-----------------------------------------------------------------------------
(* The process.                                                            *)

\* Startup migrates the checkpointer and the bucket; nothing looks for runs
\* the previous process left behind.
Restart ==
    /\ status # "absent" /\ restarts < MaxRestarts
    /\ restarts' = restarts + 1
    /\ task' = "none" /\ verdict' = "none" /\ queue' = <<>>
    /\ listener' = [l \in Listeners |-> "away"] /\ taken' = FALSE /\ shown' = "nothing"
    /\ UNCHANGED <<row, progressed, faults>>

GraphStep == Progress \/ GraphRaises \/ \E outcome \in Final : GraphEnds(outcome)

Next ==
    \/ \E who \in {"api", "page"} : Launch(who)
    \/ LaunchLost \/ Schedule \/ Start \/ StartFails
    \/ GraphStep
    \/ Commit \/ CommitFails
    \/ \E s \in Streams : OpenStream(s) \/ StreamLeaves(s)
    \/ \E l \in Listeners : Receive(l)
    \/ PageRefresh \/ PageRefreshFails
    \/ Restart

Spec == Init /\ [][Next]_vars

\* The event loop runs what is ready; every call to a provider and every node
\* of the graph ends or times out; a connected watcher keeps reading.
Fairness ==
    /\ WF_vars(Schedule) /\ WF_vars(Start) /\ WF_vars(GraphStep) /\ WF_vars(Commit)
    /\ \A l \in Listeners : WF_vars(Receive(l))
    /\ WF_vars(PageRefresh \/ PageRefreshFails)

FairSpec == Spec /\ Fairness

-----------------------------------------------------------------------------
(* Properties.                                                             *)

Mishap == restarts > 0 \/ faults > 0
Announced == \E i \in DOMAIN queue : queue[i] \in Terminal

\* Once the task of a run is gone, a watcher that still waits has the terminal
\* item in front of it, unless another took it or a call failed on the way:
\* no branch of the executor ends a run without telling the queue.
NobodyWaitsForNothing ==
    \A l \in Listeners :
        listener[l] = "waiting" /\ task = "none" => Announced \/ taken \/ Mishap

\* A watcher that was told "error" is never contradicted: the run is not, and
\* is not about to be, completed.
ErrorIsFinal ==
    \A l \in Listeners : listener[l] = "error" => status # "completed" /\ verdict # "completed"

\* Although the end of a run is announced before it is committed, the page
\* that launched it displays the run only when its end is committed: an error
\* stands for a failed run, a result never for one that is still running.
PageShowsACommittedEnd ==
    faults = 0 => /\ shown = "error" => status = "failed"
                  /\ shown = "result" => status \in Final

\* A failed run is displayed as one.  A run the graph gave up (fatal_error) is
\* announced "done" and breaks it.
FailedRunIsShownAsOne == shown = "result" => status # "failed"

\* A queued run reaches its end unless the process died or a call failed.
RunReachesEnd == status = "queued" ~> status \in Final \/ Mishap

\* A watcher gets its answer unless another watcher took it, the process died
\* or a call failed.
WatcherIsReleased ==
    \A l \in Listeners :
        listener[l] = "waiting" ~> listener[l] # "waiting" \/ taken \/ Mishap

-----------------------------------------------------------------------------
(* The inductive invariant of the safety properties.                       *)

\* How far the row has come follows the task.
TaskMatchesRow ==
    /\ status = "absent" => /\ task = "none" /\ queue = <<>> /\ ~taken /\ restarts = 0
                            /\ \A l \in Listeners : listener[l] = "away"
    /\ task \in {"created", "scheduled"} => status = "queued"
    /\ task \in {"graph", "announced"} => status = "running"
    /\ verdict # "none" <=> task = "announced"
    /\ task = "none" => status \in {"absent"} \cup Final \/ Mishap

\* Until the graph is over nothing terminal is on the queue or was taken off;
\* from then on it is on the queue or was taken.
EndIsOnTheQueue ==
    /\ task \in {"created", "scheduled", "graph"} =>
         ~Announced /\ ~taken /\ \A l \in Listeners : listener[l] \notin Terminal
    /\ task = "announced" \/ status \in Final => Announced \/ taken \/ Mishap
    /\ Len(queue) <= progressed + (IF Announced THEN 1 ELSE 0)

\* An "error" on the queue belongs to a failed run.
ErrorMeansFailed ==
    (\E i \in DOMAIN queue : queue[i] = "error") =>
        status # "completed" /\ verdict # "completed"

\* Who is told the end of a run is told while or after it is committed.
ToldInTime ==
    \A l \in Listeners :
        /\ listener[l] \in Terminal => task = "announced" \/ status \in Final \/ Mishap
        /\ listener[l] = "waiting" => status # "absent"

\* The page watches only the run it launched, and only in the process that
\* executes it.
PageWatchesItsTask ==
    /\ listener[Page] # "away" => task # "created" /\ restarts = 0
    /\ restarts > 0 => task = "none" /\ shown = "nothing"
    /\ shown # "nothing" => task = "none" /\ listener[Page] \in Terminal

LifecycleInv ==
    /\ TypeOK
    /\ TaskMatchesRow /\ EndIsOnTheQueue /\ ErrorMeansFailed /\ ToldInTime
    /\ PageWatchesItsTask
    /\ NobodyWaitsForNothing /\ ErrorIsFinal /\ PageShowsACommittedEnd
=============================================================================
