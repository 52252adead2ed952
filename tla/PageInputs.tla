------------------------------ MODULE PageInputs ------------------------------
(***************************************************************************)
(* The left half of the page "/": the master resume, the job description    *)
(* and the score of one against the other before any run.  Each callback of *)
(* the page is a coroutine of the server's event loop: it runs alone up to  *)
(* an await, and an HTTP call is answered from the state of that moment but *)
(* applied only when the coroutine runs again, with whatever the other      *)
(* callbacks have done to the page since.                                   *)
(*                                                                         *)
(* Resumes are numbered in the order of their upload: a list of resumes,    *)
(* newest first, is how many there were when it was read.                   *)
(***************************************************************************)
EXTENDS Naturals

CONSTANTS
    Runs,          \* the runs the user may start
    Jobs,          \* the job descriptions the user may paste, all of 20 characters or more
    MaxResumes,    \* bound: resumes in the workspace
    MaxEvents,     \* bound: what the user does and what fails, over all page loads
    None           \* an empty field, no run

ASSUME PageInputsAssumption ==
    /\ MaxResumes \in Nat \ {0} /\ MaxEvents \in Nat
    /\ None \notin Runs \cup Jobs

VARIABLES
    resumes,       \* how many resumes the workspace has
    page,          \* the state dictionary of the page's connection
    view,          \* what the browser shows
    task,          \* where each callback of the page is suspended
    events         \* how many events there may still be

inputVars == <<resumes, page, view, task, events>>

Callbacks == {"boot", "poll", "tailor", "generate", "pay", "restart", "upload", "score"}

Resumes == 1 .. MaxResumes

Pages ==
    [run    : Runs \cup {None},      \* run_id
     resume : Resumes \cup {0},      \* resume_id
     jd     : Jobs \cup {None},      \* jd_text
     poll   : BOOLEAN,               \* poll_payment
     locked : BOOLEAN,               \* current_run is a locked body
     scored : Jobs \cup {None},      \* cached_before_jd
     query  : Runs \cup {None}]      \* run_id of a ?paid=1 address, which a reload keeps

Idle == [at |-> "idle"]

Suspend(c, t) == task' = [task EXCEPT ![c] = t]
Return(c) == Suspend(c, Idle)

\* The user does something, or a call goes wrong: each uses up an event.
Event == events > 0 /\ events' = events - 1

\* load_account with a list read when there were n resumes: the selected one
\* stays if the list has it, or the list is empty; otherwise the newest is.
Listed(p, n) == [p EXCEPT !.resume = IF n = 0 \/ @ \in 1 .. n THEN @ ELSE n]

\* A slip: the pending task is cancelled, and none takes its place.
ScheduledSlip(t) == [t EXCEPT !["score"] = Idle]

\* schedule_before_score: the pending task is cancelled wherever it is.
Scheduled(t) == [t EXCEPT !["score"] = [at |-> "due"]]

--------------------------------------------------------------------------------
(* The job description and its score *)

Type(j) ==
    /\ Event
    /\ view.job # j
    /\ view' = [view EXCEPT !.job = j, !.typed = TRUE]
    /\ task' = Scheduled(task)
    /\ UNCHANGED <<resumes, page>>

\* _compute_before_score, 1.5 seconds later.
ScoreAsk ==
    /\ task["score"].at = "due"
    /\ Suspend("score",
          IF page.resume = 0 THEN [at |-> "skipped"]
          ELSE IF view.job \in {None, page.scored} THEN Idle
          ELSE [at |-> "asked", job |-> view.job])
    /\ UNCHANGED <<resumes, page, view, events>>

ScoreAnswer ==
    LET s == task["score"]
    IN  /\ s.at = "asked"
        /\ page' = [page EXCEPT !.scored = s.job]
        /\ Return("score")
        /\ UNCHANGED <<resumes, view, events>>

\* 404, 500 when the model does not answer: nothing is shown.
ScoreFails ==
    /\ task["score"].at = "asked"
    /\ Suspend("score", [at |-> "failed"])
    /\ UNCHANGED <<resumes, page, view, events>>

--------------------------------------------------------------------------------
(* handle_upload, and POST /api/v1/resumes *)

\* The upload is refused (402, 400) or cannot be read: a message, no change.
Upload ==
    /\ Event
    /\ task["upload"] = Idle
    /\ resumes < MaxResumes
    /\ resumes' = resumes + 1
    /\ Suspend("upload", [at |-> "stored", resume |-> resumes + 1])
    /\ UNCHANGED <<page, view>>

\* The page selects the new resume and asks for its account.
UploadStored ==
    /\ task["upload"].at = "stored"
    /\ page' = [page EXCEPT !.resume = task["upload"].resume, !.scored = None]
    /\ Suspend("upload", [at |-> "list", n |-> resumes])
    /\ UNCHANGED <<resumes, view, events>>

UploadListed ==
    /\ task["upload"].at = "list"
    /\ page' = Listed(page, task["upload"].n)
    /\ task' = Scheduled([task EXCEPT !["upload"] = Idle])
    /\ UNCHANGED <<resumes, view, events>>

ScoreStep == ScoreAsk \/ ScoreAnswer \/ ScoreFails
UploadStep == UploadStored \/ UploadListed

InputStep ==
    \/ \E j \in Jobs : Type(j)
    \/ Upload
    \/ ScoreStep
    \/ UploadStep

================================================================================
