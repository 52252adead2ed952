--------------------------- MODULE RunLifecycleProofs ---------------------------
(***************************************************************************)
(* The safety properties of RunLifecycle, for any number of streams, node  *)
(* events, restarts and faults.                                            *)
(***************************************************************************)
EXTENDS RunLifecycle, TLAPS

Items == {"progress"} \cup Terminal

-----------------------------------------------------------------------------
(* The queue.                                                              *)

\* Putting an item adds it at the end and disturbs nothing before it.
LEMMA PutItem ==
    ASSUME NEW q \in Seq(Items), NEW item \in Items
    PROVE  /\ Append(q, item) \in Seq(Items)
           /\ Len(Append(q, item)) = Len(q) + 1
           /\ \A i \in DOMAIN q : i \in DOMAIN Append(q, item) /\ Append(q, item)[i] = q[i]
           /\ Len(q) + 1 \in DOMAIN Append(q, item) /\ Append(q, item)[Len(q) + 1] = item
           /\ \A i \in DOMAIN Append(q, item) : i \in DOMAIN q \/ i = Len(q) + 1
OBVIOUS

\* Taking the head off keeps every other item.
LEMMA TakeItem ==
    ASSUME NEW q \in Seq(Items), q # <<>>
    PROVE  /\ Head(q) \in Items /\ Tail(q) \in Seq(Items)
           /\ Len(Tail(q)) = Len(q) - 1
           /\ Head(q) = q[1] /\ 1 \in DOMAIN q
           /\ \A i \in DOMAIN Tail(q) : i + 1 \in DOMAIN q /\ Tail(q)[i] = q[i + 1]
           /\ \A i \in DOMAIN q : i # 1 => i - 1 \in DOMAIN Tail(q) /\ Tail(q)[i - 1] = q[i]
OBVIOUS

\* A process starts with nothing on the queue.
LEMMA EmptyQueue ==
    /\ <<>> \in Seq(Items) /\ Len(<<>>) = 0
    /\ \A i \in DOMAIN <<>> : FALSE
OBVIOUS

-----------------------------------------------------------------------------
(* What each step does to the inductive invariant.                         *)

\* The row of the run appears, with nothing queued and nobody watching.
LEMMA LaunchStep ==
    ASSUME LifecycleInv, NEW who \in {"api", "page"}, Launch(who)
    PROVE  LifecycleInv'
<1> USE DEF LifecycleInv, Launch, row, worker, watchers, mishaps
<1>1. TypeOK'
  BY LifecycleAssumption DEF TypeOK, Terminal, Final, Listeners
<1>2. TaskMatchesRow'
  BY DEF TaskMatchesRow, Mishap
<1>3. EndIsOnTheQueue'
  BY DEF TypeOK, TaskMatchesRow, EndIsOnTheQueue, Announced, Mishap, Terminal, Final
<1>4. ErrorMeansFailed'
  BY DEF ErrorMeansFailed
<1>5. ToldInTime'
  BY DEF TypeOK, TaskMatchesRow, ToldInTime, Mishap, Final
<1>6. PageWatchesItsTask'
  BY DEF TypeOK, TaskMatchesRow, EndIsOnTheQueue, PageWatchesItsTask, Terminal, Listeners
<1>7. NobodyWaitsForNothing'
  BY DEF NobodyWaitsForNothing, Announced, Mishap
<1>8. ErrorIsFinal'
  BY DEF ErrorIsFinal
<1>9. PageShowsACommittedEnd'
  BY DEF TypeOK, TaskMatchesRow, ToldInTime, PageWatchesItsTask, ErrorIsFinal,
     PageShowsACommittedEnd, Mishap, Terminal, Final, Listeners
<1> QED  BY <1>1, <1>2, <1>3, <1>4, <1>5, <1>6, <1>7, <1>8, <1>9 DEF LifecycleInv

\* A lost launch leaves a queued row without a task.
LEMMA LaunchLostStep ==
    ASSUME LifecycleInv, LaunchLost
    PROVE  LifecycleInv'
<1> USE DEF LifecycleInv, LaunchLost, row, worker, watchers, mishaps
<1>1. TypeOK'
  BY LifecycleAssumption DEF TypeOK, EndIsOnTheQueue, Fault, Terminal, Final, Listeners
<1>2. TaskMatchesRow'
  BY DEF TypeOK, TaskMatchesRow, Mishap, Fault, Final
<1>3. EndIsOnTheQueue'
  BY DEF TypeOK, TaskMatchesRow, EndIsOnTheQueue, Announced, Mishap, Fault, Terminal, Final
<1>4. ErrorMeansFailed'
  BY DEF ErrorMeansFailed
<1>5. ToldInTime'
  BY DEF TypeOK, TaskMatchesRow, ToldInTime, Mishap, Fault, Final
<1>6. PageWatchesItsTask'
  BY DEF PageWatchesItsTask
<1>7. NobodyWaitsForNothing'
  BY DEF TypeOK, TaskMatchesRow, EndIsOnTheQueue, ToldInTime, NobodyWaitsForNothing, Announced,
     Mishap, Fault, Terminal, Final
<1>8. ErrorIsFinal'
  BY DEF ErrorIsFinal
<1>9. PageShowsACommittedEnd'
  BY DEF TypeOK, TaskMatchesRow, ToldInTime, PageWatchesItsTask, ErrorIsFinal,
     PageShowsACommittedEnd, Mishap, Fault, Terminal, Final, Listeners
<1> QED  BY <1>1, <1>2, <1>3, <1>4, <1>5, <1>6, <1>7, <1>8, <1>9 DEF LifecycleInv

\* The task is scheduled; the page starts to watch its queue.
LEMMA ScheduleStep ==
    ASSUME LifecycleInv, Schedule
    PROVE  LifecycleInv'
<1> USE DEF LifecycleInv, Schedule, row, worker, watchers, mishaps
<1>1. TypeOK'
  BY LifecycleAssumption DEF TypeOK, Terminal, Final, Listeners
<1>2. TaskMatchesRow'
  BY DEF TaskMatchesRow, Mishap
<1>3. EndIsOnTheQueue'
  BY DEF TypeOK, TaskMatchesRow, EndIsOnTheQueue, Announced, Mishap, Terminal, Final
<1>4. ErrorMeansFailed'
  BY DEF ErrorMeansFailed
<1>5. ToldInTime'
  BY LifecycleAssumption DEF TypeOK, TaskMatchesRow, EndIsOnTheQueue, ErrorMeansFailed,
     ToldInTime, PageWatchesItsTask, NobodyWaitsForNothing, ErrorIsFinal,
     PageShowsACommittedEnd, Announced, Mishap, Terminal, Final, Listeners
<1>6. PageWatchesItsTask'
  BY DEF TypeOK, TaskMatchesRow, EndIsOnTheQueue, PageWatchesItsTask, Terminal, Listeners
<1>7. NobodyWaitsForNothing'
  BY DEF NobodyWaitsForNothing, Announced, Mishap
<1>8. ErrorIsFinal'
  BY DEF ErrorIsFinal
<1>9. PageShowsACommittedEnd'
  BY DEF PageShowsACommittedEnd
<1> QED  BY <1>1, <1>2, <1>3, <1>4, <1>5, <1>6, <1>7, <1>8, <1>9 DEF LifecycleInv

\* The row is committed as running.
LEMMA StartStep ==
    ASSUME LifecycleInv, Start
    PROVE  LifecycleInv'
<1> USE DEF LifecycleInv, Start, row, worker, watchers, mishaps
<1>1. TypeOK'
  BY LifecycleAssumption DEF TypeOK, Terminal, Final, Listeners
<1>2. TaskMatchesRow'
  BY DEF TaskMatchesRow, Mishap
<1>3. EndIsOnTheQueue'
  BY DEF TypeOK, TaskMatchesRow, EndIsOnTheQueue, Announced, Mishap, Terminal, Final
<1>4. ErrorMeansFailed'
  BY DEF ErrorMeansFailed
<1>5. ToldInTime'
  BY DEF TypeOK, TaskMatchesRow, ToldInTime, Mishap, Final
<1>6. PageWatchesItsTask'
  BY DEF PageWatchesItsTask
<1>7. NobodyWaitsForNothing'
  BY DEF NobodyWaitsForNothing, Announced, Mishap
<1>8. ErrorIsFinal'
  BY DEF ErrorIsFinal
<1>9. PageShowsACommittedEnd'
  BY DEF TypeOK, TaskMatchesRow, ToldInTime, PageWatchesItsTask, ErrorIsFinal,
     PageShowsACommittedEnd, Mishap, Terminal, Final, Listeners
<1> QED  BY <1>1, <1>2, <1>3, <1>4, <1>5, <1>6, <1>7, <1>8, <1>9 DEF LifecycleInv

\* A start that raises leaves the row as it was.
LEMMA StartFailsStep ==
    ASSUME LifecycleInv, StartFails
    PROVE  LifecycleInv'
<1> USE DEF LifecycleInv, StartFails, row, worker, watchers, mishaps
<1>1. TypeOK'
  BY LifecycleAssumption DEF TypeOK, EndIsOnTheQueue, Fault, Terminal, Final, Listeners
<1>2. TaskMatchesRow'
  BY DEF TypeOK, TaskMatchesRow, Mishap, Fault, Final
<1>3. EndIsOnTheQueue'
  BY DEF TypeOK, TaskMatchesRow, EndIsOnTheQueue, Announced, Mishap, Fault, Terminal, Final
<1>4. ErrorMeansFailed'
  BY DEF ErrorMeansFailed
<1>5. ToldInTime'
  BY DEF TypeOK, TaskMatchesRow, ToldInTime, Mishap, Fault, Final
<1>6. PageWatchesItsTask'
  BY DEF TypeOK, TaskMatchesRow, EndIsOnTheQueue, PageWatchesItsTask, Fault, Terminal, Listeners
<1>7. NobodyWaitsForNothing'
  BY DEF TypeOK, TaskMatchesRow, EndIsOnTheQueue, ToldInTime, NobodyWaitsForNothing, Announced,
     Mishap, Fault, Terminal, Final
<1>8. ErrorIsFinal'
  BY DEF ErrorIsFinal
<1>9. PageShowsACommittedEnd'
  BY DEF TypeOK, TaskMatchesRow, ToldInTime, PageWatchesItsTask, ErrorIsFinal,
     PageShowsACommittedEnd, Mishap, Fault, Terminal, Final, Listeners
<1> QED  BY <1>1, <1>2, <1>3, <1>4, <1>5, <1>6, <1>7, <1>8, <1>9 DEF LifecycleInv

\* A node event is no end.
LEMMA ProgressStep ==
    ASSUME LifecycleInv, Progress
    PROVE  LifecycleInv'
<1> USE DEF LifecycleInv, Progress, row, worker, watchers, mishaps
<1>1. TypeOK'
  BY LifecycleAssumption DEF TypeOK, EndIsOnTheQueue, Put, Terminal, Final, Listeners
<1>2. TaskMatchesRow'
  BY DEF TaskMatchesRow, Mishap
<1>3. EndIsOnTheQueue'
  BY DEF TypeOK, TaskMatchesRow, EndIsOnTheQueue, Announced, Mishap, Put, Terminal, Final
<1>4. ErrorMeansFailed'
  BY DEF TypeOK, TaskMatchesRow, EndIsOnTheQueue, ErrorMeansFailed, Announced, Put, Terminal
<1>5. ToldInTime'
  BY DEF ToldInTime, Mishap
<1>6. PageWatchesItsTask'
  BY DEF PageWatchesItsTask
<1>7. NobodyWaitsForNothing'
  BY DEF NobodyWaitsForNothing, Announced, Mishap
<1>8. ErrorIsFinal'
  BY DEF ErrorIsFinal
<1>9. PageShowsACommittedEnd'
  BY DEF PageShowsACommittedEnd
<1> QED  BY <1>1, <1>2, <1>3, <1>4, <1>5, <1>6, <1>7, <1>8, <1>9 DEF LifecycleInv

\* The first terminal item is put: a "done".
LEMMA GraphEndsStep ==
    ASSUME LifecycleInv, NEW outcome \in Final, GraphEnds(outcome)
    PROVE  LifecycleInv'
<1> USE DEF LifecycleInv, GraphEnds, row, worker, watchers, mishaps
<1>1. TypeOK'
  BY LifecycleAssumption DEF TypeOK, EndIsOnTheQueue, Put, Terminal, Final, Listeners
<1>2. TaskMatchesRow'
  BY DEF TypeOK, TaskMatchesRow, Mishap, Final
<1>3. EndIsOnTheQueue'
  BY DEF TypeOK, TaskMatchesRow, EndIsOnTheQueue, Announced, Mishap, Put, Terminal, Final
<1>4. ErrorMeansFailed'
  BY DEF TypeOK, TaskMatchesRow, EndIsOnTheQueue, ErrorMeansFailed, Announced, Put, Terminal
<1>5. ToldInTime'
  BY DEF ToldInTime, Mishap
<1>6. PageWatchesItsTask'
  BY DEF PageWatchesItsTask
<1>7. NobodyWaitsForNothing'
  BY DEF NobodyWaitsForNothing, Announced, Mishap
<1>8. ErrorIsFinal'
  BY DEF TypeOK, TaskMatchesRow, EndIsOnTheQueue, ErrorIsFinal, Terminal, Final
<1>9. PageShowsACommittedEnd'
  BY DEF PageShowsACommittedEnd
<1> QED  BY <1>1, <1>2, <1>3, <1>4, <1>5, <1>6, <1>7, <1>8, <1>9 DEF LifecycleInv

\* The first terminal item is put: an "error", with the verdict failed.
LEMMA GraphRaisesStep ==
    ASSUME LifecycleInv, GraphRaises
    PROVE  LifecycleInv'
<1> USE DEF LifecycleInv, GraphRaises, row, worker, watchers, mishaps
<1>1. TypeOK'
  BY LifecycleAssumption DEF TypeOK, EndIsOnTheQueue, Put, Terminal, Final, Listeners
<1>2. TaskMatchesRow'
  BY DEF TaskMatchesRow, Mishap
<1>3. EndIsOnTheQueue'
  BY DEF TypeOK, TaskMatchesRow, EndIsOnTheQueue, Announced, Mishap, Put, Terminal, Final
<1>4. ErrorMeansFailed'
  BY DEF TypeOK, TaskMatchesRow, EndIsOnTheQueue, ErrorMeansFailed, Announced, Put, Terminal
<1>5. ToldInTime'
  BY DEF ToldInTime, Mishap
<1>6. PageWatchesItsTask'
  BY DEF PageWatchesItsTask
<1>7. NobodyWaitsForNothing'
  BY DEF NobodyWaitsForNothing, Announced, Mishap
<1>8. ErrorIsFinal'
  BY DEF ErrorIsFinal
<1>9. PageShowsACommittedEnd'
  BY DEF PageShowsACommittedEnd
<1> QED  BY <1>1, <1>2, <1>3, <1>4, <1>5, <1>6, <1>7, <1>8, <1>9 DEF LifecycleInv

\* The verdict becomes the status; its end has been announced.
LEMMA CommitStep ==
    ASSUME LifecycleInv, Commit
    PROVE  LifecycleInv'
<1> USE DEF LifecycleInv, Commit, row, worker, watchers, mishaps
<1>1. TypeOK'
  BY LifecycleAssumption DEF TypeOK, TaskMatchesRow, EndIsOnTheQueue, ErrorMeansFailed,
     ToldInTime, PageWatchesItsTask, NobodyWaitsForNothing, ErrorIsFinal,
     PageShowsACommittedEnd, Announced, Mishap, Terminal, Final, Listeners
<1>2. TaskMatchesRow'
  BY DEF TypeOK, TaskMatchesRow, Mishap, Final
<1>3. EndIsOnTheQueue'
  BY DEF EndIsOnTheQueue, Announced, Mishap
<1>4. ErrorMeansFailed'
  BY DEF ErrorMeansFailed
<1>5. ToldInTime'
  BY DEF TypeOK, TaskMatchesRow, ToldInTime, Mishap, Final
<1>6. PageWatchesItsTask'
  BY DEF PageWatchesItsTask
<1>7. NobodyWaitsForNothing'
  BY DEF TypeOK, TaskMatchesRow, EndIsOnTheQueue, ToldInTime, NobodyWaitsForNothing, Announced,
     Mishap, Terminal, Final
<1>8. ErrorIsFinal'
  BY DEF ErrorIsFinal
<1>9. PageShowsACommittedEnd'
  BY DEF TypeOK, TaskMatchesRow, ToldInTime, PageWatchesItsTask, ErrorIsFinal,
     PageShowsACommittedEnd, Mishap, Terminal, Final, Listeners
<1> QED  BY <1>1, <1>2, <1>3, <1>4, <1>5, <1>6, <1>7, <1>8, <1>9 DEF LifecycleInv

\* A last commit that raises is a mishap.
LEMMA CommitFailsStep ==
    ASSUME LifecycleInv, CommitFails
    PROVE  LifecycleInv'
<1> USE DEF LifecycleInv, CommitFails, row, worker, watchers, mishaps
<1>1. TypeOK'
  BY LifecycleAssumption DEF TypeOK, EndIsOnTheQueue, Fault, Terminal, Final, Listeners
<1>2. TaskMatchesRow'
  BY DEF TypeOK, TaskMatchesRow, Mishap, Fault, Final
<1>3. EndIsOnTheQueue'
  BY DEF TypeOK, TaskMatchesRow, EndIsOnTheQueue, Announced, Mishap, Fault, Terminal, Final
<1>4. ErrorMeansFailed'
  BY DEF ErrorMeansFailed
<1>5. ToldInTime'
  BY DEF TypeOK, TaskMatchesRow, ToldInTime, Mishap, Fault, Final
<1>6. PageWatchesItsTask'
  BY DEF TypeOK, TaskMatchesRow, EndIsOnTheQueue, PageWatchesItsTask, Fault, Terminal, Listeners
<1>7. NobodyWaitsForNothing'
  BY DEF TypeOK, TaskMatchesRow, EndIsOnTheQueue, ToldInTime, NobodyWaitsForNothing, Announced,
     Mishap, Fault, Terminal, Final
<1>8. ErrorIsFinal'
  BY DEF ErrorIsFinal
<1>9. PageShowsACommittedEnd'
  BY DEF TypeOK, TaskMatchesRow, ToldInTime, PageWatchesItsTask, ErrorIsFinal,
     PageShowsACommittedEnd, Mishap, Fault, Terminal, Final, Listeners
<1> QED  BY <1>1, <1>2, <1>3, <1>4, <1>5, <1>6, <1>7, <1>8, <1>9 DEF LifecycleInv

\* A stream is told the committed end, or waits.
LEMMA OpenStreamStep ==
    ASSUME LifecycleInv, NEW s \in Streams, OpenStream(s)
    PROVE  LifecycleInv'
<1> USE DEF LifecycleInv, OpenStream, row, worker, watchers, mishaps
<1>1. TypeOK'
  BY LifecycleAssumption DEF TypeOK, EndIsOnTheQueue, Told, Terminal, Final, Listeners
<1>2. TaskMatchesRow'
  BY DEF TaskMatchesRow, Mishap
<1>3. EndIsOnTheQueue'
  BY DEF TypeOK, TaskMatchesRow, EndIsOnTheQueue, Announced, Mishap, Terminal, Final
<1>4. ErrorMeansFailed'
  BY DEF ErrorMeansFailed
<1>5. ToldInTime'
  BY LifecycleAssumption DEF TypeOK, TaskMatchesRow, EndIsOnTheQueue, ErrorMeansFailed,
     ToldInTime, PageWatchesItsTask, NobodyWaitsForNothing, ErrorIsFinal,
     PageShowsACommittedEnd, Announced, Mishap, Told, Terminal, Final, Listeners
<1>6. PageWatchesItsTask'
  BY LifecycleAssumption DEF TypeOK, TaskMatchesRow, EndIsOnTheQueue, ErrorMeansFailed,
     ToldInTime, PageWatchesItsTask, NobodyWaitsForNothing, ErrorIsFinal,
     PageShowsACommittedEnd, Announced, Mishap, Told, Terminal, Final, Listeners
<1>7. NobodyWaitsForNothing'
  BY DEF TypeOK, TaskMatchesRow, EndIsOnTheQueue, ToldInTime, NobodyWaitsForNothing, Announced,
     Mishap, Terminal, Final
<1>8. ErrorIsFinal'
  BY DEF TypeOK, TaskMatchesRow, EndIsOnTheQueue, ErrorIsFinal, Told, Terminal, Final
<1>9. PageShowsACommittedEnd'
  BY DEF PageShowsACommittedEnd
<1> QED  BY <1>1, <1>2, <1>3, <1>4, <1>5, <1>6, <1>7, <1>8, <1>9 DEF LifecycleInv

\* A stream that leaves waits for nothing.
LEMMA StreamLeavesStep ==
    ASSUME LifecycleInv, NEW s \in Streams, StreamLeaves(s)
    PROVE  LifecycleInv'
<1> USE DEF LifecycleInv, StreamLeaves, row, worker, watchers, mishaps
<1>1. TypeOK'
  BY LifecycleAssumption DEF TypeOK, Terminal, Final, Listeners
<1>2. TaskMatchesRow'
  BY DEF TaskMatchesRow, Mishap
<1>3. EndIsOnTheQueue'
  BY DEF TypeOK, TaskMatchesRow, EndIsOnTheQueue, Announced, Mishap, Terminal, Final
<1>4. ErrorMeansFailed'
  BY DEF ErrorMeansFailed
<1>5. ToldInTime'
  BY LifecycleAssumption DEF TypeOK, TaskMatchesRow, EndIsOnTheQueue, ErrorMeansFailed,
     ToldInTime, PageWatchesItsTask, NobodyWaitsForNothing, ErrorIsFinal,
     PageShowsACommittedEnd, Announced, Mishap, Terminal, Final, Listeners
<1>6. PageWatchesItsTask'
  BY LifecycleAssumption DEF TypeOK, TaskMatchesRow, EndIsOnTheQueue, ErrorMeansFailed,
     ToldInTime, PageWatchesItsTask, NobodyWaitsForNothing, ErrorIsFinal,
     PageShowsACommittedEnd, Announced, Mishap, Terminal, Final, Listeners
<1>7. NobodyWaitsForNothing'
  BY DEF NobodyWaitsForNothing, Announced, Mishap
<1>8. ErrorIsFinal'
  BY DEF ErrorIsFinal
<1>9. PageShowsACommittedEnd'
  BY DEF PageShowsACommittedEnd
<1> QED  BY <1>1, <1>2, <1>3, <1>4, <1>5, <1>6, <1>7, <1>8, <1>9 DEF LifecycleInv

\* The page reads the status after the task is gone.
LEMMA PageRefreshStep ==
    ASSUME LifecycleInv, PageRefresh \/ PageRefreshFails
    PROVE  LifecycleInv'
<1>0. /\ UNCHANGED <<status, by, task, verdict, progressed, queue, listener, taken, restarts>>
      /\ faults \in Nat /\ faults' \in 0 .. MaxFaults /\ restarts \in Nat
      /\ task = "none" /\ shown = "nothing" /\ listener[Page] \in Terminal
      /\ shown' \in {"error", "result", "unread"}
      /\ \/ faults' = faults /\ shown' = Displayed(listener[Page])
         \/ faults' = faults + 1 /\ shown' = "unread"
  <2> USE LifecycleAssumption DEF LifecycleInv, TypeOK, row, worker, mishaps, Terminal
  <2>1. CASE PageRefresh
    BY <2>1 DEF PageRefresh, Displayed
  <2>2. CASE PageRefreshFails
    BY <2>2 DEF PageRefreshFails, Fault
  <2> QED  BY <2>1, <2>2
<1> USE <1>0 DEF LifecycleInv
<1>1. TypeOK'
  BY LifecycleAssumption DEF TypeOK, TaskMatchesRow, EndIsOnTheQueue, ErrorMeansFailed,
     ToldInTime, PageWatchesItsTask, NobodyWaitsForNothing, ErrorIsFinal,
     PageShowsACommittedEnd, Announced, Mishap, Terminal, Final, Listeners
<1>2. TaskMatchesRow'
  BY DEF TaskMatchesRow, Mishap
<1>3. EndIsOnTheQueue'
  BY DEF EndIsOnTheQueue, Announced, Mishap
<1>4. ErrorMeansFailed'
  BY DEF ErrorMeansFailed
<1>5. ToldInTime'
  BY DEF ToldInTime, Mishap
<1>6. PageWatchesItsTask'
  BY DEF TypeOK, TaskMatchesRow, EndIsOnTheQueue, PageWatchesItsTask, Terminal, Listeners
<1>7. NobodyWaitsForNothing'
  BY DEF NobodyWaitsForNothing, Announced, Mishap
<1>8. ErrorIsFinal'
  BY DEF ErrorIsFinal
<1>9. PageShowsACommittedEnd'
  BY DEF TypeOK, TaskMatchesRow, ToldInTime, PageWatchesItsTask, ErrorIsFinal,
     PageShowsACommittedEnd, Mishap, Terminal, Final, Listeners, Displayed
<1> QED  BY <1>1, <1>2, <1>3, <1>4, <1>5, <1>6, <1>7, <1>8, <1>9 DEF LifecycleInv

\* The process loses task, queue and watchers together.
LEMMA RestartStep ==
    ASSUME LifecycleInv, Restart
    PROVE  LifecycleInv'
<1> USE DEF LifecycleInv, Restart, row, worker, watchers, mishaps
<1>1. TypeOK'
  <2>1. queue' \in Seq(Items) /\ Len(queue') <= MaxProgress + 1
    BY LifecycleAssumption, EmptyQueue DEF Restart
  <2>2. restarts' \in 0 .. MaxRestarts
    BY LifecycleAssumption DEF Restart, TypeOK
  <2>3. listener' \in [Listeners -> {"away", "waiting"} \cup Terminal]
    BY DEF Restart
  <2>4. QED
    BY <2>1, <2>2, <2>3 DEF Restart, TypeOK, Items, row
<1>2. TaskMatchesRow'
  BY DEF TypeOK, TaskMatchesRow, Mishap, Final
<1>3. EndIsOnTheQueue'
  BY DEF TypeOK, TaskMatchesRow, EndIsOnTheQueue, Announced, Mishap, Terminal, Final
<1>4. ErrorMeansFailed'
  BY DEF ErrorMeansFailed
<1>5. ToldInTime'
  BY DEF TypeOK, TaskMatchesRow, ToldInTime, Mishap, Final
<1>6. PageWatchesItsTask'
  BY DEF TypeOK, TaskMatchesRow, EndIsOnTheQueue, PageWatchesItsTask, Terminal, Listeners
<1>7. NobodyWaitsForNothing'
  BY DEF NobodyWaitsForNothing, Announced, Mishap
<1>8. ErrorIsFinal'
  BY DEF ErrorIsFinal
<1>9. PageShowsACommittedEnd'
  BY DEF PageShowsACommittedEnd
<1> QED  BY <1>1, <1>2, <1>3, <1>4, <1>5, <1>6, <1>7, <1>8, <1>9 DEF LifecycleInv

\* The head of the queue goes to one watcher; an end on it is taken.
LEMMA ReceiveStep ==
    ASSUME LifecycleInv, NEW l \in Listeners, Receive(l)
    PROVE  LifecycleInv'
<1> USE DEF LifecycleInv, row, worker, mishaps
<1>1. queue \in Seq(Items) /\ queue # <<>> /\ queue' = Tail(queue)
  BY DEF TypeOK, Receive, Items
<1>2. /\ Head(queue) \in Items /\ Tail(queue) \in Seq(Items) /\ Len(Tail(queue)) = Len(queue) - 1
      /\ Head(queue) = queue[1] /\ 1 \in DOMAIN queue
      /\ \A i \in DOMAIN Tail(queue) : i + 1 \in DOMAIN queue /\ Tail(queue)[i] = queue[i + 1]
      /\ \A i \in DOMAIN queue : i # 1 => i - 1 \in DOMAIN Tail(queue) /\ Tail(queue)[i - 1] = queue[i]
  BY <1>1, TakeItem
<1>3. /\ Head(queue) \in Terminal => Announced
      /\ Announced' => Announced
      /\ Announced => Announced' \/ Head(queue) \in Terminal
  BY <1>1, <1>2 DEF Announced
<1>4. /\ Head(queue) \in Terminal => listener' = [listener EXCEPT ![l] = Head(queue)] /\ taken' = TRUE
      /\ Head(queue) \notin Terminal => UNCHANGED <<listener, taken>>
      /\ listener[l] = "waiting" /\ UNCHANGED <<row, worker, shown, mishaps>>
  BY DEF Receive
<1>5. TypeOK'
  <2>1. queue' \in Seq(Items) /\ Len(queue') <= MaxProgress + 1
    BY <1>1, <1>2, LifecycleAssumption DEF TypeOK
  <2>2. /\ listener' \in [Listeners -> {"away", "waiting"} \cup Terminal]
        /\ taken' \in BOOLEAN
    BY <1>4 DEF TypeOK
  <2>3. QED
    BY <1>4, <2>1, <2>2 DEF TypeOK, Items, watchers
<1>6. TaskMatchesRow'
  BY <1>1, <1>4 DEF TaskMatchesRow, Mishap
<1>7. EndIsOnTheQueue'
  <2>1. Len(queue') <= progressed' + (IF Announced' THEN 1 ELSE 0)
    BY <1>1, <1>2, <1>3, <1>4 DEF EndIsOnTheQueue, TypeOK
  <2>2. task' \in {"created", "scheduled", "graph"} =>
          ~Announced' /\ ~taken' /\ \A k \in Listeners : listener'[k] \notin Terminal
    BY <1>3, <1>4 DEF EndIsOnTheQueue
  <2>3. task' = "announced" \/ status' \in Final => Announced' \/ taken' \/ Mishap'
    BY <1>3, <1>4 DEF EndIsOnTheQueue, Mishap
  <2>4. QED  BY <2>1, <2>2, <2>3 DEF EndIsOnTheQueue
<1>8. ErrorMeansFailed'
  BY <1>1, <1>2, <1>4 DEF ErrorMeansFailed
<1>9. ToldInTime'
  BY <1>3, <1>4 DEF ToldInTime, EndIsOnTheQueue, TaskMatchesRow, TypeOK, Mishap, Terminal, Final
<1>10. PageWatchesItsTask'
  BY <1>3, <1>4, LifecycleAssumption DEF PageWatchesItsTask, TypeOK, Listeners, Terminal
<1>11. NobodyWaitsForNothing'
  BY <1>3, <1>4 DEF NobodyWaitsForNothing, TypeOK, Mishap, Terminal
<1>12. ErrorIsFinal'
  BY <1>1, <1>2, <1>4 DEF ErrorIsFinal, ErrorMeansFailed, TypeOK
<1>13. PageShowsACommittedEnd'
  BY <1>4 DEF PageShowsACommittedEnd
<1>14. QED
  BY <1>5, <1>6, <1>7, <1>8, <1>9, <1>10, <1>11, <1>12, <1>13 DEF LifecycleInv

\* Every step of Next, and stuttering, preserves the invariant.
LEMMA InvariantStep ==
    ASSUME LifecycleInv, [Next]_vars
    PROVE  LifecycleInv'
<1>1. CASE \E who \in {"api", "page"} : Launch(who)
  BY <1>1, LaunchStep
<1>2. CASE LaunchLost
  BY <1>2, LaunchLostStep
<1>3. CASE Schedule
  BY <1>3, ScheduleStep
<1>4. CASE Start
  BY <1>4, StartStep
<1>5. CASE StartFails
  BY <1>5, StartFailsStep
<1>6. CASE GraphStep
  BY <1>6, ProgressStep, GraphRaisesStep, GraphEndsStep DEF GraphStep
<1>7. CASE Commit
  BY <1>7, CommitStep
<1>8. CASE CommitFails
  BY <1>8, CommitFailsStep
<1>9. CASE \E s \in Streams : OpenStream(s) \/ StreamLeaves(s)
  BY <1>9, OpenStreamStep, StreamLeavesStep
<1>10. CASE \E l \in Listeners : Receive(l)
  BY <1>10, ReceiveStep
<1>11. CASE PageRefresh \/ PageRefreshFails
  BY <1>11, PageRefreshStep
<1>12. CASE Restart
  BY <1>12, RestartStep
<1>13. CASE UNCHANGED vars
  BY <1>13 DEF vars, row, worker, watchers, mishaps, LifecycleInv, TypeOK, TaskMatchesRow,
     EndIsOnTheQueue, ErrorMeansFailed, ToldInTime, PageWatchesItsTask, NobodyWaitsForNothing,
     ErrorIsFinal, PageShowsACommittedEnd, Announced, Mishap
<1>14. QED
  BY <1>1, <1>2, <1>3, <1>4, <1>5, <1>6, <1>7, <1>8, <1>9, <1>10, <1>11, <1>12, <1>13 DEF Next

-----------------------------------------------------------------------------
(* The theorems.                                                           *)

\* Nothing has been launched, queued or told at the start.
LEMMA InitialInvariant == ASSUME Init PROVE LifecycleInv
<1>1. queue \in Seq(Items) /\ Len(queue) = 0 /\ ~Announced
  BY EmptyQueue DEF Init, Announced
<1>2. TypeOK
  <2>1. queue \in Seq({"progress"} \cup Terminal) /\ Len(queue) <= MaxProgress + 1
    BY <1>1, LifecycleAssumption DEF Items
  <2>2. progressed \in 0 .. MaxProgress /\ restarts \in 0 .. MaxRestarts /\ faults \in 0 .. MaxFaults
    BY LifecycleAssumption DEF Init
  <2>3. listener \in [Listeners -> {"away", "waiting"} \cup Terminal]
    BY DEF Init
  <2>4. QED
    BY <2>1, <2>2, <2>3 DEF Init, TypeOK
<1>3. TaskMatchesRow /\ ToldInTime /\ PageWatchesItsTask
  BY DEF Init, TaskMatchesRow, ToldInTime, PageWatchesItsTask, Mishap, Terminal, Final, Listeners
<1>4. EndIsOnTheQueue
  BY <1>1 DEF Init, EndIsOnTheQueue, Final
<1>5. ErrorMeansFailed /\ NobodyWaitsForNothing /\ ErrorIsFinal /\ PageShowsACommittedEnd
  BY DEF Init, ErrorMeansFailed, NobodyWaitsForNothing, ErrorIsFinal, PageShowsACommittedEnd
<1>6. QED  BY <1>2, <1>3, <1>4, <1>5 DEF LifecycleInv

\* LifecycleInv, the strengthening of the safety properties, holds in every
\* state of every behaviour of the launcher, the executor and the watchers.
THEOREM LifecycleInvariance == Spec => []LifecycleInv
  BY InitialInvariant, InvariantStep, PTL DEF Spec

\* The rows, the queue and the watchers keep their types; the queue never
\* holds more than the node events and one end.
THEOREM LifecycleTypes == Spec => []TypeOK
<1>1. LifecycleInv => TypeOK
  BY DEF LifecycleInv
<1>2. QED  BY <1>1, LifecycleInvariance, PTL

\* No branch of execute_run ends a run and leaves a watcher without an end to
\* read, however many streams share the queue.
THEOREM WaitersHaveAnEndToRead == Spec => []NobodyWaitsForNothing
<1>1. LifecycleInv => NobodyWaitsForNothing
  BY DEF LifecycleInv
<1>2. QED  BY <1>1, LifecycleInvariance, PTL

\* A run some watcher was told has failed is never committed as completed.
THEOREM ErrorsAreFinal == Spec => []ErrorIsFinal
<1>1. LifecycleInv => ErrorIsFinal
  BY DEF LifecycleInv
<1>2. QED  BY <1>1, LifecycleInvariance, PTL

\* What the page of tailor() displays after its gather is what was committed.
THEOREM PageWaitsForTheCommit == Spec => []PageShowsACommittedEnd
<1>1. LifecycleInv => PageShowsACommittedEnd
  BY DEF LifecycleInv
<1>2. QED  BY <1>1, LifecycleInvariance, PTL
-----------------------------------------------------------------------------
(* The run ends.                                                           *)

\* The steps the task of the run has left.
TaskLeft ==
    CASE status = "absent"  -> MaxProgress + 5
      [] task = "created"   -> MaxProgress + 4
      [] task = "scheduled" -> MaxProgress + 3
      [] task = "graph"     -> MaxProgress - progressed + 2
      [] task = "announced" -> 1
      [] OTHER              -> 0

\* A step of the task puts at most one item on the queue, and weighs more than it.
WorkLeft == 2 * TaskLeft + Len(queue)

EveryStepIsWork ==
    /\ WorkLeft \in Nat
    /\ WorkLeft' < WorkLeft \/ UNCHANGED <<row, worker, queue>>

LEMMA TaskLeftNat ==
    ASSUME LifecycleInv
    PROVE  TaskLeft \in Nat /\ Len(queue) \in Nat
<1>1. /\ MaxProgress \in Nat /\ progressed \in 0 .. MaxProgress
      /\ task \in {"none", "created", "scheduled", "graph", "announced"}
      /\ queue \in Seq(Items)
  BY LifecycleAssumption DEF LifecycleInv, TypeOK, Items
<1>2. CASE status = "absent"
  BY <1>1, <1>2 DEF TaskLeft
<1>3. CASE status # "absent"
  BY <1>1, <1>3 DEF TaskLeft
<1> QED  BY <1>1, <1>2, <1>3

\* The launcher and the executor go forward: whatever raises, no step of theirs
\* leads back to one taken before.
LEMMA WorkOfTheTask ==
    ASSUME LifecycleInv, LifecycleInv',
           \/ \E who \in {"api", "page"} : Launch(who)
           \/ LaunchLost \/ Schedule \/ Start \/ StartFails
           \/ GraphStep \/ Commit \/ CommitFails
    PROVE  WorkLeft' < WorkLeft
<1>1. /\ MaxProgress \in Nat /\ progressed \in 0 .. MaxProgress
      /\ queue \in Seq(Items)
      /\ status = "absent" => task = "none"
      /\ task \in {"created", "scheduled"} => status = "queued"
      /\ task \in {"graph", "announced"} => status = "running"
      /\ verdict # "none" <=> task = "announced"
  BY LifecycleAssumption DEF LifecycleInv, TypeOK, TaskMatchesRow, Items
<1>2. TaskLeft \in Nat /\ Len(queue) \in Nat
  BY TaskLeftNat
<1>3. CASE GraphStep
  <2>1. /\ task = "graph" /\ status' = status
        /\ \/ task' = "announced" /\ progressed' = progressed
           \/ task' = "graph" /\ progressed < MaxProgress /\ progressed' = progressed + 1
    BY <1>3 DEF GraphStep, Progress, GraphRaises, GraphEnds, row, worker
  <2>2. TaskLeft = MaxProgress - progressed + 2
    BY <1>1, <2>1 DEF TaskLeft
  <2>3. TaskLeft' \in Nat /\ TaskLeft' < TaskLeft
    <3>1. CASE task' = "announced"
      <4>1. TaskLeft' = 1
        BY <1>1, <2>1, <3>1 DEF TaskLeft
      <4> QED  BY <1>1, <2>2, <4>1
    <3>2. CASE task' = "graph" /\ progressed < MaxProgress /\ progressed' = progressed + 1
      <4>1. TaskLeft' = MaxProgress - (progressed + 1) + 2
        BY <1>1, <2>1, <3>2 DEF TaskLeft
      <4> QED  BY <1>1, <2>2, <3>2, <4>1
    <3> QED  BY <2>1, <3>1, <3>2
  <2>4. Len(queue') = Len(queue) + 1
    <3>1. \E item \in Items : queue' = Append(queue, item)
      BY <1>3 DEF GraphStep, Progress, GraphRaises, GraphEnds, Put, Items, Terminal
    <3> QED  BY <1>1, <3>1, PutItem
  <2> QED  BY <1>2, <2>3, <2>4 DEF WorkLeft
<1>4. CASE ~GraphStep
  <2>1. queue' = queue
    BY <1>4 DEF Launch, LaunchLost, Schedule, Start, StartFails, Commit, CommitFails
  <2>2. TaskLeft' \in Nat /\ TaskLeft' < TaskLeft
    <3>1. CASE \E who \in {"api", "page"} : Launch(who)
      <4>1. TaskLeft = MaxProgress + 5 /\ TaskLeft' = MaxProgress + 4
        BY <1>1, <3>1 DEF Launch, TaskLeft
      <4> QED  BY <1>1, <4>1
    <3>2. CASE Schedule
      <4>1. TaskLeft = MaxProgress + 4 /\ TaskLeft' = MaxProgress + 3
        BY <1>1, <3>2 DEF Schedule, row, TaskLeft
      <4> QED  BY <1>1, <4>1
    <3>3. CASE Start
      <4>1. TaskLeft = MaxProgress + 3 /\ TaskLeft' = MaxProgress - progressed + 2
        BY <1>1, <3>3 DEF Start, row, TaskLeft
      <4> QED  BY <1>1, <4>1
    <3>4. CASE LaunchLost \/ StartFails \/ CommitFails
      <4>1. /\ task \in {"created", "scheduled", "announced"}
            /\ task' = "none" /\ status' = status /\ status # "absent"
        BY <1>1, <3>4 DEF LaunchLost, StartFails, CommitFails, row
      <4>2. TaskLeft' = 0 /\ TaskLeft > 0
        BY <1>1, <4>1 DEF TaskLeft
      <4> QED  BY <1>2, <4>2
    <3>5. CASE Commit
      <4>1. /\ task = "announced" /\ status = "running" /\ task' = "none"
            /\ status' \in Final
        BY <1>1, <3>5 DEF Commit, LifecycleInv, TypeOK
      <4>2. TaskLeft' = 0 /\ TaskLeft = 1
        BY <4>1 DEF TaskLeft, Final
      <4> QED  BY <4>2
    <3> QED  BY <1>4, <3>1, <3>2, <3>3, <3>4, <3>5
  <2> QED  BY <1>2, <2>1, <2>2 DEF WorkLeft
<1> QED  BY <1>3, <1>4

\* A watcher takes an item off the queue, a restart drops them all.
LEMMA WorkOfTheOthers ==
    ASSUME LifecycleInv, LifecycleInv', (\E l \in Listeners : Receive(l)) \/ Restart
    PROVE  WorkLeft' < WorkLeft \/ UNCHANGED <<row, worker, queue>>
<1>1. /\ MaxProgress \in Nat /\ progressed \in 0 .. MaxProgress
      /\ task \in {"none", "created", "scheduled", "graph", "announced"}
      /\ queue \in Seq(Items)
      /\ verdict # "none" <=> task = "announced"
  BY LifecycleAssumption DEF LifecycleInv, TypeOK, TaskMatchesRow, Items
<1>2. TaskLeft \in Nat /\ Len(queue) \in Nat
  BY TaskLeftNat
<1>3. CASE \E l \in Listeners : Receive(l)
  <2>1. /\ queue # <<>> /\ queue' = Tail(queue)
        /\ status' = status /\ task' = task /\ progressed' = progressed
    BY <1>3 DEF Receive, row, worker
  <2>2. Len(queue') = Len(queue) - 1
    BY <1>1, <2>1, TakeItem
  <2>3. TaskLeft' = TaskLeft
    BY <2>1 DEF TaskLeft
  <2> QED  BY <1>2, <2>2, <2>3 DEF WorkLeft
<1>4. CASE Restart
  <2>1. /\ status # "absent" /\ status' = status /\ by' = by /\ task' = "none"
        /\ verdict' = "none" /\ queue' = <<>> /\ progressed' = progressed
    BY <1>4 DEF Restart, row
  <2>2. TaskLeft' = 0 /\ Len(queue') = 0
    BY <2>1, EmptyQueue DEF TaskLeft
  <2>3. CASE task # "none"
    <3>1. TaskLeft > 0
      BY <1>1, <2>1, <2>3 DEF TaskLeft
    <3> QED  BY <1>2, <2>2, <3>1 DEF WorkLeft
  <2>4. CASE task = "none" /\ queue # <<>>
    <3>1. Len(queue) > 0
      BY <1>1, <2>4
    <3> QED  BY <1>2, <2>2, <3>1 DEF WorkLeft
  <2>5. CASE task = "none" /\ queue = <<>>
    BY <1>1, <2>1, <2>5 DEF row, worker
  <2> QED  BY <2>3, <2>4, <2>5
<1> QED  BY <1>3, <1>4

\* A run and those who read its queue take finitely many steps, whatever raises and
\* whenever the process dies: what may go on is that streams come and go and that
\* the page displays the end (run_executor.py, run_progress.py).
THEOREM RunIsFinite == Spec => [][EveryStepIsWork]_vars
<1>1. LifecycleInv /\ LifecycleInv' /\ Next => EveryStepIsWork
  <2> SUFFICES ASSUME LifecycleInv, LifecycleInv', Next PROVE EveryStepIsWork
    OBVIOUS
  <2>1. WorkLeft \in Nat
    BY TaskLeftNat DEF WorkLeft
  <2>2. CASE PageRefresh \/ PageRefreshFails \/ \E s \in Streams : OpenStream(s) \/ StreamLeaves(s)
    BY <2>1, <2>2 DEF PageRefresh, PageRefreshFails, OpenStream, StreamLeaves, EveryStepIsWork
  <2> QED  BY <2>1, <2>2, WorkOfTheTask, WorkOfTheOthers DEF Next, EveryStepIsWork
<1> QED  BY <1>1, LifecycleInvariance, PTL DEF Spec

\* A run that is neither over nor lost to a restart or a failed call has a task, and
\* so a step that brings it nearer its end: the launcher commits no row it does not
\* go on to execute, and no branch of the executor leaves one behind
\* (run_launcher.py, run_executor.py).
RunHasItsTask == status \in {"queued", "running"} => task # "none" \/ Mishap

THEOREM NoRunIsAbandoned == Spec => []RunHasItsTask
<1>1. LifecycleInv => RunHasItsTask
  BY DEF LifecycleInv, TaskMatchesRow, RunHasItsTask, Final
<1> QED  BY <1>1, LifecycleInvariance, PTL
=============================================================================
