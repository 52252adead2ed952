-------------------------------- MODULE Service --------------------------------
(***************************************************************************)
(* The processes of Startup once they are up: every request is counted      *)
(* against the limit of its key, in Redis or, when Redis cannot be reached, *)
(* in the memory of the process that handles it.                            *)
(*                                                                         *)
(* The key names the endpoint class, the peer address and the window.  The  *)
(* requests are those of one endpoint class from one peer address, which    *)
(* several customers share: the page calls the API from the server, and a   *)
(* proxy stands before the rest.  A request reads the clock once, waits for *)
(* its count, and may be counted after its window ended.                    *)
(***************************************************************************)
EXTENDS Startup

CONSTANTS
    None,
    Requests,      \* bound: the requests of the peer
    Customers,     \* who the requests are sent for
    Local,         \* the environment is local: requests of the machine itself come too
    Windows,       \* the windows of time explored, as 0 .. n
    Limit          \* LIMITS of the class: requests per window

ASSUME ServiceAssumption ==
    /\ IsFiniteSet(Requests)
    /\ Local \in BOOLEAN
    /\ Windows \in Nat
    /\ Limit \in Nat

VARIABLES
    now,        \* the current window
    redisUp,    \* Redis answers
    redis,      \* its counters, by window
    memory,     \* _memory_counts of each process, by window
    request,    \* where each request is
    counters    \* history: the counters that counted in each window

rateVars == <<now, redisUp, redis, memory, request, counters>>
vars == <<startupVars, rateVars>>

Times == 0 .. Windows
Nothing == [w \in Times |-> 0]

\* A request waits for its count, is admitted or refused, is lost with its process,
\* or is let through without a count.
States == {"new", "waiting", "admitted", "refused", "lost", "through"}
Unsent == [state |-> "new", process |-> None, window |-> -1, customer |-> None]

Sent(w) == {q \in Requests : request[q].window = w}
InState(w, what) == {q \in Sent(w) : request[q].state = what}
Waiting(w) == InState(w, "waiting")
Admitted(w) == InState(w, "admitted")
Refused(w) == InState(w, "refused")

ServiceInit ==
    /\ Init
    /\ now = 0
    /\ redisUp \in BOOLEAN
    /\ redis = Nothing
    /\ memory = [p \in Processes |-> Nothing]
    /\ request = [q \in Requests |-> Unsent]
    /\ counters = Nothing

--------------------------------------------------------------------------------
Receive(p, q, what, w) ==
    /\ phase[p] = "up"
    /\ request[q].state = "new"
    /\ \E c \in Customers :
          request' = [request EXCEPT
                        ![q] = [state |-> what, process |-> p, window |-> w, customer |-> c]]
    /\ UNCHANGED <<startupVars, now, redisUp, redis, memory, counters>>

\* dispatch: a request from a loopback address of a local environment is not counted.
LetThrough(p, q) == Local /\ Receive(p, q, "through", -1)

\* dispatch: the key is made from the clock.
Arrive(p, q) == Receive(p, q, "waiting", now)

\* The request is let through if its count is within the limit.
Decide(q, count) ==
    /\ request' = [request EXCEPT ![q].state = IF count > Limit THEN "refused" ELSE "admitted"]
    /\ UNCHANGED <<startupVars, now, redisUp>>

\* One more counter, if this one was at zero.
First(count) == IF count = 0 THEN 1 ELSE 0

\* INCR, and EXPIRE with it, in one script.
CountInRedis(q) ==
    LET w == request[q].window
    IN  /\ request[q].state = "waiting"
        /\ redisUp
        /\ redis' = [redis EXCEPT ![w] = @ + 1]
        /\ counters' = [counters EXCEPT ![w] = @ + First(redis[w])]
        /\ memory' = memory
        /\ Decide(q, redis[w] + 1)

\* A slip: the count that was read, without this request.
CountInMemorySlip(q) ==
    LET p == request[q].process
        w == request[q].window
    IN  /\ request[q].state = "waiting"
        /\ redis' = redis
        /\ memory' = [memory EXCEPT ![p][w] = @ + 1]
        /\ counters' = [counters EXCEPT ![w] = @ + First(memory[p][w])]
        /\ Decide(q, memory[p][w])

\* A slip: the key does not name the window.
CountOneKeySlip(q) ==
    LET p == request[q].process
    IN  /\ request[q].state = "waiting"
        /\ redis' = redis
        /\ memory' = [memory EXCEPT ![p][0] = @ + 1]
        /\ counters' = [counters EXCEPT ![0] = @ + First(memory[p][0])]
        /\ Decide(q, memory[p][0] + 1)

\* Redis cannot be reached, or its answer is lost after the script ran.
CountInMemory(q) ==
    LET p == request[q].process
        w == request[q].window
    IN  /\ request[q].state = "waiting"
        /\ memory' = [memory EXCEPT ![p][w] = @ + 1]
        /\ \/ /\ redis' = redis
              /\ counters' = [counters EXCEPT ![w] = @ + First(memory[p][w])]
           \/ /\ redisUp
              /\ redis' = [redis EXCEPT ![w] = @ + 1]
              /\ counters' = [counters EXCEPT ![w] = @ + First(memory[p][w]) + First(redis[w])]
        /\ Decide(q, memory[p][w] + 1)

WindowEnds ==
    /\ now < Windows
    /\ now' = now + 1
    /\ UNCHANGED <<startupVars, redisUp, redis, memory, request, counters>>

\* A counter lives as long as a window from its first request on: it may be gone
\* when a request that waited for Redis is counted after its window.
CounterExpires(w) ==
    /\ w < now
    /\ \/ /\ redis[w] # 0
          /\ redis' = [redis EXCEPT ![w] = 0]
          /\ memory' = memory
       \/ \E p \in Processes :
             /\ memory[p][w] # 0
             /\ memory' = [memory EXCEPT ![p][w] = 0]
             /\ redis' = redis
    /\ UNCHANGED <<startupVars, now, redisUp, request, counters>>

\* Redis stops, and loses its counters, or starts.
RedisStops ==
    /\ redisUp
    /\ faults < MaxFaults
    /\ faults' = faults + 1
    /\ redisUp' = FALSE
    /\ redis' = Nothing
    /\ UNCHANGED <<schema, bucket, phase, at, ready, now, memory, request, counters>>

RedisStarts ==
    /\ ~redisUp
    /\ redisUp' = TRUE
    /\ UNCHANGED <<startupVars, now, redis, memory, request, counters>>

\* A process that dies takes its counters and its requests with it.
ProcessDies(p) ==
    /\ Crash(p)
    /\ memory' = [memory EXCEPT ![p] = Nothing]
    /\ request' = [q \in Requests |->
                     IF request[q].state = "waiting" /\ request[q].process = p
                     THEN [request[q] EXCEPT !.state = "lost"]
                     ELSE request[q]]
    /\ UNCHANGED <<now, redisUp, redis, counters>>

Next ==
    \/ \E p \in Processes :
          \/ StartStep(p) /\ UNCHANGED rateVars
          \/ \E q \in Requests : LetThrough(p, q) \/ Arrive(p, q)
          \/ ProcessDies(p)
    \/ \E q \in Requests : CountInRedis(q) \/ CountInMemory(q)
    \/ \E w \in Times : CounterExpires(w)
    \/ WindowEnds \/ RedisStops \/ RedisStarts

Spec == ServiceInit /\ [][Next]_vars

\* The event loop runs a start to its end.  Nothing starts a process that exited:
\* compose has no restart policy for it, and a deployment that fails stays failed.
FairSpec ==
    /\ Spec
    /\ \A p \in Processes : WF_vars(phase[p] # "down" /\ StartStep(p) /\ UNCHANGED rateVars)

--------------------------------------------------------------------------------
\* The schema, the processes, the requests and the counters are well formed.
TypeOK ==
    /\ applied \subseteq Migrations /\ recorded \subseteq Migrations
    /\ broken \subseteq Indexes
    /\ bucket \in {"missing", "owned", "denied"}
    /\ phase \in [Processes -> Phases]
    /\ \A p \in Processes :
          /\ phase[p] \in {"apply", "record"} => at[p] \in Migrations
          /\ phase[p] \in {"head", "create"} => at[p] \in 1 .. BootstrapAttempts
    /\ ready \in [Processes -> BOOLEAN]
    /\ faults \in 0 .. MaxFaults
    /\ now \in Times
    /\ redisUp \in BOOLEAN
    /\ redis \in [Times -> Nat]
    /\ memory \in [Processes -> [Times -> Nat]]
    /\ request \in [Requests -> [state : States, process : Processes \cup {None},
                                 window : Times \cup {-1}, customer : Customers \cup {None}]]
    /\ \A q \in Requests : request[q].state \notin {"new", "through"} =>
          request[q].process \in Processes /\ request[q].window \in Times
    /\ counters \in [Times -> Nat]

\* However Redis and the processes come and go, a window lets through at most the
\* limit for each counter that counted in it: one, in Redis, unless Redis or a
\* process failed meanwhile or a request was counted after its window
\* (rate_limit.py:29-47, 89-94).
AdmittedWithinLimits == \A w \in Times : Cardinality(Admitted(w)) <= Limit * counters[w]

\* A peer address is never refused in a window before it has sent more requests
\* than the limit in that very window, though a request may be counted twice and
\* late (rate_limit.py:87-94).
RefusedOnlyAboveLimit == \A w \in Times : Refused(w) # {} => Cardinality(Sent(w)) > Limit

\* What section 14 of the plan says: the limits of runs, payments and the API are
\* those of a user.  Nobody is refused for what other customers sent.
RefusedOnlyAboveOwnLimit ==
    \A w \in Times : \A q \in Refused(w) :
        Cardinality({r \in Sent(w) : request[r].customer = request[q].customer}) > Limit

\* A process that somebody starts again whenever it exits comes up in the end and
\* stays up, whoever raced it and whatever the bucket answers
\* (checkpointer.py:52-60, s3_bootstrap.py:22-59).
StartedAgainComesUp ==
    \A p \in Processes : ([]<>(phase[p] # "down")) => <>[](phase[p] = "up")

\* While nothing fails, a process that runs is left running: a start only gives up
\* its place in the race for a row when another start has taken it and goes on,
\* and no answer of the bucket ends one (checkpointer.py:52-60, s3_bootstrap.py:35-59).
RaceHasAWinner ==
    [][(faults' = 0 /\ \E p \in Processes : phase[p] # "down")
          => \E p \in Processes : phase'[p] # "down"]_vars

================================================================================
