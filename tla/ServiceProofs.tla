----------------------------- MODULE ServiceProofs -----------------------------
(***************************************************************************)
(* What holds of any number of processes that start, die and count          *)
(* requests, for any schema, bucket and limit.                              *)
(*                                                                         *)
(* The starts: the recorded migrations are a prefix 0 .. n, because a       *)
(* process only reaches migration v once all before it are recorded, and    *)
(* the row of v can be inserted once.  The last row therefore vouches for   *)
(* the whole prefix, and a process is ready exactly when the prefix is all. *)
(* An index that is invalid was left so by a fault.                         *)
(*                                                                         *)
(* The limiter: no counter of a window exceeds the requests that read the   *)
(* clock in it and are counted, so one above the limit is evidence of as    *)
(* many requests.  A counter that counts has room for what is left of the   *)
(* limit, and for nothing once it is lost; what a window admitted and the   *)
(* room of its counters together never exceed the limit for each of them.   *)
(***************************************************************************)
EXTENDS Service, TLAPS, FiniteSetTheorems

Serving == {"head", "create", "up"}

StartTypes ==
    /\ applied \subseteq Migrations /\ recorded \subseteq Migrations
    /\ bucket \in {"missing", "owned", "denied"}
    /\ phase \in [Processes -> Phases]
    /\ at \in [Processes -> Int]
    /\ ready \in [Processes -> BOOLEAN]
    /\ faults \in 0 .. MaxFaults

Prefix == \E n \in -1 .. Latest : recorded = 0 .. n

\* What is recorded exists, and only an index whose build was cut off is invalid.
Built ==
    /\ recorded \subseteq applied
    /\ broken \subseteq applied \cap Indexes
    /\ broken # {} => faults > 0

\* Where each process is, and what it may rely on there.
Placed(p) ==
    /\ phase[p] \in {"apply", "record"} =>
          at[p] \in Migrations /\ 0 .. at[p] - 1 \subseteq recorded
    /\ phase[p] = "record" => at[p] \in applied
    /\ phase[p] \in {"head", "create"} => at[p] \in 1 .. BootstrapAttempts
    /\ ready[p] <=> phase[p] \in Serving
    /\ ready[p] => recorded = Migrations

StartInv ==
    /\ StartTypes
    /\ Prefix
    /\ Built
    /\ \A p \in Processes : Placed(p)

--------------------------------------------------------------------------------
(* The starts. *)

\* The version read is the last of the prefix (checkpointer.py:26-34).
LEMMA VersionOfPrefix ==
    ASSUME NEW n \in -1 .. Latest, recorded = 0 .. n
    PROVE  Version = n
<1> USE StartupAssumption
<1>1. CASE n = -1
  BY <1>1 DEF Version
<1>2. CASE n # -1
  <2>1. n \in recorded /\ \A w \in recorded : w <= n  BY <1>2
  <2>2. \A v \in recorded : (\A w \in recorded : w <= v) => v = n  BY <2>1
  <2>3. (CHOOSE v \in recorded : \A w \in recorded : w <= v) = n  BY <2>1, <2>2
  <2> QED  BY <2>1, <2>3 DEF Version
<1> QED  BY <1>1, <1>2

\* The first states, whatever an earlier release left (checkpointer.py:37-60).
LEMMA StartInit == Init => StartInv
<1> SUFFICES ASSUME Init PROVE StartInv
  OBVIOUS
<1> USE StartupAssumption
<1>1. PICK v \in -1 .. Latest :
        /\ recorded = 0 .. v
        /\ applied \in {0 .. v, 0 .. (IF v = Latest THEN v ELSE v + 1)}
  BY DEF Init
<1>2. Built /\ applied \subseteq Migrations /\ recorded \subseteq Migrations
  BY <1>1 DEF Migrations, Built, Init
<1>3. StartTypes
  BY <1>2 DEF StartTypes, Init, Phases
<1>4. Prefix
  BY <1>1 DEF Prefix
<1>5. \A p \in Processes : Placed(p)
  BY DEF Placed, Init, Serving
<1> QED  BY <1>2, <1>3, <1>4, <1>5 DEF StartInv

\* A process that moves with the schema standing still keeps the invariant if
\* its own place is right.
LEMMA MoveKeeps ==
    ASSUME StartInv, NEW p \in Processes, NEW what \in Phases, NEW n \in Int,
           Goto(p, what, n),
           schema' = schema, bucket' \in {"missing", "owned", "denied"}, faults' \in {faults, faults + 1},
           faults' \in 0 .. MaxFaults, ready' \in [Processes -> BOOLEAN],
           \A q \in Processes \ {p} : ready'[q] = ready[q],
           Placed(p)'
    PROVE  StartInv'
<1>1. StartTypes'
  BY DEF StartInv, StartTypes, Goto, schema
<1>2. Prefix' /\ Built'
  <2>1. faults \in 0 .. MaxFaults
    BY DEF StartInv, StartTypes
  <2> QED  BY <2>1 DEF StartInv, Prefix, Built, schema
<1>3. ASSUME NEW q \in Processes PROVE Placed(q)'
  <2>1. CASE q = p  BY <2>1
  <2>2. CASE q # p
    <3>1. phase'[q] = phase[q] /\ at'[q] = at[q] /\ ready'[q] = ready[q]
      BY <2>2 DEF Goto, StartInv, StartTypes
    <3>2. applied' = applied /\ recorded' = recorded
      BY DEF schema
    <3>3. Placed(q)
      BY DEF StartInv
    <3> QED  BY <3>1, <3>2, <3>3 DEF Placed
  <2> QED  BY <2>1, <2>2
<1> QED  BY <1>1, <1>2, <1>3 DEF StartInv

\* Apply adds to the schema what it then counts on; one that is cut off adds an
\* invalid index, which nothing counts on yet.
LEMMA ApplyKeeps ==
    ASSUME StartInv, NEW p \in Processes, Apply(p) \/ ApplyInterrupted(p)
    PROVE  StartInv'
<1> USE StartupAssumption
<1>1. at[p] \in Migrations /\ 0 .. at[p] - 1 \subseteq recorded
  BY DEF Apply, ApplyInterrupted, StartInv, Placed
<1>2. StartTypes'
  <2>1. faults \in 0 .. MaxFaults /\ faults' \in 0 .. MaxFaults
    BY DEF StartInv, StartTypes, Apply, ApplyInterrupted
  <2> QED  BY <1>1, <2>1 DEF StartInv, StartTypes, Apply, ApplyInterrupted, Goto, Phases
<1>3. Prefix' /\ Built'
  <2>1. faults \in 0 .. MaxFaults
    BY DEF StartInv, StartTypes
  <2>2. recorded' = recorded
    BY DEF Apply, ApplyInterrupted
  <2>3. Prefix'
    BY <2>2 DEF StartInv, Prefix
  <2>4. CASE Apply(p)
    BY <2>3, <2>4 DEF StartInv, Built, Apply
  <2>5. CASE ApplyInterrupted(p)
    BY <2>1, <2>3, <2>5 DEF StartInv, Built, ApplyInterrupted
  <2> QED  BY <2>4, <2>5
<1>4. ASSUME NEW q \in Processes PROVE Placed(q)'
  <2>1. Placed(q) /\ Placed(p)
    BY DEF StartInv
  <2>2. CASE q = p
    BY <2>1, <2>2, <1>1 DEF Placed, Apply, ApplyInterrupted, Goto, StartInv, StartTypes, Serving
  <2>3. CASE q # p
    BY <2>1, <2>3 DEF Placed, Apply, ApplyInterrupted, Goto, StartInv, StartTypes
  <2> QED  BY <2>2, <2>3
<1> QED  BY <1>2, <1>3, <1>4 DEF StartInv

\* Record extends the prefix by one: no process has recorded this migration,
\* and all before it are recorded.
LEMMA RecordKeeps ==
    ASSUME StartInv, NEW p \in Processes, Record(p)
    PROVE  StartInv'
<1> USE StartupAssumption
<1> DEFINE v == at[p]
<1>1. v \in Migrations /\ 0 .. v - 1 \subseteq recorded /\ v \in applied
  BY DEF Record, StartInv, Placed
<1>2. recorded' = recorded \cup {v} /\ v \notin recorded
  BY DEF Record
<1>3. recorded' = 0 .. v
  <2>1. PICK n \in -1 .. Latest : recorded = 0 .. n
    BY DEF StartInv, Prefix
  <2>2. v = n + 1
    <3>1. v > n
      BY <1>1, <1>2, <2>1 DEF Migrations
    <3>2. ~ v > n + 1
      <4> SUFFICES ASSUME v > n + 1 PROVE FALSE
        OBVIOUS
      <4>1. n + 1 \in 0 .. v - 1
        BY <1>1, <2>1 DEF Migrations
      <4> QED  BY <4>1, <1>1, <2>1
    <3> QED  BY <3>1, <3>2, <1>1, <2>1 DEF Migrations
  <2> QED  BY <1>2, <2>1, <2>2
<1>4. StartTypes'
  <2>1. phase' \in [Processes -> Phases] /\ at' \in [Processes -> Int]
    BY <1>1 DEF StartInv, StartTypes, Record, Goto, Phases, Migrations
  <2>2. ready' \in [Processes -> BOOLEAN]
    BY DEF StartInv, StartTypes, Record
  <2> QED  BY <1>1, <1>2, <2>1, <2>2 DEF StartInv, StartTypes, Record
<1>5. Prefix'
  BY <1>1, <1>3 DEF Prefix, Migrations
<1>6. Built'
  BY <1>1, <1>2 DEF StartInv, Built, Record
<1>7. ASSUME NEW q \in Processes PROVE Placed(q)'
  <2>1. Placed(q) /\ Placed(p)
    BY DEF StartInv
  <2>2. recorded' \subseteq Migrations
    BY <1>4 DEF StartTypes
  <2>3. ASSUME v = Latest
        PROVE  /\ phase' = [phase EXCEPT ![p] = "head"] /\ at' = [at EXCEPT ![p] = 1]
               /\ ready' = [ready EXCEPT ![p] = TRUE] /\ recorded' = Migrations
    BY <2>3, <1>3 DEF Record, Goto, Migrations
  <2>4. ASSUME v # Latest
        PROVE  /\ phase' = [phase EXCEPT ![p] = "apply"] /\ at' = [at EXCEPT ![p] = v + 1]
               /\ ready' = ready
    BY <2>4 DEF Record, Goto
  <2>5. CASE q = p
    <3>1. ~ready[p]
      BY <2>1 DEF Placed, Record, Serving
    <3>2. CASE v = Latest
      BY <2>3, <2>5, <3>2 DEF Placed, StartInv, StartTypes, Serving
    <3>3. CASE v # Latest
      <4>1. v + 1 \in Migrations /\ 0 .. (v + 1) - 1 \subseteq recorded'
        BY <1>1, <1>3, <3>3 DEF Migrations
      <4> QED  BY <2>4, <2>5, <3>1, <3>3, <4>1 DEF Placed, StartInv, StartTypes, Serving
    <3> QED  BY <3>2, <3>3
  <2>6. CASE q # p
    <3>1. phase'[q] = phase[q] /\ at'[q] = at[q] /\ ready'[q] = ready[q]
      BY <2>3, <2>4, <2>6 DEF StartInv, StartTypes
    <3>2. recorded \subseteq recorded' /\ applied' = applied
      BY <1>2 DEF Record
    <3>3. ready[q] => recorded' = Migrations
      BY <2>1, <2>2, <3>2 DEF Placed
    <3>4. 0 .. at[q] - 1 \subseteq recorded => 0 .. at[q] - 1 \subseteq recorded'
      BY <3>2
    <3> QED  BY <2>1, <3>1, <3>2, <3>3, <3>4 DEF Placed
  <2> QED  BY <2>5, <2>6
<1> QED  BY <1>4, <1>5, <1>6, <1>7 DEF StartInv

\* The attempts at the bucket, and every other step of a start or its death.
LEMMA BucketKeeps ==
    ASSUME StartInv, NEW p \in Processes,
           \/ BucketManagedElsewhere(p) \/ HeadBucket(p) \/ HeadFails(p)
           \/ CreateBucket(p) \/ CreateFails(p)
    PROVE  StartInv'
<1> USE StartupAssumption
<1>1. Placed(p) /\ phase[p] \in {"head", "create"} /\ ready[p]
  BY DEF StartInv, Placed, Serving, BucketManagedElsewhere, HeadBucket, HeadFails,
         CreateBucket, CreateFails
<1>2. recorded = Migrations /\ at[p] \in 1 .. BootstrapAttempts
  BY <1>1 DEF Placed
<1>3. /\ schema' = schema /\ ready' = ready /\ faults' = faults
      /\ bucket' \in {"missing", "owned", "denied"}
  BY DEF BucketManagedElsewhere, HeadBucket, HeadFails, CreateBucket, CreateFails,
         StartInv, StartTypes
<1>4. PICK what \in Serving, n \in Int :
        Goto(p, what, n) /\ (what # "up" => n \in 1 .. BootstrapAttempts)
  <2>1. CASE Goto(p, "up", 0)
    BY <2>1 DEF Serving
  <2>2. CASE Goto(p, "create", at[p])
    BY <2>2, <1>2 DEF Serving
  <2>3. CASE TryAgain(p)
    <3>1. CASE at[p] = BootstrapAttempts
      BY <2>3, <3>1, <2>1 DEF TryAgain, Serving
    <3>2. CASE at[p] # BootstrapAttempts
      <4>1. Goto(p, "head", at[p] + 1) /\ at[p] + 1 \in 1 .. BootstrapAttempts
        BY <2>3, <3>2, <1>2 DEF TryAgain
      <4> QED  BY <4>1 DEF Serving
    <3> QED  BY <3>1, <3>2
  <2> QED  BY <2>1, <2>2, <2>3 DEF BucketManagedElsewhere, HeadBucket, HeadFails,
              CreateBucket, CreateFails
<1>5. Placed(p)'
  <2>1. phase'[p] = what /\ at'[p] = n /\ ready'[p] /\ recorded' = Migrations
    BY <1>1, <1>2, <1>3, <1>4 DEF Goto, StartInv, StartTypes, schema
  <2> QED  BY <2>1, <1>4 DEF Placed, Serving
<1>6. what \in Phases /\ ready' \in [Processes -> BOOLEAN] /\ faults' \in 0 .. MaxFaults
  BY <1>3, <1>4 DEF Serving, Phases, StartInv, StartTypes
<1> QED  BY <1>3, <1>4, <1>5, <1>6, MoveKeeps

LEMMA StartStepKeeps ==
    ASSUME StartInv, NEW p \in Processes, StartStep(p) \/ Crash(p)
    PROVE  StartInv'
<1> USE StartupAssumption
<1>1. Placed(p)
  BY DEF StartInv
<1>2. CASE Start(p)
  <2>1. Placed(p)'
    BY <1>1, <1>2 DEF Start, Goto, Placed, StartInv, StartTypes, Serving, schema
  <2> QED  BY <1>2, <2>1, MoveKeeps DEF Start, StartInv, StartTypes, Phases
<1>3. CASE ReadVersion(p)
  <2>1. PICK n \in -1 .. Latest : recorded = 0 .. n
    BY DEF StartInv, Prefix
  <2>2. Version = n
    BY <2>1, VersionOfPrefix
  <2>3. schema' = schema /\ bucket' = bucket /\ faults' = faults /\ ~ready[p]
    BY <1>1, <1>3 DEF ReadVersion, Placed, Serving
  <2>4. CASE n = Latest
    <3>1. Goto(p, "head", 1) /\ ready' = [ready EXCEPT ![p] = TRUE]
      BY <1>3, <2>2, <2>4 DEF ReadVersion
    <3>2. Placed(p)'
      BY <2>1, <2>3, <2>4, <3>1 DEF Goto, Placed, StartInv, StartTypes, Serving, schema, Migrations
    <3>3. \A q \in Processes \ {p} : ready'[q] = ready[q]
      BY <3>1 DEF StartInv, StartTypes
    <3>4. ready' \in [Processes -> BOOLEAN]
      BY <3>1 DEF StartInv, StartTypes
    <3>5. "head" \in Phases /\ 1 \in Int
      BY DEF Phases
    <3>6. bucket' \in {"missing", "owned", "denied"} /\ faults' \in 0 .. MaxFaults
      BY <2>3 DEF StartInv, StartTypes
    <3> QED  BY <2>3, <3>1, <3>2, <3>3, <3>4, <3>5, <3>6, MoveKeeps
  <2>5. CASE n # Latest
    <3>1. Goto(p, "apply", n + 1) /\ ready' = ready
      BY <1>3, <2>2, <2>5 DEF ReadVersion
    <3>2. n + 1 \in Migrations /\ 0 .. (n + 1) - 1 \subseteq recorded
      BY <2>1, <2>5 DEF Migrations
    <3>3. Placed(p)'
      BY <2>3, <3>1, <3>2 DEF Goto, Placed, StartInv, StartTypes, Serving, schema
    <3> QED  BY <2>3, <3>1, <3>3, MoveKeeps DEF StartInv, StartTypes, Phases
  <2> QED  BY <2>4, <2>5
<1>4. CASE RecordTwice(p)
  <2>1. Placed(p)'
    BY <1>1, <1>4 DEF RecordTwice, Goto, Placed, StartInv, StartTypes, Serving, schema
  <2> QED  BY <1>4, <2>1, MoveKeeps DEF RecordTwice, StartInv, StartTypes, Phases
<1>5. CASE Crash(p)
  <2>1. Placed(p)'
    BY <1>5 DEF Crash, Goto, Placed, StartInv, StartTypes, Serving, schema
  <2>2. /\ faults' \in 0 .. MaxFaults /\ faults' \in {faults, faults + 1}
        /\ ready' \in [Processes -> BOOLEAN]
    BY <1>5 DEF Crash, StartInv, StartTypes
  <2>3. \A q \in Processes \ {p} : ready'[q] = ready[q]
    BY <1>5 DEF Crash, StartInv, StartTypes
  <2>4. Goto(p, "down", 0) /\ schema' = schema /\ bucket' = bucket
    BY <1>5 DEF Crash
  <2>5. "down" \in Phases /\ 0 \in Int /\ bucket' \in {"missing", "owned", "denied"}
    BY <2>4 DEF Phases, StartInv, StartTypes
  <2> QED  BY <2>1, <2>2, <2>3, <2>4, <2>5, MoveKeeps
<1> QED  BY <1>2, <1>3, <1>4, <1>5, ApplyKeeps, RecordKeeps, BucketKeeps DEF StartStep

--------------------------------------------------------------------------------
(* The limiter. *)

RateTypes ==
    /\ now \in Times
    /\ redisUp \in BOOLEAN
    /\ redis \in [Times -> Nat]
    /\ memory \in [Processes -> [Times -> Nat]]
    /\ request \in [Requests -> [state : States, process : Processes \cup {None},
                                 window : Times \cup {-1}, customer : Customers \cup {None}]]
    /\ \A q \in Requests :
          IF request[q].state \in {"new", "through"}
          THEN request[q].window = -1
          ELSE request[q].process \in Processes /\ request[q].window \in Times
    /\ counters \in [Times -> Nat]

\* A counter and the requests still to be counted are no more than were sent.
CountsSent ==
    \A w \in Times :
        /\ redis[w] + Cardinality(Waiting(w)) <= Cardinality(Sent(w))
        /\ \A p \in Processes : memory[p][w] + Cardinality(Waiting(w)) <= Cardinality(Sent(w))

RateInv == RateTypes /\ CountsSent /\ RefusedOnlyAboveLimit

LEMMA RequestsAreFinite ==
    ASSUME NEW w
    PROVE  /\ IsFiniteSet(Sent(w)) /\ Cardinality(Sent(w)) \in Nat
           /\ IsFiniteSet(Waiting(w)) /\ Cardinality(Waiting(w)) \in Nat
           /\ IsFiniteSet(Admitted(w)) /\ Cardinality(Admitted(w)) \in Nat
<1>1. IsFiniteSet(Requests)
  BY ServiceAssumption
<1>2. /\ Sent(w) \in SUBSET Requests /\ Waiting(w) \in SUBSET Requests
      /\ Admitted(w) \in SUBSET Requests
  BY DEF Sent, Waiting, Admitted, InState
<1>3. IsFiniteSet(Sent(w)) /\ IsFiniteSet(Waiting(w)) /\ IsFiniteSet(Admitted(w))
  BY <1>1, <1>2, FS_Subset
<1> QED  BY <1>3, FS_CardinalityType

LEMMA RequestsAreFiniteNext ==
    ASSUME NEW w
    PROVE  /\ Cardinality(Sent(w)') \in Nat /\ Cardinality(Waiting(w)') \in Nat
           /\ Cardinality(Admitted(w)') \in Nat
<1>1. IsFiniteSet(Requests)
  BY ServiceAssumption
<1>2. /\ Sent(w)' \in SUBSET Requests /\ Waiting(w)' \in SUBSET Requests
      /\ Admitted(w)' \in SUBSET Requests
  BY DEF Sent, Waiting, Admitted, InState
<1>3. IsFiniteSet(Sent(w)') /\ IsFiniteSet(Waiting(w)') /\ IsFiniteSet(Admitted(w)')
  BY <1>1, <1>2, FS_Subset
<1> QED  BY <1>3, FS_CardinalityType

LEMMA RateInit == ServiceInit => RateInv
<1> SUFFICES ASSUME ServiceInit PROVE RateInv
  OBVIOUS
<1> USE ServiceAssumption
<1>1. RateTypes
  <2>1. Unsent \in [state : States, process : Processes \cup {None},
                    window : Times \cup {-1}, customer : Customers \cup {None}]
    BY DEF Unsent, States
  <2>2. \A q \in Requests : request[q] = Unsent
    BY DEF ServiceInit
  <2>3. Unsent.state = "new" /\ Unsent.window = -1
    BY DEF Unsent
  <2> QED  BY <2>1, <2>2, <2>3 DEF ServiceInit, RateTypes, Times, Nothing
<1>2. ASSUME NEW w \in Times PROVE Sent(w) = {} /\ Waiting(w) = {} /\ Refused(w) = {}
  BY DEF ServiceInit, Sent, Waiting, Refused, InState, Times, Unsent
<1>3. CountsSent
  BY <1>2, FS_EmptySet DEF CountsSent, ServiceInit, Nothing
<1>4. RefusedOnlyAboveLimit
  BY <1>2 DEF RefusedOnlyAboveLimit
<1> QED  BY <1>1, <1>3, <1>4 DEF RateInv

\* A request that arrives is one more that was sent, and one more that waits
\* (rate_limit.py:76-87).
LEMMA ArriveKeeps ==
    ASSUME RateInv, NEW p \in Processes, NEW q \in Requests, Arrive(p, q) \/ LetThrough(p, q)
    PROVE  RateInv'
<1> USE ServiceAssumption
<1>1. PICK what \in {"waiting", "through"}, v \in Times \cup {-1}, c \in Customers :
        /\ request' = [request EXCEPT
                         ![q] = [state |-> what, process |-> p, window |-> v, customer |-> c]]
        /\ IF what = "through" THEN v = -1 ELSE v \in Times
  BY DEF Arrive, LetThrough, Receive, RateInv, RateTypes
<1>2. /\ request[q].state = "new" /\ request[q].window = -1
      /\ UNCHANGED <<now, redisUp, redis, memory, counters>>
  BY DEF Arrive, LetThrough, Receive, RateInv, RateTypes
<1>3. \A r \in Requests :
        request'[r] = IF r = q
                      THEN [state |-> what, process |-> p, window |-> v, customer |-> c]
                      ELSE request[r]
  BY <1>1 DEF RateInv, RateTypes
<1>4. RateTypes'
  <2>1. [state |-> what, process |-> p, window |-> v, customer |-> c] \in
          [state : States, process : Processes \cup {None}, window : Times \cup {-1},
           customer : Customers \cup {None}]
    BY DEF States
  <2> QED  BY <1>1, <1>2, <1>3, <2>1 DEF RateInv, RateTypes
<1>5. ASSUME NEW w \in Times
      PROVE  /\ Refused(w)' = Refused(w)
             /\ IF w = v
                THEN /\ Sent(w)' = Sent(w) \cup {q} /\ q \notin Sent(w)
                     /\ Waiting(w)' = Waiting(w) \cup {q} /\ q \notin Waiting(w)
                ELSE Sent(w)' = Sent(w) /\ Waiting(w)' = Waiting(w)
  <2>1. w # -1
    BY DEF Times
  <2> QED  BY <1>1, <1>2, <1>3, <2>1 DEF Sent, Waiting, Refused, InState
<1>6. ASSUME NEW w \in Times
      PROVE  /\ Cardinality(Sent(w)) <= Cardinality(Sent(w)')
             /\ redis'[w] + Cardinality(Waiting(w)') <= Cardinality(Sent(w)')
             /\ \A r \in Processes :
                  memory'[r][w] + Cardinality(Waiting(w)') <= Cardinality(Sent(w)')
  <2>1. /\ redis[w] \in Nat /\ redis[w] + Cardinality(Waiting(w)) <= Cardinality(Sent(w))
        /\ \A r \in Processes : /\ memory[r][w] \in Nat
                                /\ memory[r][w] + Cardinality(Waiting(w)) <= Cardinality(Sent(w))
    BY DEF RateInv, RateTypes, CountsSent
  <2>2. CASE w = v
    <3>1. /\ Cardinality(Sent(w)') = Cardinality(Sent(w)) + 1
          /\ Cardinality(Waiting(w)') = Cardinality(Waiting(w)) + 1
      <4>1. /\ Sent(w)' = Sent(w) \cup {q} /\ q \notin Sent(w)
            /\ Waiting(w)' = Waiting(w) \cup {q} /\ q \notin Waiting(w)
        BY <1>5, <2>2
      <4>2. Cardinality(Sent(w)') = Cardinality(Sent(w)) + 1
        BY <4>1, RequestsAreFinite, FS_AddElement
      <4>3. Cardinality(Waiting(w)') = Cardinality(Waiting(w)) + 1
        BY <4>1, RequestsAreFinite, FS_AddElement
      <4> QED  BY <4>2, <4>3
    <3> QED  BY <1>2, <2>1, <3>1, RequestsAreFinite
  <2>3. CASE w # v
    BY <1>2, <1>5, <2>1, <2>3, RequestsAreFinite
  <2> QED  BY <2>2, <2>3
<1>7. RefusedOnlyAboveLimit'
  <2> SUFFICES ASSUME NEW w \in Times, Refused(w)' # {}
               PROVE  Cardinality(Sent(w)') > Limit
    BY DEF RefusedOnlyAboveLimit
  <2>1. Cardinality(Sent(w)) > Limit
    BY <1>5 DEF RateInv, RefusedOnlyAboveLimit
  <2> QED  BY <1>6, <2>1, RequestsAreFinite, RequestsAreFiniteNext
<1> QED  BY <1>4, <1>6, <1>7 DEF RateInv, CountsSent

\* A request that is decided waits no more, and is admitted or refused.
LEMMA DecideSets ==
    ASSUME RateTypes, NEW q \in Requests, request[q].state = "waiting", NEW n \in Nat, Decide(q, n),
           NEW w \in Times
    PROVE  /\ Sent(w)' = Sent(w)
           /\ IF w = request[q].window
              THEN /\ Waiting(w)' = Waiting(w) \ {q} /\ q \in Waiting(w)
                   /\ Admitted(w)' = IF n > Limit THEN Admitted(w) ELSE Admitted(w) \cup {q}
                   /\ q \notin Admitted(w)
                   /\ n > Limit \/ Refused(w)' = Refused(w)
              ELSE /\ Waiting(w)' = Waiting(w)
                   /\ Admitted(w)' = Admitted(w) /\ Refused(w)' = Refused(w)
<1> DEFINE what == IF n > Limit THEN "refused" ELSE "admitted"
<1>1. /\ \A r \in Requests : r # q => request'[r] = request[r]
      /\ request'[q].state = what /\ request'[q].window = request[q].window
  BY DEF Decide, RateTypes
<1>2. Sent(w)' = Sent(w)
  BY <1>1 DEF Sent
<1>3. CASE w = request[q].window
  BY <1>1, <1>2, <1>3 DEF Sent, Waiting, Admitted, Refused, InState
<1>4. CASE w # request[q].window
  BY <1>1, <1>2, <1>4 DEF Sent, Waiting, Admitted, Refused, InState
<1> QED  BY <1>2, <1>3, <1>4

\* A request that is counted waits no more, and is refused only on the word of
\* a counter (rate_limit.py:29-47, 89-94).
LEMMA CountKeeps ==
    ASSUME RateInv, NEW q \in Requests, CountInRedis(q) \/ CountInMemory(q)
    PROVE  RateInv'
<1> USE ServiceAssumption
<1> DEFINE here == request[q].window
           by == request[q].process
<1>1. here \in Times /\ by \in Processes /\ request[q].state = "waiting"
  BY DEF CountInRedis, CountInMemory, RateInv, RateTypes
<1>2. /\ redis[here] \in Nat /\ memory[by][here] \in Nat /\ counters[here] \in Nat
      /\ redis[here] + 1 <= Cardinality(Sent(here))
      /\ memory[by][here] + 1 <= Cardinality(Sent(here))
  <2>1. /\ redis[here] \in Nat /\ memory[by][here] \in Nat /\ counters[here] \in Nat
        /\ redis[here] + Cardinality(Waiting(here)) <= Cardinality(Sent(here))
        /\ memory[by][here] + Cardinality(Waiting(here)) <= Cardinality(Sent(here))
    BY <1>1 DEF RateInv, RateTypes, CountsSent
  <2>2. q \in Waiting(here)
    BY <1>1 DEF Waiting, InState, Sent
  <2>3. Cardinality(Waiting(here)) # 0
    BY <2>2, RequestsAreFinite, FS_EmptySet
  <2> QED  BY <2>1, <2>3, RequestsAreFinite
<1>3. PICK count \in Nat : Decide(q, count) /\ count <= Cardinality(Sent(here))
  BY <1>1, <1>2 DEF CountInRedis, CountInMemory
<1>4. now' = now /\ redisUp' = redisUp
  BY <1>3 DEF Decide
<1>5. redis' \in {redis, [redis EXCEPT ![here] = redis[here] + 1]}
  BY <1>1 DEF CountInRedis, CountInMemory, RateInv, RateTypes
<1>6. memory' \in {memory, [memory EXCEPT ![by] = [memory[by] EXCEPT ![here] = memory[by][here] + 1]]}
  BY <1>1 DEF CountInRedis, CountInMemory, RateInv, RateTypes
<1>7. RateTypes'
  <2>1. redis' \in [Times -> Nat]
    BY <1>1, <1>2, <1>5 DEF RateInv, RateTypes
  <2>2. memory' \in [Processes -> [Times -> Nat]]
    <3>1. memory[by] \in [Times -> Nat]
      BY <1>1 DEF RateInv, RateTypes
    <3>2. [memory[by] EXCEPT ![here] = memory[by][here] + 1] \in [Times -> Nat]
      BY <1>1, <1>2, <3>1
    <3> QED  BY <1>6, <3>2 DEF RateInv, RateTypes
  <2>3. counters' \in [Times -> Nat]
    <3>1. \A c \in Nat : First(c) \in Nat
      BY DEF First
    <3>2. PICK n \in Nat : counters' = [counters EXCEPT ![here] = n]
      BY <1>1, <1>2, <3>1, SMTT(30) DEF CountInRedis, CountInMemory
    <3> QED  BY <3>2 DEF RateInv, RateTypes
  <2>4. PICK what \in {"admitted", "refused"} : request' = [request EXCEPT ![q].state = what]
    BY <1>3 DEF Decide
  <2>5. \A r \in Requests : r # q => request'[r] = request[r]
    BY <2>4 DEF RateInv, RateTypes
  <2>6. /\ request'[q].state = what
        /\ request'[q].process = by /\ request'[q].window = here
    BY <2>4 DEF RateInv, RateTypes
  <2>7. request' \in [Requests -> [state : States, process : Processes \cup {None},
                                   window : Times \cup {-1}, customer : Customers \cup {None}]]
    BY <2>4 DEF RateInv, RateTypes, States
  <2>8. \A r \in Requests :
          IF request'[r].state \in {"new", "through"}
          THEN request'[r].window = -1
          ELSE request'[r].process \in Processes /\ request'[r].window \in Times
    BY <1>1, <2>5, <2>6 DEF RateInv, RateTypes
  <2> QED  BY <1>4, <2>1, <2>2, <2>3, <2>7, <2>8 DEF RateInv, RateTypes
<1>8. ASSUME NEW w \in Times
      PROVE  /\ redis'[w] + Cardinality(Waiting(w)') <= Cardinality(Sent(w)')
             /\ \A p \in Processes :
                  memory'[p][w] + Cardinality(Waiting(w)') <= Cardinality(Sent(w)')
  <2>1. /\ redis[w] \in Nat /\ redis[w] + Cardinality(Waiting(w)) <= Cardinality(Sent(w))
        /\ \A p \in Processes : /\ memory[p][w] \in Nat
                                /\ memory[p][w] + Cardinality(Waiting(w)) <= Cardinality(Sent(w))
    BY DEF RateInv, RateTypes, CountsSent
  <2>2. Sent(w)' = Sent(w)
    BY <1>1, <1>3, DecideSets DEF RateInv
  <2>3. CASE w = here
    <3>1. Waiting(w)' = Waiting(w) \ {q} /\ q \in Waiting(w)
      BY <1>1, <1>3, <2>3, DecideSets DEF RateInv
    <3>2. Cardinality(Waiting(w)') = Cardinality(Waiting(w)) - 1
      BY <3>1, RequestsAreFinite, FS_RemoveElement
    <3>3. redis'[w] \in {redis[w], redis[w] + 1}
      BY <1>5, <2>3 DEF RateInv, RateTypes
    <3>4. \A p \in Processes : memory'[p][w] \in {memory[p][w], memory[p][w] + 1}
      BY <1>1, <1>6, <2>3 DEF RateInv, RateTypes
    <3> QED  BY <2>1, <2>2, <3>2, <3>3, <3>4, RequestsAreFinite
  <2>4. CASE w # here
    <3>1. Waiting(w)' = Waiting(w)
      BY <1>1, <1>3, <2>4, DecideSets DEF RateInv
    <3>2. redis'[w] = redis[w]
      BY <1>5, <2>4 DEF RateInv, RateTypes
    <3>3. \A p \in Processes : memory'[p][w] = memory[p][w]
      BY <1>1, <1>6, <2>4 DEF RateInv, RateTypes
    <3> QED  BY <2>1, <2>2, <3>1, <3>2, <3>3
  <2> QED  BY <2>3, <2>4
<1>9. RefusedOnlyAboveLimit'
  <2> SUFFICES ASSUME NEW w \in Times, Refused(w)' # {}
               PROVE  Cardinality(Sent(w)') > Limit
    BY DEF RefusedOnlyAboveLimit
  <2>1. Sent(w)' = Sent(w)
    BY <1>1, <1>3, DecideSets DEF RateInv
  <2>2. CASE w = here /\ count > Limit
    BY <1>3, <2>1, <2>2, RequestsAreFinite
  <2>3. CASE ~(w = here /\ count > Limit)
    <3>1. Refused(w)' = Refused(w)
      BY <1>1, <1>3, <2>3, DecideSets DEF RateInv
    <3> QED  BY <2>1, <3>1 DEF RateInv, RefusedOnlyAboveLimit
  <2> QED  BY <2>2, <2>3
<1> QED  BY <1>7, <1>8, <1>9 DEF RateInv, CountsSent

\* Counters that vanish and requests that die with their process leave less to
\* count than was sent.
LEMMA LossKeeps ==
    ASSUME RateInv, RateTypes',
           \A w \in Times : /\ Sent(w)' = Sent(w) /\ Refused(w)' = Refused(w)
                            /\ Waiting(w)' \subseteq Waiting(w),
           \A w \in Times : redis'[w] <= redis[w],
           \A p \in Processes, w \in Times : memory'[p][w] <= memory[p][w]
    PROVE  RateInv'
<1> USE ServiceAssumption
<1>1. ASSUME NEW w \in Times
      PROVE  /\ redis'[w] + Cardinality(Waiting(w)') <= Cardinality(Sent(w)')
             /\ \A p \in Processes :
                  memory'[p][w] + Cardinality(Waiting(w)') <= Cardinality(Sent(w)')
  <2>1. /\ redis[w] \in Nat /\ redis'[w] \in Nat
        /\ redis[w] + Cardinality(Waiting(w)) <= Cardinality(Sent(w))
        /\ \A p \in Processes : /\ memory[p][w] \in Nat /\ memory'[p][w] \in Nat
                                /\ memory[p][w] + Cardinality(Waiting(w)) <= Cardinality(Sent(w))
    BY DEF RateInv, RateTypes, CountsSent
  <2>2. Cardinality(Waiting(w)') <= Cardinality(Waiting(w))
    BY RequestsAreFinite, FS_Subset
  <2> QED  BY <2>1, <2>2, RequestsAreFinite, RequestsAreFiniteNext
<1>2. RefusedOnlyAboveLimit'
  BY DEF RateInv, RefusedOnlyAboveLimit
<1> QED  BY <1>1, <1>2 DEF RateInv, CountsSent

--------------------------------------------------------------------------------
(* The specification. *)

Inv == StartInv /\ RateInv

\* A process that dies takes only requests that wait.
LEMMA DeathSets ==
    ASSUME RateTypes, NEW p \in Processes, ProcessDies(p)
    PROVE  /\ RateTypes'
           /\ \A w \in Times : /\ Sent(w)' = Sent(w) /\ Refused(w)' = Refused(w)
                               /\ Admitted(w)' = Admitted(w) /\ Waiting(w)' \subseteq Waiting(w)
<1>1. /\ memory' = [memory EXCEPT ![p] = Nothing]
      /\ UNCHANGED <<now, redisUp, redis, counters>>
      /\ request' = [q \in Requests |->
                       IF request[q].state = "waiting" /\ request[q].process = p
                       THEN [request[q] EXCEPT !.state = "lost"]
                       ELSE request[q]]
  BY DEF ProcessDies
<1>2. \A q \in Requests :
        /\ request'[q].window = request[q].window /\ request'[q].process = request[q].process
        /\ \/ request'[q].state = request[q].state
           \/ request[q].state = "waiting" /\ request'[q].state = "lost"
  BY <1>1 DEF RateTypes
<1>3. RateTypes'
  <2>1. memory' \in [Processes -> [Times -> Nat]]
    BY <1>1 DEF RateTypes, Nothing
  <2>2. request' \in [Requests -> [state : States, process : Processes \cup {None},
                                   window : Times \cup {-1}, customer : Customers \cup {None}]]
    BY <1>1 DEF RateTypes, States
  <2>3. \A q \in Requests :
          IF request'[q].state \in {"new", "through"}
          THEN request'[q].window = -1
          ELSE request'[q].process \in Processes /\ request'[q].window \in Times
    BY <1>2 DEF RateTypes
  <2> QED  BY <1>1, <2>1, <2>2, <2>3 DEF RateTypes
<1>4. \A w \in Times : /\ Sent(w)' = Sent(w) /\ Refused(w)' = Refused(w)
                       /\ Admitted(w)' = Admitted(w) /\ Waiting(w)' \subseteq Waiting(w)
  BY <1>2 DEF Sent, Refused, Admitted, Waiting, InState
<1> QED  BY <1>3, <1>4

\* A step of a start or a death touches no counter, one of the limiter no
\* start: the two invariants are kept side by side.
LEMMA NextKeeps == Inv /\ [Next]_vars => Inv'
<1> SUFFICES ASSUME Inv, [Next]_vars PROVE Inv'
  OBVIOUS
<1> USE StartupAssumption, ServiceAssumption
<1>1. ASSUME startupVars' = startupVars PROVE StartInv'
  BY <1>1 DEF Inv, StartInv, StartTypes, Prefix, Built, Placed, startupVars, schema
<1>2. ASSUME rateVars' = rateVars PROVE RateInv'
  <2>1. /\ RateTypes'
        /\ \A w \in Times : Sent(w)' = Sent(w) /\ Refused(w)' = Refused(w) /\ Waiting(w)' = Waiting(w)
    BY <1>2 DEF Inv, RateInv, RateTypes, Sent, Refused, Waiting, InState, rateVars
  <2>2. /\ \A w \in Times : redis'[w] <= redis[w]
        /\ \A p \in Processes, w \in Times : memory'[p][w] <= memory[p][w]
    BY <1>2 DEF Inv, RateInv, RateTypes, rateVars
  <2> QED  BY <2>1, <2>2, LossKeeps DEF Inv
<1>3. ASSUME NEW p \in Processes, StartStep(p), UNCHANGED rateVars PROVE Inv'
  BY <1>2, <1>3, StartStepKeeps DEF Inv
<1>4. ASSUME NEW p \in Processes, NEW q \in Requests, LetThrough(p, q) \/ Arrive(p, q) PROVE Inv'
  BY <1>1, <1>4, ArriveKeeps DEF LetThrough, Arrive, Receive, Inv
<1>5. ASSUME NEW q \in Requests, CountInRedis(q) \/ CountInMemory(q) PROVE Inv'
  <2>1. startupVars' = startupVars
    BY <1>5 DEF CountInRedis, CountInMemory, Decide
  <2> QED  BY <1>1, <1>5, <2>1, CountKeeps DEF Inv
<1>6. ASSUME NEW p \in Processes, ProcessDies(p) PROVE Inv'
  <2>1. StartInv'
    BY <1>6, StartStepKeeps DEF ProcessDies, Inv
  <2>2. memory' = [memory EXCEPT ![p] = Nothing] /\ UNCHANGED <<now, redisUp, redis, counters>>
    BY <1>6 DEF ProcessDies
  <2>3. RateTypes' /\ \A w \in Times : /\ Sent(w)' = Sent(w) /\ Refused(w)' = Refused(w)
                                       /\ Waiting(w)' \subseteq Waiting(w)
    BY <1>6, DeathSets DEF Inv, RateInv
  <2>4. \A q \in Processes, w \in Times : memory'[q][w] <= memory[q][w]
    BY <2>2 DEF Inv, RateInv, RateTypes, Nothing
  <2>5. \A w \in Times : redis'[w] <= redis[w]
    BY <2>2 DEF Inv, RateInv, RateTypes
  <2> QED  BY <2>1, <2>3, <2>4, <2>5, LossKeeps DEF Inv
<1>7. ASSUME request' = request, RateTypes',
             \A w \in Times : redis'[w] <= redis[w],
             \A p \in Processes, w \in Times : memory'[p][w] <= memory[p][w]
      PROVE  RateInv'
  <2>1. \A w \in Times : Sent(w)' = Sent(w) /\ Refused(w)' = Refused(w) /\ Waiting(w)' = Waiting(w)
    BY <1>7 DEF Sent, Refused, Waiting, InState
  <2> QED  BY <1>7, <2>1, LossKeeps DEF Inv
<1>8. ASSUME NEW w \in Times, CounterExpires(w) PROVE Inv'
  <2>1. startupVars' = startupVars /\ UNCHANGED <<now, redisUp, request, counters>>
    BY <1>8 DEF CounterExpires
  <2>2. CASE redis' = [redis EXCEPT ![w] = 0] /\ memory' = memory
    <3>1. RateTypes'
      BY <2>1, <2>2 DEF Inv, RateInv, RateTypes
    <3>2. /\ \A x \in Times : redis'[x] <= redis[x]
          /\ \A q \in Processes, x \in Times : memory'[q][x] <= memory[q][x]
      BY <2>2 DEF Inv, RateInv, RateTypes
    <3> QED  BY <1>1, <1>7, <2>1, <3>1, <3>2 DEF Inv
  <2>3. ASSUME NEW p \in Processes, memory' = [memory EXCEPT ![p][w] = 0], redis' = redis
        PROVE  Inv'
    <3>1. RateTypes'
      BY <2>1, <2>3 DEF Inv, RateInv, RateTypes
    <3>2. \A x \in Times : redis'[x] <= redis[x]
      BY <2>3 DEF Inv, RateInv, RateTypes
    <3>3. \A q \in Processes, x \in Times : memory'[q][x] <= memory[q][x]
      BY <2>3 DEF Inv, RateInv, RateTypes
    <3> QED  BY <1>1, <1>7, <2>1, <3>1, <3>2, <3>3 DEF Inv
  <2> QED  BY <1>8, <2>2, <2>3 DEF CounterExpires
<1>9. CASE WindowEnds \/ RedisStarts
  <2>1. startupVars' = startupVars /\ UNCHANGED <<redis, memory, request, counters>>
    BY <1>9 DEF WindowEnds, RedisStarts
  <2>2. RateTypes'
    <3>1. now' \in Times
      <4>1. now \in 0 .. Windows
        BY DEF Inv, RateInv, RateTypes, Times
      <4>2. now' = now \/ (now < Windows /\ now' = now + 1)
        BY <1>9 DEF WindowEnds, RedisStarts
      <4> QED  BY <4>1, <4>2 DEF Times
    <3>2. redisUp' \in BOOLEAN
      BY <1>9 DEF WindowEnds, RedisStarts, Inv, RateInv, RateTypes
    <3> QED  BY <2>1, <3>1, <3>2 DEF Inv, RateInv, RateTypes
  <2>3. /\ \A x \in Times : redis'[x] <= redis[x]
        /\ \A q \in Processes, x \in Times : memory'[q][x] <= memory[q][x]
    BY <2>1 DEF Inv, RateInv, RateTypes
  <2> QED  BY <1>1, <1>7, <2>1, <2>2, <2>3 DEF Inv
<1>10. CASE RedisStops
  <2>1. StartInv'
    <3>1. faults' \in 0 .. MaxFaults /\ faults' > 0
      BY <1>10 DEF RedisStops, Inv, StartInv, StartTypes
    <3> QED
      BY <1>10, <3>1 DEF RedisStops, Inv, StartInv, StartTypes, Prefix, Built, Placed, schema
  <2>2. RateTypes' /\ request' = request
    BY <1>10 DEF RedisStops, Inv, RateInv, RateTypes, Nothing
  <2>3. /\ \A x \in Times : redis'[x] <= redis[x]
        /\ \A q \in Processes, x \in Times : memory'[q][x] <= memory[q][x]
    BY <1>10 DEF RedisStops, Inv, RateInv, RateTypes, Nothing
  <2> QED  BY <1>7, <2>1, <2>2, <2>3 DEF Inv
<1>11. CASE UNCHANGED vars
  BY <1>1, <1>2, <1>11 DEF vars, Inv
<1> QED  BY <1>3, <1>4, <1>5, <1>6, <1>8, <1>9, <1>10, <1>11 DEF Next

\* The invariant holds of every behaviour, fair or not.
THEOREM ServiceInvariance == Spec => []Inv
<1>1. ServiceInit => Inv
  BY StartInit, RateInit DEF ServiceInit, Inv
<1> QED  BY <1>1, NextKeeps, PTL DEF Spec

\* The schema, the processes and the counters are well formed, for any number
\* of processes, migrations, attempts and windows.
THEOREM ServiceTypes == Spec => []TypeOK
<1>1. Inv => TypeOK
  BY DEF Inv, StartInv, StartTypes, Built, Placed, RateInv, RateTypes, TypeOK
<1> QED  BY <1>1, ServiceInvariance, PTL

\* However many processes race and die, the rows of checkpoint_migrations have
\* no gap and never name an object that does not exist; what may be wrong with it
\* is that an index is invalid (checkpointer.py:26-34, 50-60).
THEOREM RecordsAreTrue == Spec => []RecordedTookEffect
<1>1. Inv => RecordedTookEffect
  <2> SUFFICES ASSUME Inv PROVE RecordedTookEffect
    OBVIOUS
  <2>1. PICK n \in -1 .. Latest : recorded = 0 .. n
    BY DEF Inv, StartInv, Prefix
  <2>2. n \in Int
    BY StartupAssumption
  <2>3. ASSUME NEW v \in recorded PROVE 0 .. v \subseteq recorded
    BY <2>1, <2>2
  <2> QED  BY <2>3 DEF Inv, StartInv, Built, RecordedTookEffect
<1> QED  BY <1>1, ServiceInvariance, PTL

\* A process takes requests only once every migration is applied and recorded,
\* whoever did it, and on a valid schema if nothing failed
\* (checkpointer.py:50-60, 67-74, main.py:31-34).
THEOREM SchemaIsRecorded == Spec => []ServesOnceAllIsRecorded
<1>1. Inv => ServesOnceAllIsRecorded
  BY DEF Inv, StartInv, StartTypes, Built, Placed, Serving, ServesOnceAllIsRecorded
<1> QED  BY <1>1, ServiceInvariance, PTL

\* A peer address is refused in a window only above the limit in that window, for any
\* number of processes, windows and outages (rate_limit.py:87-94).
THEOREM RefusalsAreEarned == Spec => []RefusedOnlyAboveLimit
<1>1. Inv => RefusedOnlyAboveLimit
  BY DEF Inv, RateInv
<1> QED  BY <1>1, ServiceInvariance, PTL

--------------------------------------------------------------------------------
(* What a window lets through. *)

\* What a counter that has counted n requests may still let through, and
\* whether it lets the next one through.
Room(n) == IF n = 0 \/ n > Limit THEN 0 ELSE Limit - n
Passes(n) == IF n + 1 > Limit THEN 0 ELSE 1

\* The room of the counters in memory, one element for each request.
RoomInMemory(w) == {x \in Processes \X (1 .. Limit) : memory[x[1]][w] # 0 /\ memory[x[1]][w] < x[2]}

Earned ==
    \A w \in Times :
        Cardinality(Admitted(w)) + Room(redis[w]) + Cardinality(RoomInMemory(w))
            <= Limit * counters[w]

LEMMA RoomIsFinite ==
    ASSUME NEW w
    PROVE  /\ IsFiniteSet(RoomInMemory(w)) /\ Cardinality(RoomInMemory(w)) \in Nat
           /\ IsFiniteSet(RoomInMemory(w)') /\ Cardinality(RoomInMemory(w)') \in Nat
<1>1. IsFiniteSet(Processes) /\ IsFiniteSet(1 .. Limit)
  BY StartupAssumption, ServiceAssumption, FS_Interval
<1>2. IsFiniteSet(Processes \X (1 .. Limit))
  BY <1>1, FS_Product
<1>3. /\ RoomInMemory(w) \in SUBSET (Processes \X (1 .. Limit))
      /\ RoomInMemory(w)' \in SUBSET (Processes \X (1 .. Limit))
  BY DEF RoomInMemory
<1>4. IsFiniteSet(RoomInMemory(w)) /\ IsFiniteSet(RoomInMemory(w)')
  BY <1>2, <1>3, FS_Subset
<1> QED  BY <1>4, FS_CardinalityType

\* One more request takes a place of a counter's room, unless it is the first
\* one, which makes the room.
LEMMA RoomCounts ==
    ASSUME NEW n \in Nat
    PROVE  /\ Room(n) \in Nat /\ Passes(n) \in Nat /\ First(n) \in {0, 1}
           /\ Room(n + 1) + Passes(n) <= Room(n) + Limit * First(n)
<1> USE ServiceAssumption DEF Room, Passes, First
<1>1. CASE n = 0
  BY <1>1
<1>2. CASE n # 0
  BY <1>2
<1> QED  BY <1>1, <1>2

LEMMA RoomInMemoryCounts ==
    ASSUME RateTypes, NEW p \in Processes, NEW w \in Times,
           memory' = [memory EXCEPT ![p][w] = @ + 1]
    PROVE  Cardinality(RoomInMemory(w)') + Passes(memory[p][w])
             <= Cardinality(RoomInMemory(w)) + Limit * First(memory[p][w])
<1> USE ServiceAssumption
<1>1. PICK m \in Nat : m = memory[p][w]
  BY DEF RateTypes
<1>2. \A q \in Processes : memory'[q][w] = IF q = p THEN m + 1 ELSE memory[q][w]
  BY <1>1 DEF RateTypes
<1>3. \A x \in Processes \X (1 .. Limit) :
         x \in RoomInMemory(w)' <=>
           IF x[1] = p THEN m + 1 < x[2] ELSE x \in RoomInMemory(w)
  BY <1>1, <1>2 DEF RoomInMemory
<1>4. \A x \in Processes \X (1 .. Limit) :
         x[1] = p => (x \in RoomInMemory(w) <=> m # 0 /\ m < x[2])
  BY <1>1 DEF RoomInMemory
<1>5. /\ RoomInMemory(w) \subseteq Processes \X (1 .. Limit)
      /\ RoomInMemory(w)' \subseteq Processes \X (1 .. Limit)
  BY DEF RoomInMemory
<1>6. CASE m = 0 /\ Limit # 0
  <2>1. IsFiniteSet({p}) /\ Cardinality({p}) = 1
    BY FS_Singleton
  <2>2. IsFiniteSet(2 .. Limit) /\ Cardinality(2 .. Limit) = Limit - 1
    <3>1. 2 \in Int /\ Limit \in Int
      OBVIOUS
    <3>2. /\ IsFiniteSet(2 .. Limit)
          /\ Cardinality(2 .. Limit) = IF 2 > Limit THEN 0 ELSE Limit - 2 + 1
      BY <3>1, FS_Interval
    <3> QED  BY <1>6, <3>2
  <2>3. IsFiniteSet({p} \X (2 .. Limit)) /\ Cardinality({p} \X (2 .. Limit)) = Limit - 1
    <3>1. Cardinality({p} \X (2 .. Limit)) = Cardinality({p}) * Cardinality(2 .. Limit)
      BY <2>1, <2>2, FS_Product
    <3> QED  BY <1>6, <2>1, <2>2, <3>1, FS_Product
  <2> DEFINE new == {p} \X (2 .. Limit)
             all == RoomInMemory(w) \cup new
  <2>4. RoomInMemory(w)' \subseteq all
    <3> SUFFICES ASSUME NEW x \in RoomInMemory(w)' PROVE x \in RoomInMemory(w) \cup new
      OBVIOUS
    <3>1. x \in Processes \X (1 .. Limit)
      BY <1>5
    <3>2. CASE x[1] = p
      BY <3>1, <3>2, <1>3, <1>6
    <3>3. CASE x[1] # p
      BY <3>1, <3>3, <1>3
    <3> QED  BY <3>2, <3>3
  <2> HIDE DEF new
  <2>5. /\ IsFiniteSet(all)
        /\ Cardinality(all) = Cardinality(RoomInMemory(w)) + Cardinality(new)
                                - Cardinality(RoomInMemory(w) \cap new)
    BY <2>3, RoomIsFinite, FS_Union DEF new
  <2>6. Cardinality(RoomInMemory(w) \cap new) \in Nat
    BY RoomIsFinite, FS_Intersection, FS_CardinalityType
  <2>7. Cardinality(RoomInMemory(w)') <= Cardinality(all)
    BY <2>4, <2>5, FS_Subset
  <2>8. Cardinality(all) <= Cardinality(RoomInMemory(w)) + Limit - 1
    BY <1>6, <2>3, <2>5, <2>6, RoomIsFinite DEF new
  <2>9. Passes(memory[p][w]) = 1 /\ Limit * First(memory[p][w]) = Limit
    BY <1>1, <1>6 DEF Passes, First
  <2>10. Cardinality(all) \in Nat
    BY <2>5, FS_CardinalityType
  <2> HIDE DEF all
  <2> QED  BY <2>7, <2>8, <2>9, <2>10, RoomIsFinite
<1>7. CASE m # 0 /\ m + 1 <= Limit
  <2>1. <<p, m + 1>> \in RoomInMemory(w)
    BY <1>1, <1>4, <1>7
  <2>2. RoomInMemory(w)' \subseteq RoomInMemory(w) \ {<<p, m + 1>>}
    <3> SUFFICES ASSUME NEW x \in RoomInMemory(w)'
                 PROVE  x \in RoomInMemory(w) /\ x # <<p, m + 1>>
      OBVIOUS
    <3>1. x \in Processes \X (1 .. Limit)
      BY <1>5
    <3>2. CASE x[1] = p
      BY <3>1, <3>2, <1>3, <1>4, <1>7
    <3>3. CASE x[1] # p
      BY <3>1, <3>3, <1>3
    <3> QED  BY <3>2, <3>3
  <2>3. /\ IsFiniteSet(RoomInMemory(w) \ {<<p, m + 1>>})
        /\ Cardinality(RoomInMemory(w) \ {<<p, m + 1>>}) = Cardinality(RoomInMemory(w)) - 1
    BY <2>1, RoomIsFinite, FS_RemoveElement
  <2>4. Cardinality(RoomInMemory(w)') <= Cardinality(RoomInMemory(w)) - 1
    BY <2>2, <2>3, FS_Subset
  <2>5. Passes(memory[p][w]) = 1 /\ Limit * First(memory[p][w]) = 0
    BY <1>1, <1>7 DEF Passes, First
  <2> QED  BY <2>4, <2>5, RoomIsFinite
<1>8. CASE m + 1 > Limit
  <2>1. RoomInMemory(w)' \subseteq RoomInMemory(w)
    <3> SUFFICES ASSUME NEW x \in RoomInMemory(w)' PROVE x \in RoomInMemory(w)
      OBVIOUS
    <3>1. x \in Processes \X (1 .. Limit)
      BY <1>5
    <3> QED  BY <3>1, <1>3, <1>8
  <2>2. Cardinality(RoomInMemory(w)') <= Cardinality(RoomInMemory(w))
    BY <2>1, RoomIsFinite, FS_Subset
  <2>3. Passes(memory[p][w]) = 0 /\ Limit * First(memory[p][w]) \in Nat
    BY <1>1, <1>8 DEF Passes, First
  <2> QED  BY <2>2, <2>3, RoomIsFinite
<1> QED  BY <1>6, <1>7, <1>8

--------------------------------------------------------------------------------

LEMMA EarnedCounts ==
    ASSUME RateInv, Earned, NEW q \in Requests, CountInRedis(q) \/ CountInMemory(q), RateTypes'
    PROVE  Earned'
<1> USE ServiceAssumption
<1>0. request[q].state = "waiting"
  BY DEF CountInRedis, CountInMemory
<1>1. PICK h \in Times, p \in Processes : h = request[q].window /\ p = request[q].process
  BY <1>0 DEF RateInv, RateTypes
<1>2. PICK n \in Nat, m \in Nat : n = redis[h] /\ m = memory[p][h]
  BY DEF RateInv, RateTypes
<1> DEFINE admitted == Cardinality(Admitted(h))
           admittedNext == Cardinality(Admitted(h)')
<1>3. /\ admitted \in Nat /\ counters[h] \in Nat
      /\ admitted + Room(n) + Cardinality(RoomInMemory(h)) <= Limit * counters[h]
  BY <1>2, RequestsAreFinite DEF RateInv, RateTypes, Earned
<1>4. ASSUME NEW count \in Nat, Decide(q, count + 1)
      PROVE  /\ admittedNext = admitted + Passes(count)
             /\ \A w \in Times : w # h => Admitted(w)' = Admitted(w)
  <2>1. count + 1 \in Nat
    OBVIOUS
  <2>2. /\ Admitted(h)' = IF count + 1 > Limit THEN Admitted(h) ELSE Admitted(h) \cup {q}
        /\ q \notin Admitted(h)
    BY <1>0, <1>1, <1>4, <2>1, DecideSets DEF RateInv
  <2>3. \A w \in Times : w # h => Admitted(w)' = Admitted(w)
    BY <1>0, <1>1, <1>4, <2>1, DecideSets DEF RateInv
  <2>4. CASE count + 1 > Limit
    BY <1>3, <2>2, <2>3, <2>4 DEF Passes
  <2>5. CASE ~ count + 1 > Limit
    <3>1. Cardinality(Admitted(h) \cup {q}) = Cardinality(Admitted(h)) + 1
      BY <2>2, RequestsAreFinite, FS_AddElement
    <3> QED  BY <2>2, <2>3, <2>5, <3>1 DEF Passes
  <2> QED  BY <2>4, <2>5
<1>5. ASSUME NEW a \in {0, First(n)}, NEW b \in {0, First(m)},
             counters' = [counters EXCEPT ![h] = @ + a + b]
      PROVE  /\ Limit * counters'[h] = Limit * counters[h] + Limit * a + Limit * b
             /\ \A w \in Times : w # h => counters'[w] = counters[w]
  <2>1. a \in Nat /\ b \in Nat
    BY DEF First
  <2>2. counters'[h] = counters[h] + a + b
    BY <1>5 DEF RateInv, RateTypes
  <2>3. Limit * (counters[h] + a + b) = Limit * counters[h] + Limit * a + Limit * b
    BY <1>3, <2>1
  <2> QED  BY <1>5, <2>2, <2>3 DEF RateInv, RateTypes
<1>6. /\ redis' = [redis EXCEPT ![h] = @ + 1]
         => redis'[h] = n + 1 /\ \A w \in Times : w # h => redis'[w] = redis[w]
      /\ redis' = redis => redis'[h] = n
  BY <1>2 DEF RateInv, RateTypes
<1>7. /\ memory' = memory => \A w \in Times : RoomInMemory(w)' = RoomInMemory(w)
      /\ memory' = [memory EXCEPT ![p][h] = @ + 1]
           => \A w \in Times : w # h => RoomInMemory(w)' = RoomInMemory(w)
  <2>1. CASE memory' = [memory EXCEPT ![p][h] = @ + 1]
    <3>1. \A r \in Processes, w \in Times : w # h => memory'[r][w] = memory[r][w]
      BY <2>1 DEF RateInv, RateTypes
    <3>2. ASSUME NEW w \in Times, w # h PROVE RoomInMemory(w)' = RoomInMemory(w)
      BY <3>1, <3>2 DEF RoomInMemory
    <3>3. memory' = memory => \A w \in Times : RoomInMemory(w)' = RoomInMemory(w)
      BY DEF RoomInMemory
    <3> QED  BY <3>2, <3>3
  <2>2. memory' = memory => \A w \in Times : RoomInMemory(w)' = RoomInMemory(w)
    BY DEF RoomInMemory
  <2> QED  BY <2>1, <2>2
<1>8. /\ Room(n) \in Nat /\ Room(n + 1) \in Nat /\ Passes(n) \in Nat /\ Passes(m) \in Nat
      /\ Limit * First(n) \in Nat /\ Limit * First(m) \in Nat
      /\ Room(n + 1) + Passes(n) <= Room(n) + Limit * First(n)
  <2>1. n + 1 \in Nat
    BY <1>2
  <2>2. First(n) \in Nat /\ First(m) \in Nat
    BY DEF First
  <2> QED  BY <1>2, <2>1, <2>2, RoomCounts, SMTT(30)
<1> DEFINE before == Cardinality(RoomInMemory(h))
           after == Cardinality(RoomInMemory(h)')
<1>9. before \in Nat /\ after \in Nat
  BY RoomIsFinite
<1>10. memory' = [memory EXCEPT ![p][h] = @ + 1]
         => after + Passes(m) <= before + Limit * First(m)
  BY <1>2, RoomInMemoryCounts DEF RateInv
<1>11. memory' = memory => after = before
  BY <1>7
<1> HIDE DEF before, after, admitted, admittedNext
<1>12. /\ \A w \in Times : w # h =>
              /\ Admitted(w)' = Admitted(w) /\ counters'[w] = counters[w] /\ redis'[w] = redis[w]
              /\ RoomInMemory(w)' = RoomInMemory(w)
       /\ admittedNext + Room(redis'[h]) + after <= Limit * counters'[h]
  <2>1. CASE CountInRedis(q)
    <3>1. /\ redis' = [redis EXCEPT ![h] = @ + 1] /\ memory' = memory /\ Decide(q, n + 1)
          /\ counters' = [counters EXCEPT ![h] = @ + First(n)]
      BY <1>1, <1>2, <2>1 DEF CountInRedis
    <3>2. counters' = [counters EXCEPT ![h] = @ + First(n) + 0]
      <4>1. counters[h] + First(n) + 0 = counters[h] + First(n)
        BY <1>3 DEF First
      <4> QED  BY <3>1, <4>1
    <3>3. Limit * counters'[h] = Limit * counters[h] + Limit * First(n) + Limit * 0
          /\ \A w \in Times : w # h => counters'[w] = counters[w]
      BY <3>2, <1>5
    <3>4. admittedNext = admitted + Passes(n)
          /\ \A w \in Times : w # h => Admitted(w)' = Admitted(w)
      BY <3>1, <1>4
    <3>5. admitted + Room(n) + before <= Limit * counters[h] /\ Limit * counters[h] \in Nat
      BY <1>3 DEF before, admitted
    <3>6. redis'[h] = n + 1 /\ after = before
      BY <3>1, <1>6, <1>11
    <3>7. admittedNext + Room(redis'[h]) + after <= Limit * counters'[h]
      BY <3>3, <3>4, <3>5, <3>6, <1>3, <1>8, <1>9
    <3> QED  BY <3>1, <3>3, <3>4, <3>7, <1>6, <1>7
  <2>2. CASE CountInMemory(q)
    <3>1. memory' = [memory EXCEPT ![p][h] = @ + 1] /\ Decide(q, m + 1)
      BY <1>1, <1>2, <2>2 DEF CountInMemory
    <3>2. PICK a \in {0, First(n)} :
             /\ counters' = [counters EXCEPT ![h] = @ + a + First(m)]
             /\ \/ a = 0 /\ redis' = redis
                \/ a = First(n) /\ redis' = [redis EXCEPT ![h] = @ + 1]
      <4>1. CASE redis' = redis /\ counters' = [counters EXCEPT ![h] = @ + First(m)]
        <5>1. counters[h] + 0 + First(m) = counters[h] + First(m)
          BY <1>3 DEF First
        <5> QED  BY <4>1, <5>1
      <4>2. CASE /\ redis' = [redis EXCEPT ![h] = @ + 1]
                 /\ counters' = [counters EXCEPT ![h] = @ + First(m) + First(n)]
        <5>1. counters[h] + First(n) + First(m) = counters[h] + First(m) + First(n)
          BY <1>3 DEF First
        <5> QED  BY <4>2, <5>1
      <4> QED  BY <1>1, <1>2, <2>2, <4>1, <4>2 DEF CountInMemory
    <3>3. Limit * counters'[h] = Limit * counters[h] + Limit * a + Limit * First(m)
          /\ \A w \in Times : w # h => counters'[w] = counters[w]
      BY <3>2, <1>5
    <3>4. admittedNext = admitted + Passes(m)
          /\ \A w \in Times : w # h => Admitted(w)' = Admitted(w)
      BY <3>1, <1>4
    <3>5. admitted + Room(n) + before <= Limit * counters[h] /\ Limit * counters[h] \in Nat
      BY <1>3 DEF before, admitted
    <3>6. after + Passes(m) <= before + Limit * First(m)
      BY <3>1, <1>10
    <3>7. Room(redis'[h]) \in Nat /\ Limit * a \in Nat /\ Room(redis'[h]) <= Room(n) + Limit * a
      <4>1. CASE a = 0 /\ redis' = redis
        BY <4>1, <1>6, <1>8
      <4>2. CASE a = First(n) /\ redis' = [redis EXCEPT ![h] = @ + 1]
        BY <4>2, <1>6, <1>8
      <4> QED  BY <3>2, <4>1, <4>2
    <3>8. admittedNext + Room(redis'[h]) + after <= Limit * counters'[h]
      BY <3>3, <3>4, <3>5, <3>6, <3>7, <1>3, <1>8, <1>9
    <3>9. \A w \in Times : w # h => redis'[w] = redis[w]
      BY <3>2, <1>6
    <3> QED  BY <3>1, <3>3, <3>4, <3>8, <3>9, <1>7
  <2> QED  BY <2>1, <2>2
<1>13. ASSUME NEW w \in Times
       PROVE  (Cardinality(Admitted(w)) + Room(redis[w]) + Cardinality(RoomInMemory(w))
                  <= Limit * counters[w])'
  <2>1. CASE w = h
    BY <2>1, <1>12 DEF after, admittedNext
  <2>2. CASE w # h
    BY <2>2, <1>12 DEF Earned
  <2> QED  BY <2>1, <2>2
<1> QED  BY <1>13 DEF Earned

\* A counter that is lost leaves no room.
LEMMA EarnedLoss ==
    ASSUME RateTypes, RateTypes', Earned,
           \A w \in Times : Admitted(w)' = Admitted(w), counters' = counters,
           \A w \in Times : redis'[w] \in {redis[w], 0},
           \A q \in Processes, w \in Times : memory'[q][w] \in {memory[q][w], 0}
    PROVE  Earned'
<1> USE ServiceAssumption
<1> SUFFICES ASSUME NEW w \in Times
             PROVE  Cardinality(Admitted(w)) + Room(redis'[w]) + Cardinality(RoomInMemory(w)')
                      <= Limit * counters[w]
  BY DEF Earned
<1>1. RoomInMemory(w)' \subseteq RoomInMemory(w)
  BY DEF RoomInMemory
<1>2. Cardinality(RoomInMemory(w)') <= Cardinality(RoomInMemory(w))
  BY <1>1, RoomIsFinite, FS_Subset
<1>3. Room(redis'[w]) <= Room(redis[w]) /\ Room(redis'[w]) \in Nat /\ Room(redis[w]) \in Nat
  <2>1. redis[w] \in Nat
    BY DEF RateTypes
  <2> QED  BY <2>1 DEF Room
<1>4. /\ Cardinality(Admitted(w)) \in Nat /\ counters[w] \in Nat
      /\ Cardinality(Admitted(w)) + Room(redis[w]) + Cardinality(RoomInMemory(w))
           <= Limit * counters[w]
  BY RequestsAreFinite DEF RateTypes, Earned
<1>5. Limit * counters[w] \in Nat
  BY <1>4
<1> QED  BY <1>2, <1>3, <1>4, <1>5, RoomIsFinite

LEMMA EarnedInit == ServiceInit => Earned
<1> SUFFICES ASSUME ServiceInit, NEW w \in Times
             PROVE  Cardinality(Admitted(w)) + Room(redis[w]) + Cardinality(RoomInMemory(w))
                      <= Limit * counters[w]
  BY DEF Earned
<1>1. redis[w] = 0 /\ counters[w] = 0 /\ \A q \in Processes : memory[q][w] = 0
  BY DEF ServiceInit, Nothing
<1>4. Admitted(w) = {}
  BY DEF ServiceInit, Admitted, InState, Sent, Unsent
<1>2. RoomInMemory(w) = {}
  BY <1>1 DEF RoomInMemory
<1>3. Cardinality(RoomInMemory(w)) = 0 /\ Cardinality(Admitted(w)) = 0
  BY <1>2, <1>4, FS_EmptySet
<1> QED  BY <1>1, <1>3, ServiceAssumption DEF Room

LEMMA EarnedNext == Inv /\ Inv' /\ Earned /\ [Next]_vars => Earned'
<1> SUFFICES ASSUME Inv, Inv', Earned, [Next]_vars PROVE Earned'
  OBVIOUS
<1>1. RateInv /\ RateTypes /\ RateTypes'
  BY DEF Inv, RateInv
<1>2. ASSUME request' = request PROVE \A w \in Times : Admitted(w)' = Admitted(w)
  BY <1>2 DEF Admitted, InState, Sent
<1>3. ASSUME UNCHANGED <<redis, memory, counters>>, \A w \in Times : Admitted(w)' = Admitted(w)
      PROVE  Earned'
  BY <1>1, <1>3, EarnedLoss
<1>4. ASSUME NEW q \in Requests, CountInRedis(q) \/ CountInMemory(q) PROVE Earned'
  BY <1>1, <1>4, EarnedCounts
<1>5. ASSUME NEW p \in Processes, NEW q \in Requests, LetThrough(p, q) \/ Arrive(p, q) PROVE Earned'
  <2>1. PICK what \in {"waiting", "through"} : \E v, c :
          request' = [request EXCEPT
                        ![q] = [state |-> what, process |-> p, window |-> v, customer |-> c]]
    BY <1>5 DEF LetThrough, Arrive, Receive
  <2>2. request[q].state = "new" /\ UNCHANGED <<redis, memory, counters>>
    BY <1>5 DEF LetThrough, Arrive, Receive
  <2>3. request'[q].state = what /\ \A r \in Requests \ {q} : request'[r] = request[r]
    BY <1>1, <2>1 DEF RateTypes
  <2>4. \A w \in Times : Admitted(w)' = Admitted(w)
    BY <2>2, <2>3 DEF Admitted, InState, Sent
  <2> QED  BY <1>3, <2>2, <2>4
<1>6. ASSUME NEW p \in Processes, StartStep(p), UNCHANGED rateVars PROVE Earned'
  BY <1>2, <1>3, <1>6 DEF rateVars
<1>7. ASSUME NEW p \in Processes, ProcessDies(p) PROVE Earned'
  <2>1. memory' = [memory EXCEPT ![p] = Nothing] /\ redis' = redis /\ counters' = counters
    BY <1>7 DEF ProcessDies
  <2>2. \A q \in Processes, w \in Times : memory'[q][w] \in {memory[q][w], 0}
    BY <1>1, <2>1 DEF RateTypes, Nothing
  <2>3. \A w \in Times : Admitted(w)' = Admitted(w)
    BY <1>1, <1>7, DeathSets
  <2> QED  BY <1>1, <2>1, <2>2, <2>3, EarnedLoss
<1>8. ASSUME NEW w \in Times, CounterExpires(w) PROVE Earned'
  <2>1. request' = request /\ counters' = counters
    BY <1>8 DEF CounterExpires
  <2>2. \A v \in Times : redis'[v] \in {redis[v], 0}
    BY <1>1, <1>8 DEF CounterExpires, RateTypes
  <2>3. \A q \in Processes, v \in Times : memory'[q][v] \in {memory[q][v], 0}
    <3>1. CASE memory' = memory
      BY <3>1
    <3>2. ASSUME NEW p \in Processes, memory' = [memory EXCEPT ![p][w] = 0]
          PROVE  \A q \in Processes, v \in Times : memory'[q][v] \in {memory[q][v], 0}
      BY <1>1, <3>2 DEF RateTypes
    <3> QED  BY <1>8, <3>1, <3>2 DEF CounterExpires
  <2> QED  BY <1>1, <1>2, <2>1, <2>2, <2>3, EarnedLoss
<1>9. CASE RedisStops
  <2>1. redis' = Nothing /\ memory' = memory /\ request' = request /\ counters' = counters
    BY <1>9 DEF RedisStops
  <2>2. \A w \in Times : redis'[w] = 0
    BY <2>1 DEF Nothing
  <2> QED  BY <1>1, <1>2, <2>1, <2>2, EarnedLoss
<1>10. CASE WindowEnds \/ RedisStarts \/ UNCHANGED vars
  BY <1>2, <1>3, <1>10 DEF WindowEnds, RedisStarts, vars, rateVars
<1> QED  BY <1>4, <1>5, <1>6, <1>7, <1>8, <1>9, <1>10 DEF Next

\* A window lets through at most the limit for each counter that ever counted in
\* it, for any number of processes, outages and lost answers of Redis
\* (rate_limit.py:29-47, 89-94).
THEOREM AdmissionsAreEarned == Spec => []AdmittedWithinLimits
<1>1. Inv /\ Earned => AdmittedWithinLimits
  <2> SUFFICES ASSUME Inv, Earned, NEW w \in Times
               PROVE  Cardinality(Admitted(w)) <= Limit * counters[w]
    BY DEF AdmittedWithinLimits
  <2>1. /\ Cardinality(Admitted(w)) \in Nat /\ counters[w] \in Nat /\ redis[w] \in Nat
        /\ Cardinality(Admitted(w)) + Room(redis[w]) + Cardinality(RoomInMemory(w))
             <= Limit * counters[w]
    BY RequestsAreFinite DEF Inv, RateInv, RateTypes, Earned
  <2>2. Room(redis[w]) \in Nat /\ Limit * counters[w] \in Nat
    BY <2>1, RoomCounts, ServiceAssumption
  <2> QED  BY <2>1, <2>2, RoomIsFinite
<1>2. ServiceInit => Earned
  BY EarnedInit
<1> QED  BY <1>1, <1>2, EarnedNext, ServiceInvariance, PTL DEF Spec

--------------------------------------------------------------------------------
(* The starts end. *)

\* The steps a start has left, if nothing fails: four for every migration, two for
\* every attempt at the bucket.  Who goes back to the beginning because another
\* process was faster begins behind the migration it lost.
StartLeft(p) ==
    LET bucketTries == 2 * BootstrapAttempts
        behind(v) == bucketTries + 4 * (Latest - v)
    IN  CASE phase[p] = "down"    -> behind(Version) + 2
          [] phase[p] = "version" -> behind(Version) + 1
          [] phase[p] = "apply"   -> behind(at[p]) + 4
          [] phase[p] = "record"  -> behind(at[p]) + 3
          [] phase[p] = "head"    -> 2 * (BootstrapAttempts - at[p]) + 2
          [] phase[p] = "create"  -> 2 * (BootstrapAttempts - at[p]) + 1
          [] OTHER                -> 0

\* Between two faults no start is thrown back, and whatever moves a process brings
\* one start nearer to its end.
StartsAdvance ==
    \/ faults' = faults + 1
    \/ /\ \A p \in Processes : StartLeft(p) \in Nat /\ StartLeft(p)' <= StartLeft(p)
       /\ UNCHANGED <<phase, at>> \/ \E p \in Processes : StartLeft(p)' < StartLeft(p)

LEMMA NextVersionOfPrefix ==
    ASSUME NEW n \in -1 .. Latest, recorded' = 0 .. n
    PROVE  Version' = n
<1> USE StartupAssumption
<1>1. CASE n = -1
  BY <1>1 DEF Version
<1>2. CASE n # -1
  <2>1. n \in recorded' /\ \A w \in recorded' : w <= n  BY <1>2
  <2>2. \A v \in recorded' : (\A w \in recorded' : w <= v) => v = n  BY <2>1
  <2>3. (CHOOSE v \in recorded' : \A w \in recorded' : w <= v) = n  BY <2>1, <2>2
  <2> QED  BY <2>1, <2>3 DEF Version
<1> QED  BY <1>1, <1>2

\* The version never falls.
LEMMA VersionGrows ==
    ASSUME StartInv, StartInv', recorded \subseteq recorded'
    PROVE  Version \in -1 .. Latest /\ Version' \in -1 .. Latest /\ Version <= Version'
<1> USE StartupAssumption
<1>1. PICK n \in -1 .. Latest : recorded = 0 .. n
  BY DEF StartInv, Prefix
<1>2. PICK m \in -1 .. Latest : recorded' = 0 .. m
  BY DEF StartInv, Prefix
<1>3. Version = n
  BY <1>1, VersionOfPrefix
<1>4. Version' = m
  BY <1>2, NextVersionOfPrefix
<1>5. n <= m
  <2>1. CASE n = -1
    BY <2>1
  <2>2. CASE n # -1
    <3>1. n \in 0 .. n
      BY <2>2
    <3>2. n \in 0 .. m
      BY <1>1, <1>2, <3>1
    <3> QED  BY <3>2
  <2> QED  BY <2>1, <2>2
<1> QED  BY <1>3, <1>4, <1>5

LEMMA StartLeftNat ==
    ASSUME StartInv, NEW p \in Processes, Version \in -1 .. Latest
    PROVE  StartLeft(p) \in Nat
<1> USE StartupAssumption
<1>1. PICK v \in -1 .. Latest : v = Version
  OBVIOUS
<1>2. /\ phase[p] \in Phases
      /\ phase[p] \in {"apply", "record"} => at[p] \in 0 .. Latest
      /\ phase[p] \in {"head", "create"} => at[p] \in 1 .. BootstrapAttempts
  BY DEF StartInv, StartTypes, Placed, Migrations
<1>3. CASE phase[p] \in {"down", "version"}
  BY <1>1, <1>3 DEF StartLeft
<1>4. CASE phase[p] \in {"apply", "record"}
  BY <1>2, <1>4 DEF StartLeft
<1>5. CASE phase[p] \in {"head", "create"}
  BY <1>2, <1>5 DEF StartLeft
<1>6. CASE phase[p] = "up"
  BY <1>6 DEF StartLeft
<1> QED  BY <1>2, <1>3, <1>4, <1>5, <1>6 DEF Phases

\* A process that stays where it is has no more left than before, and less if the
\* others recorded what it had to do.
LEMMA StandsStill ==
    ASSUME StartInv, StartInv', NEW p \in Processes,
           phase'[p] = phase[p], at'[p] = at[p], recorded \subseteq recorded'
    PROVE  StartLeft(p)' <= StartLeft(p)
<1> USE StartupAssumption
<1>1. PICK v, w \in -1 .. Latest : v = Version /\ w = Version' /\ v <= w
  BY VersionGrows
<1>2. /\ phase[p] \in Phases
      /\ phase[p] \in {"apply", "record"} => at[p] \in 0 .. Latest
      /\ phase[p] \in {"head", "create"} => at[p] \in 1 .. BootstrapAttempts
  BY DEF StartInv, StartTypes, Placed, Migrations
<1>3. CASE phase[p] \in {"down", "version"}
  BY <1>1, <1>3 DEF StartLeft
<1>4. CASE phase[p] \in {"apply", "record"}
  BY <1>2, <1>4 DEF StartLeft
<1>5. CASE phase[p] \in {"head", "create"}
  BY <1>2, <1>5 DEF StartLeft
<1>6. CASE phase[p] = "up"
  BY <1>6 DEF StartLeft
<1> QED  BY <1>2, <1>3, <1>4, <1>5, <1>6 DEF Phases

\* Each step of a start leaves fewer.
LEMMA StartFalls ==
    ASSUME StartInv, StartInv', NEW p \in Processes, StartStep(p), ~ApplyInterrupted(p)
    PROVE  /\ StartLeft(p)' < StartLeft(p) /\ StartLeft(p)' <= StartLeft(p)
           /\ recorded \subseteq recorded'
<1> USE StartupAssumption
<1>0. recorded \subseteq recorded'
  BY DEF StartStep, Start, ReadVersion, Apply, Record, RecordTwice, BucketManagedElsewhere,
         HeadBucket, HeadFails, CreateBucket, CreateFails, schema
<1>1. PICK n \in -1 .. Latest : recorded = 0 .. n
  BY DEF StartInv, Prefix
<1>2. Version = n
  BY <1>1, VersionOfPrefix
<1>3. PICK m \in -1 .. Latest : m = Version' /\ n <= m
  BY <1>0, <1>2, VersionGrows
<1>4. Placed(p) /\ Placed(p)' /\ phase \in [Processes -> Phases] /\ at \in [Processes -> Int]
  BY DEF StartInv, StartTypes
<1>5. CASE Start(p)
  <2>1. phase'[p] = "version" /\ phase[p] = "down" /\ m = n
    BY <1>2, <1>3, <1>4, <1>5 DEF Start, Goto, schema, Version
  <2> QED  BY <1>0, <1>2, <1>3, <2>1 DEF StartLeft
<1>6. CASE ReadVersion(p)
  <2>1. CASE n = Latest
    <3>1. phase[p] = "version" /\ phase'[p] = "head" /\ at'[p] = 1
      BY <1>2, <1>4, <1>6, <2>1 DEF ReadVersion, Goto
    <3> QED  BY <1>0, <1>2, <1>3, <2>1, <3>1 DEF StartLeft
  <2>2. CASE n # Latest
    <3>1. phase[p] = "version" /\ phase'[p] = "apply" /\ at'[p] = n + 1
      BY <1>2, <1>4, <1>6, <2>2 DEF ReadVersion, Goto
    <3> QED  BY <1>0, <1>2, <1>3, <2>2, <3>1 DEF StartLeft
  <2> QED  BY <2>1, <2>2
<1>7. CASE Apply(p)
  <2>1. phase[p] = "apply" /\ phase'[p] = "record" /\ at'[p] = at[p] /\ at[p] \in Migrations
    BY <1>4, <1>7 DEF Apply, Goto, Placed
  <2> QED  BY <1>0, <2>1 DEF StartLeft, Migrations
<1>8. CASE Record(p)
  <2>1. phase[p] = "record" /\ at[p] \in Migrations
    BY <1>4, <1>8 DEF Record, Placed
  <2>2. CASE at[p] = Latest
    <3>1. phase'[p] = "head" /\ at'[p] = 1
      BY <1>4, <1>8, <2>2 DEF Record, Goto
    <3> QED  BY <1>0, <2>1, <2>2, <3>1 DEF StartLeft, Migrations
  <2>3. CASE at[p] # Latest
    <3>1. phase'[p] = "apply" /\ at'[p] = at[p] + 1
      BY <1>4, <1>8, <2>3 DEF Record, Goto
    <3> QED  BY <1>0, <2>1, <2>3, <3>1 DEF StartLeft, Migrations
  <2> QED  BY <2>2, <2>3
<1>9. CASE RecordTwice(p)
  <2>1. /\ phase[p] = "record" /\ at[p] \in Migrations /\ at[p] <= n
        /\ phase'[p] = "down"
    BY <1>1, <1>4, <1>9 DEF RecordTwice, Goto, Placed
  <2>2. 4 * (Latest - m) <= 4 * (Latest - at[p])
    BY <1>3, <2>1 DEF Migrations
  <2> QED  BY <1>0, <1>3, <2>1, <2>2 DEF StartLeft, Migrations
<1>10. CASE \/ BucketManagedElsewhere(p) \/ HeadBucket(p) \/ HeadFails(p)
            \/ CreateBucket(p) \/ CreateFails(p)
  <2>1. phase[p] \in {"head", "create"} /\ at[p] \in 1 .. BootstrapAttempts
    BY <1>4, <1>10 DEF Placed, BucketManagedElsewhere, HeadBucket, HeadFails, CreateBucket,
                       CreateFails
  <2>2. \/ phase'[p] = "up"
        \/ phase[p] = "head" /\ phase'[p] = "create" /\ at'[p] = at[p]
        \/ phase'[p] = "head" /\ at'[p] = at[p] + 1
    BY <1>4, <1>10 DEF BucketManagedElsewhere, HeadBucket, HeadFails, CreateBucket, CreateFails,
                       TryAgain, Goto
  <2> QED  BY <1>0, <2>1, <2>2 DEF StartLeft
<1> QED  BY <1>5, <1>6, <1>7, <1>8, <1>9, <1>10 DEF StartStep

LEMMA StartsStep == Inv /\ Inv' /\ [Next]_vars => [StartsAdvance]_vars
<1> SUFFICES ASSUME Inv, Inv', [Next]_vars, vars' # vars PROVE StartsAdvance
  OBVIOUS
<1>0. StartInv /\ StartInv'
  BY DEF Inv
<1>1. ASSUME NEW p \in Processes, StartStep(p), ~ApplyInterrupted(p) PROVE StartsAdvance
  <2>1. /\ StartLeft(p)' < StartLeft(p) /\ StartLeft(p)' <= StartLeft(p)
        /\ recorded \subseteq recorded'
    BY <1>0, <1>1, StartFalls
  <2>2. Version \in -1 .. Latest
    BY <1>0, <2>1, VersionGrows
  <2>3. ASSUME NEW q \in Processes PROVE StartLeft(q) \in Nat /\ StartLeft(q)' <= StartLeft(q)
    <3>1. StartLeft(q) \in Nat
      BY <1>0, <2>2, StartLeftNat
    <3>2. CASE q = p
      BY <2>1, <3>1, <3>2
    <3>3. CASE q # p
      <4>1. phase'[q] = phase[q] /\ at'[q] = at[q]
        BY <1>0, <1>1, <3>3 DEF StartStep, Start, ReadVersion, Apply, Record, RecordTwice,
           BucketManagedElsewhere, HeadBucket, HeadFails, CreateBucket, CreateFails, TryAgain, Goto,
           StartInv, StartTypes
      <4> QED  BY <1>0, <2>1, <3>1, <4>1, StandsStill
    <3> QED  BY <3>2, <3>3, <3>1
  <2> QED  BY <2>1, <2>3 DEF StartsAdvance
<1>2. CASE UNCHANGED <<phase, at, recorded>>
  <2>1. Version \in -1 .. Latest
    BY <1>0, <1>2, VersionGrows
  <2>2. ASSUME NEW q \in Processes PROVE StartLeft(q) \in Nat /\ StartLeft(q)' <= StartLeft(q)
    BY <1>0, <1>2, <2>1, StartLeftNat, StandsStill
  <2> QED  BY <1>2, <2>2 DEF StartsAdvance
<1>3. ASSUME NEW p \in Processes, ProcessDies(p) PROVE StartsAdvance
  BY <1>3 DEF ProcessDies, Crash, StartsAdvance
<1>4. CASE RedisStops
  BY <1>4 DEF RedisStops, StartsAdvance
<1>5. ASSUME NEW q \in Requests,
             \/ CountInRedis(q) \/ CountInMemory(q)
             \/ \E p \in Processes : LetThrough(p, q) \/ Arrive(p, q)
      PROVE  StartsAdvance
  <2>1. UNCHANGED startupVars
    BY <1>5 DEF LetThrough, Arrive, Receive, CountInRedis, CountInMemory, Decide
  <2> QED  BY <1>2, <2>1 DEF startupVars, schema
<1>6. CASE (\E w \in Times : CounterExpires(w)) \/ WindowEnds \/ RedisStarts
  <2>1. UNCHANGED startupVars
    BY <1>6 DEF CounterExpires, WindowEnds, RedisStarts
  <2> QED  BY <1>2, <2>1 DEF startupVars, schema
<1>7. ASSUME NEW p \in Processes, ApplyInterrupted(p) PROVE StartsAdvance
  BY <1>7 DEF ApplyInterrupted, StartsAdvance
<1> QED  BY <1>1, <1>3, <1>4, <1>5, <1>6, <1>7 DEF Next

\* Processes that start together cannot throw each other back for ever: between two
\* faults, of which there are finitely many here, each start has a number of steps
\* left that only falls, although whoever loses the race for a row exits and, if it
\* is started, begins again (checkpointer.py:50-60).
THEOREM StartsDoNotGoRound == Spec => [][StartsAdvance]_vars
  BY ServiceInvariance, StartsStep, PTL DEF Spec

--------------------------------------------------------------------------------
(* The race for a row. *)

\* A process whose row another one has recorded, and a process that nobody is
\* ahead of.
Beaten(p) == phase[p] \in {"apply", "record"} /\ at[p] \in recorded
Leads(p) ==
    \/ phase[p] \in Serving
    \/ phase[p] \in {"apply", "record"} /\ at[p] \notin recorded

Led == faults = 0 /\ (\E p \in Processes : Beaten(p)) => \E p \in Processes : Leads(p)

\* Who records a row leads from then on, and who leads does not give up.
LEMMA LedStep ==
    ASSUME StartInv, Led, NEW p \in Processes, StartStep(p)
    PROVE  Led'
<1> SUFFICES ASSUME faults' = 0, NEW x \in Processes, Beaten(x)'
             PROVE  \E q \in Processes : Leads(q)'
  BY DEF Led
<1> USE StartupAssumption
<1>0. faults \in Nat /\ Placed(p)
  BY DEF StartInv, StartTypes
<1>1. PICK n \in -1 .. Latest : recorded = 0 .. n
  BY DEF StartInv, Prefix
<1>2. ASSUME Goto(p, "down", 0) \/ Goto(p, "version", 0) \/ Goto(p, "record", at[p]),
             recorded' = recorded, faults' = faults, Leads(p) => phase[p] = "apply" /\ Goto(p, "record", at[p]),
             Beaten(p)' => Beaten(p)
      PROVE  \E q \in Processes : Leads(q)'
  <2>1. \A q \in Processes \ {p} : phase'[q] = phase[q] /\ at'[q] = at[q]
    BY <1>2 DEF Goto, StartInv, StartTypes
  <2>2. Beaten(x)
    BY <1>2, <2>1 DEF Beaten
  <2>3. PICK q \in Processes : Leads(q)
    BY <1>2, <2>2 DEF Led
  <2>4. CASE q = p
    BY <1>2, <2>3, <2>4 DEF Leads, Goto, Serving, StartInv, StartTypes
  <2>5. CASE q # p
    BY <1>2, <2>1, <2>3, <2>5 DEF Leads
  <2> QED  BY <2>4, <2>5
<1>3. CASE Start(p)
  <2>1. Goto(p, "version", 0) /\ recorded' = recorded /\ faults' = faults /\ phase[p] = "down"
    BY <1>3 DEF Start, schema
  <2>2. ~Leads(p) /\ ~Beaten(p)'
    BY <2>1 DEF Leads, Beaten, Serving, Goto, StartInv, StartTypes
  <2> QED  BY <1>2, <2>1, <2>2
<1>4. CASE ReadVersion(p)
  <2>1. Version = n
    BY <1>1, VersionOfPrefix
  <2>2. CASE n = Latest
    BY <1>4, <2>1, <2>2 DEF ReadVersion, Goto, Leads, Serving, StartInv, StartTypes
  <2>3. CASE n # Latest
    <3>1. phase'[p] = "apply" /\ at'[p] = n + 1 /\ recorded' = recorded
      BY <1>4, <2>1, <2>3 DEF ReadVersion, Goto, schema, StartInv, StartTypes
    <3>2. n + 1 \notin recorded'
      BY <1>1, <3>1
    <3> QED  BY <3>1, <3>2 DEF Leads
  <2> QED  BY <2>2, <2>3
<1>5. CASE Apply(p)
  <2>1. Goto(p, "record", at[p]) /\ recorded' = recorded /\ faults' = faults /\ phase[p] = "apply"
    BY <1>5 DEF Apply
  <2>2. Beaten(p)' => Beaten(p)
    BY <2>1 DEF Beaten, Goto, StartInv, StartTypes
  <2> QED  BY <1>2, <2>1, <2>2
<1>6. CASE Record(p)
  <2>1. at[p] \in Migrations /\ 0 .. at[p] - 1 \subseteq recorded
    BY <1>0, <1>6 DEF Record, Placed
  <2>2. at[p] \notin recorded /\ recorded' = recorded \cup {at[p]}
    BY <1>6 DEF Record
  <2>3. CASE at[p] = Latest
    BY <1>6, <2>3 DEF Record, Goto, Leads, Serving, StartInv, StartTypes
  <2>4. CASE at[p] # Latest
    <3>1. phase'[p] = "apply" /\ at'[p] = at[p] + 1
      BY <1>6, <2>4 DEF Record, Goto, StartInv, StartTypes
    <3>2. at[p] + 1 \notin recorded'
      BY <1>1, <2>1, <2>2 DEF Migrations
    <3> QED  BY <3>1, <3>2 DEF Leads
  <2> QED  BY <2>3, <2>4
<1>7. CASE RecordTwice(p)
  <2>1. Goto(p, "down", 0) /\ recorded' = recorded /\ faults' = faults
        /\ phase[p] = "record" /\ at[p] \in recorded
    BY <1>7 DEF RecordTwice, schema
  <2>2. ~Leads(p) /\ ~Beaten(p)'
    BY <2>1 DEF Leads, Beaten, Serving, Goto, StartInv, StartTypes
  <2> QED  BY <1>2, <2>1, <2>2
<1>8. CASE \/ BucketManagedElsewhere(p) \/ HeadBucket(p) \/ HeadFails(p)
           \/ CreateBucket(p) \/ CreateFails(p)
  <2>1. \E what \in Serving, m \in {0, 1, at[p], at[p] + 1} : Goto(p, what, m)
    BY <1>8 DEF BucketManagedElsewhere, HeadBucket, HeadFails, CreateBucket, CreateFails,
                TryAgain, Serving
  <2> QED  BY <2>1 DEF Goto, Leads, StartInv, StartTypes
<1>9. CASE ApplyInterrupted(p)
  BY <1>0, <1>9 DEF ApplyInterrupted
<1> QED  BY <1>3, <1>4, <1>5, <1>6, <1>7, <1>8, <1>9 DEF StartStep

LEMMA LedNext == Inv /\ Led /\ [Next]_vars => Led'
<1> SUFFICES ASSUME Inv, Led, [Next]_vars PROVE Led'
  OBVIOUS
<1>1. StartInv /\ faults \in Nat
  BY StartupAssumption DEF Inv, StartInv, StartTypes
<1>2. CASE \E p \in Processes : StartStep(p) /\ UNCHANGED rateVars
  BY <1>1, <1>2, LedStep
<1>3. CASE (\E p \in Processes : ProcessDies(p)) \/ RedisStops
  <2>1. faults' = faults + 1
    BY <1>3 DEF ProcessDies, Crash, RedisStops
  <2> QED  BY <1>1, <2>1 DEF Led
<1>4. CASE UNCHANGED startupVars
  BY <1>4 DEF startupVars, schema, Led, Beaten, Leads
<1> QED
  BY <1>2, <1>3, <1>4
  DEF Next, vars, LetThrough, Arrive, Receive, CountInRedis, CountInMemory, Decide,
      CounterExpires, WindowEnds, RedisStarts

\* Unless a step keeps the starts as they are or is a fault, it leaves a process
\* running that was, or was beaten by one that is.
LEMMA StartGoesOn ==
    ASSUME StartInv, Led, NEW p \in Processes, StartStep(p), faults' = 0
    PROVE  \E q \in Processes : phase'[q] # "down"
<1> USE StartupAssumption
<1>1. faults \in Nat
  BY DEF StartInv, StartTypes
<1>2. CASE RecordTwice(p)
  <2>1. Beaten(p) /\ faults = 0 /\ ~Leads(p)
    BY <1>2 DEF RecordTwice, Beaten, Leads, Serving
  <2>2. PICK q \in Processes : Leads(q)
    BY <2>1 DEF Led
  <2>3. q # p /\ phase[q] # "down"
    BY <2>1, <2>2 DEF Leads, Serving
  <2>4. phase'[q] = phase[q]
    BY <1>2, <2>3 DEF RecordTwice, Goto, StartInv, StartTypes
  <2> QED  BY <2>3, <2>4
<1>3. CASE ApplyInterrupted(p)
  BY <1>1, <1>3 DEF ApplyInterrupted
<1>4. CASE ~RecordTwice(p) /\ ~ApplyInterrupted(p)
  <2>1. \E what \in Phases \ {"down"} : phase' = [phase EXCEPT ![p] = what]
    BY <1>4 DEF StartStep, Start, ReadVersion, Apply, Record, BucketManagedElsewhere,
        HeadBucket, HeadFails, CreateBucket, CreateFails, TryAgain, Goto, Phases
  <2> QED  BY <2>1 DEF StartInv, StartTypes
<1> QED  BY <1>2, <1>3, <1>4

\* However many processes start at once, the race for the rows of
\* checkpoint_migrations leaves one of them running as long as nothing fails
\* (checkpointer.py:52-60, s3_bootstrap.py:35-59).
THEOREM OneStartGoesOn == Spec => RaceHasAWinner
<1>1. ServiceInit => Led
  BY DEF ServiceInit, Init, Led, Beaten
<1>2. Spec => []Led
  BY <1>1, LedNext, ServiceInvariance, PTL DEF Spec
<1> DEFINE Kept == (faults' = 0 /\ \E p \in Processes : phase[p] # "down")
                      => \E p \in Processes : phase'[p] # "down"
<1>3. Inv /\ Led /\ [Next]_vars => [Kept]_vars
  <2> SUFFICES ASSUME Inv, Led, Next PROVE Kept
    BY DEF Kept
  <2>1. StartInv /\ faults \in Nat
    BY StartupAssumption DEF Inv, StartInv, StartTypes
  <2>2. CASE \E p \in Processes : StartStep(p) /\ UNCHANGED rateVars
    BY <2>1, <2>2, StartGoesOn
  <2>3. CASE (\E p \in Processes : ProcessDies(p)) \/ RedisStops
    <3>1. faults' = faults + 1
      BY <2>3 DEF ProcessDies, Crash, RedisStops
    <3> QED  BY <2>1, <3>1
  <2>4. CASE UNCHANGED startupVars
    BY <2>4 DEF startupVars
  <2> QED
    BY <2>2, <2>3, <2>4
    DEF Next, LetThrough, Arrive, Receive, CountInRedis, CountInMemory, Decide,
        CounterExpires, WindowEnds, RedisStarts
<1>4. Spec => [][Kept]_vars
  BY <1>2, <1>3, ServiceInvariance, PTL DEF Spec
<1> QED  BY <1>4 DEF RaceHasAWinner

================================================================================
