----------------------------- MODULE FetchProofs -----------------------------
(***************************************************************************)
(* Proofs about Promise and Fetch, for every number of promises and of      *)
(* requests and for every set of values.                                    *)
(***************************************************************************)
EXTENDS Fetch, TLAPS

-----------------------------------------------------------------------------
(* The invariant: the types, and what the properties rest on.               *)

(* A settled promise has a value, and then() was called, and promises were  *)
(* adopted, only where there is a promise.                                  *)
Sound ==
    /\ \A p \in Promises : Settled(p) => promise[p].result \in Values
    /\ \A p \in handled : Exists(p)
    /\ \A i \in DOMAIN jobs : jobs[i].type = "thenable" => Exists(jobs[i].thenable)

(* A request that is under way knows its promise, one that was answered its *)
(* status.                                                                  *)
UnderWay ==
    /\ \A r \in Requests : request[r].phase = "flight" => request[r].promise \in Promises
    /\ \A i \in DOMAIN mainQueue :
         /\ request[mainQueue[i]].promise \in Promises
         /\ request[mainQueue[i]].status \in Values

FetchInv == TypeOK /\ Sound /\ UnderWay /\ TrackerExact

PromiseInv == PromiseTypeOK /\ Sound /\ TrackerExact

-----------------------------------------------------------------------------
(* The job queue.                                                           *)

(* A settled promise's reaction becomes a job.                              *)
LEMMA ReactionJobType ==
    ASSUME NEW rd \in Reactions, NEW isReject \in BOOLEAN, NEW value \in Values
    PROVE  /\ ReactionJob(rd, isReject, value) \in Jobs
           /\ ReactionJob(rd, isReject, value).type = "reaction"
  BY DEF ReactionJob, Reactions, Jobs

(* A queue of well-formed jobs whose thenables exist.                       *)
GoodQueue(q) ==
    /\ q \in Seq(Jobs)
    /\ \A i \in DOMAIN q : q[i].type = "thenable" => Exists(q[i].thenable)

LEMMA TailGood ==
    ASSUME NEW q \in Seq(Jobs), GoodQueue(q), q # <<>>
    PROVE  /\ GoodQueue(Tail(q))
           /\ Head(q) \in Jobs
           /\ Head(q).type = "thenable" => Exists(Head(q).thenable)
<1>1. Tail(q) \in Seq(Jobs) /\ Head(q) \in Jobs /\ Head(q) = q[1] /\ 1 \in DOMAIN q
  OBVIOUS
<1>2. \A i \in DOMAIN Tail(q) : i + 1 \in DOMAIN q /\ Tail(q)[i] = q[i + 1]
  OBVIOUS
<1> QED
  BY <1>1, <1>2 DEF GoodQueue

-----------------------------------------------------------------------------
(* Settling.                                                                *)

(* What a call that may settle one promise does to the state: it is what    *)
(* every handler of Promise does with promise, reactions, jobs and the      *)
(* tracker.                                                                 *)
LEMMA Fulfilling ==
    ASSUME PromiseInv, NEW p \in Promises, NEW value \in Values, NEW isReject \in BOOLEAN,
           NEW queue \in Seq(Jobs), GoodQueue(queue), UNCHANGED handled,
           FulfillOrReject(p, value, isReject, queue)
    PROVE  /\ promise' \in [Promises ->
                      [state  : {"none", "pending", "fulfilled", "rejected"},
                       result : Values \cup {Undefined}]]
           /\ reactions' \in [Promises -> Seq(Reactions)]
           /\ jobs' \in Seq(Jobs)
           /\ unhandled' \in SUBSET Promises
           /\ Sound' /\ TrackerExact'
           /\ \A q \in Promises : Settled(q) => promise'[q] = promise[q]
<1> USE DEF PromiseInv
<1>1. CASE ~Pending(p)
  BY <1>1 DEF FulfillOrReject, Sound, TrackerExact, PromiseTypeOK, GoodQueue, Settled, Exists
<1>2. CASE Pending(p)
  <2> DEFINE more == [i \in DOMAIN reactions[p] |-> ReactionJob(reactions[p][i], isReject, value)]
             new  == [state  |-> IF isReject THEN "rejected" ELSE "fulfilled",
                      result |-> value]
  <2>1. /\ promise' = [promise EXCEPT ![p] = new]
        /\ unhandled' = IF isReject /\ p \notin handled THEN unhandled \cup {p} ELSE unhandled
        /\ jobs' = queue \o more
        /\ reactions' = [reactions EXCEPT ![p] = <<>>]
    BY <1>2 DEF FulfillOrReject
  <2>2. more \in Seq(Jobs) /\ \A i \in DOMAIN more : more[i].type = "reaction"
    <3>1. reactions[p] \in Seq(Reactions)
      BY DEF PromiseTypeOK
    <3>2. \A i \in 1 .. Len(reactions[p]) : reactions[p][i] \in Reactions
      BY <3>1
    <3>3. \A i \in 1 .. Len(reactions[p]) :
             /\ ReactionJob(reactions[p][i], isReject, value) \in Jobs
             /\ ReactionJob(reactions[p][i], isReject, value).type = "reaction"
      BY <3>2, ReactionJobType
    <3> QED
      BY <3>1, <3>3
  <2> HIDE DEF more
  <2>3. jobs' \in Seq(Jobs)
    BY <2>1, <2>2
  <2>4. \A i \in DOMAIN jobs' : jobs'[i].type = "thenable" =>
           \E j \in DOMAIN queue : jobs'[i] = queue[j]
    BY <2>1, <2>2
  <2>5. /\ new \in [state  : {"none", "pending", "fulfilled", "rejected"},
                    result : Values \cup {Undefined}]
        /\ new.state \in {"fulfilled", "rejected"} /\ new.result = value
        /\ new.state = "rejected" <=> isReject
    OBVIOUS
  <2> HIDE DEF new
  <2>6. /\ promise' \in [Promises ->
                      [state  : {"none", "pending", "fulfilled", "rejected"},
                       result : Values \cup {Undefined}]]
        /\ reactions' \in [Promises -> Seq(Reactions)]
        /\ unhandled' \in SUBSET Promises
    BY <2>1, <2>5 DEF PromiseTypeOK
  <2>7. \A q \in Promises : promise'[q] = IF q = p THEN new ELSE promise[q]
    BY <2>1 DEF PromiseTypeOK
  <2>8. \A q \in Promises : Exists(q) => Exists(q)'
    BY <2>5, <2>7 DEF Exists
  <2>9. Sound'
    <3>1. \A q \in Promises : Settled(q)' => promise'[q].result \in Values
      BY <2>5, <2>7 DEF Sound, Settled
    <3>2. \A q \in handled' : Exists(q)'
      BY <2>8 DEF Sound, PromiseTypeOK
    <3>3. \A i \in DOMAIN jobs' : jobs'[i].type = "thenable"
             => promise'[jobs'[i].thenable].state # "none"
      <4> SUFFICES ASSUME NEW i \in DOMAIN jobs', jobs'[i].type = "thenable"
                   PROVE  promise'[jobs'[i].thenable].state # "none"
        OBVIOUS
      <4>1. PICK j \in DOMAIN queue : jobs'[i] = queue[j]
        BY <2>4
      <4>2. queue[j] \in Jobs /\ queue[j].type = "thenable"
        BY <4>1
      <4>3. queue[j].thenable \in Promises /\ Exists(queue[j].thenable)
        BY <4>2 DEF GoodQueue, Jobs
      <4> QED
        BY <4>1, <4>3, <2>8 DEF Exists
    <3> QED
      BY <3>1, <3>2, <3>3 DEF Sound, Exists
  <2>10. TrackerExact'
    BY <1>2, <2>1, <2>5, <2>7 DEF TrackerExact, Pending
  <2>11. \A q \in Promises : Settled(q) => promise'[q] = promise[q]
    BY <1>2, <2>7 DEF Settled, Pending
  <2> QED
    BY <2>3, <2>6, <2>9, <2>10, <2>11
<1> QED
  BY <1>1, <1>2

(* No step of a promise that is settled changes it.                         *)
SettlesOnce == \A p \in Promises : Settled(p) => promise'[p] = promise[p]

LEMMA Resolving ==
    ASSUME PromiseInv, NEW r \in Pairs, NEW isReject \in BOOLEAN,
           NEW resolution \in Values \cup Promises,
           isReject => resolution \in Values,
           resolution \in Promises => Exists(resolution),
           NEW queue \in Seq(Jobs), GoodQueue(queue),
           UNCHANGED <<handled, order>>, ran' \in SUBSET Promises,
           ResolveFunctionCall(r, isReject, resolution, queue)
    PROVE  PromiseInv' /\ SettlesOnce
<1> USE DEF PromiseInv
<1> DEFINE p == r[1]
<1>1. p \in Promises
  BY DEF Pairs
<1>2. CASE resolver[r] = "used"
  <2>1. /\ jobs' = queue
        /\ UNCHANGED <<promise, reactions, resolver, unhandled, adopted>>
    BY <1>2 DEF ResolveFunctionCall
  <2> QED
    BY <2>1 DEF PromiseTypeOK, Sound, TrackerExact, GoodQueue, SettlesOnce, Settled, Exists
<1>3. CASE resolver[r] # "used"
  <2>1. /\ resolver' = [resolver EXCEPT ![r] = "used"]
        /\ Resolution(p, isReject, resolution, queue)
    BY <1>3 DEF ResolveFunctionCall
  <2>2. resolver' \in [Pairs -> {"none", "live", "used"}]
    BY <2>1 DEF PromiseTypeOK
  <2> HIDE DEF p
  <2>3. CASE isReject \/ resolution \notin Promises
    <3>1. resolution \in Values /\ FulfillOrReject(p, resolution, isReject, queue) /\ UNCHANGED adopted
      BY <1>1, <2>1, <2>3 DEF Resolution
    <3> QED
      BY <1>1, <2>2, <3>1, Fulfilling DEF PromiseTypeOK, SettlesOnce
  <2>4. CASE ~isReject /\ resolution = p
    <3>1. TypeError \in Values /\ FulfillOrReject(p, TypeError, TRUE, queue) /\ UNCHANGED adopted
      BY <1>1, <2>1, <2>4, PromiseConstants DEF Resolution, Promises
    <3> QED
      BY <1>1, <2>2, <3>1, Fulfilling DEF PromiseTypeOK, SettlesOnce
  <2>5. CASE ~isReject /\ resolution \in Promises \ {p}
    <3> DEFINE job == [type |-> "thenable", promise |-> p, thenable |-> resolution]
    <3>1. /\ jobs' = Append(queue, job)
          /\ adopted' = [adopted EXCEPT ![p] = resolution]
          /\ UNCHANGED <<promise, reactions, unhandled>>
      BY <2>1, <2>5 DEF Resolution
    <3>2. job \in Jobs /\ job.thenable = resolution
      BY <1>1, <2>5 DEF Jobs
    <3> HIDE DEF job
    <3>3. jobs' \in Seq(Jobs)
      BY <3>1, <3>2
    <3>4. \A i \in DOMAIN jobs' : jobs'[i].type = "thenable"
             => promise[jobs'[i].thenable].state # "none"
      <4>1. \A i \in DOMAIN jobs' : jobs'[i] = job \/ (i \in DOMAIN queue /\ jobs'[i] = queue[i])
        BY <3>1, <3>2
      <4> QED
        BY <2>5, <3>2, <4>1 DEF GoodQueue, Exists
    <3>5. PromiseTypeOK'
      BY <1>1, <2>2, <2>5, <3>1, <3>3 DEF PromiseTypeOK
    <3> QED
      BY <3>1, <3>4, <3>5 DEF Sound, TrackerExact, SettlesOnce, Settled, Exists
  <2> QED
    BY <2>3, <2>4, <2>5
<1> QED
  BY <1>2, <1>3

-----------------------------------------------------------------------------
(* Calls of a script.                                                       *)

LEMMA Constructing ==
    ASSUME PromiseInv, NEW p \in Promises, NEW thrown \in Values \cup {Undefined},
           Fresh(p), Construct(p, thrown)
    PROVE  PromiseInv' /\ SettlesOnce
<1> USE DEF PromiseInv
<1> DEFINE new == [state  |-> IF thrown # Undefined THEN "rejected" ELSE "pending",
                   result |-> thrown]
<1>1. /\ promise' = [promise EXCEPT ![p] = new]
      /\ resolver' = [resolver EXCEPT ![<<p, 1>>] =
                        IF thrown # Undefined THEN "used" ELSE "live"]
      /\ unhandled' = IF thrown # Undefined THEN unhandled \cup {p} ELSE unhandled
      /\ UNCHANGED <<handled, reactions, jobs, order, ran, adopted>>
  BY DEF Construct
<1>2. promise[p].state = "none" /\ p \notin handled
  BY DEF Fresh, Exists, Sound
<1>3. /\ new \in [state  : {"none", "pending", "fulfilled", "rejected"},
                  result : Values \cup {Undefined}]
      /\ new.state # "none" /\ new.state # "fulfilled" /\ new.result = thrown
      /\ new.state = "rejected" <=> thrown # Undefined
  OBVIOUS
<1> HIDE DEF new
<1>4. PromiseTypeOK'
  <2>1. promise' \in [Promises -> [state  : {"none", "pending", "fulfilled", "rejected"},
                                   result : Values \cup {Undefined}]]
    BY <1>1, <1>3 DEF PromiseTypeOK
  <2>2. resolver' \in [Pairs -> {"none", "live", "used"}]
    BY <1>1 DEF PromiseTypeOK
  <2> QED
    BY <1>1, <2>1, <2>2 DEF PromiseTypeOK
<1>5. \A q \in Promises : promise'[q] = IF q = p THEN new ELSE promise[q]
  BY <1>1 DEF PromiseTypeOK
<1>6. Sound'
  <2>1. \A q \in Promises : Settled(q)' => promise'[q].result \in Values
    BY <1>3, <1>5 DEF Sound, Settled
  <2>2. \A q \in handled' : promise'[q].state # "none"
    BY <1>1, <1>3, <1>5 DEF Sound, PromiseTypeOK, Exists
  <2>3. \A i \in DOMAIN jobs' : jobs'[i].type = "thenable"
           => promise'[jobs'[i].thenable].state # "none"
    <3>1. \A i \in DOMAIN jobs : jobs[i] \in Jobs
      BY DEF PromiseTypeOK
    <3>2. \A j \in Jobs : j.type = "thenable" => j.thenable \in Promises
      BY DEF Jobs
    <3> QED
      BY <1>1, <1>3, <1>5, <3>1, <3>2 DEF Sound, Exists
  <2> QED
    BY <2>1, <2>2, <2>3 DEF Sound, Exists
<1>7. TrackerExact'
  BY <1>1, <1>2, <1>3, <1>5 DEF TrackerExact
<1>8. SettlesOnce
  BY <1>2, <1>5 DEF SettlesOnce, Settled
<1> QED
  BY <1>4, <1>6, <1>7, <1>8

LEMMA Calling ==
    ASSUME PromiseInv, NEW p \in Promises, NEW isReject \in BOOLEAN,
           NEW resolution \in Values \cup Promises,
           CanReach(isReject, resolution), Call(p, isReject, resolution)
    PROVE  PromiseInv' /\ SettlesOnce
<1>1. /\ isReject => resolution \in Values
      /\ resolution \in Promises => Exists(resolution)
  BY PromiseConstants DEF CanReach, Promises
<1>2. <<p, 1>> \in Pairs
  BY DEF Pairs
<1>3. jobs \in Seq(Jobs) /\ GoodQueue(jobs) /\ ran \in SUBSET Promises
  BY DEF PromiseInv, PromiseTypeOK, Sound, GoodQueue
<1>4. /\ ResolveFunctionCall(<<p, 1>>, isReject, resolution, jobs)
      /\ UNCHANGED <<handled, order, ran>>
  BY DEF Call
<1> QED
  BY <1>1, <1>2, <1>3, <1>4, Resolving

(* What then() does to the promise it is called on and to the queue.        *)
LEMMA Reacting ==
    ASSUME PromiseInv, NEW p \in Promises, Exists(p), NEW rd \in Reactions,
           NEW queue \in Seq(Jobs), GoodQueue(queue),
           PerformPromiseThen(p, rd, queue)
    PROVE  /\ reactions' \in [Promises -> Seq(Reactions)]
           /\ jobs' \in Seq(Jobs)
           /\ \A i \in DOMAIN jobs' : jobs'[i].type = "thenable" => Exists(jobs'[i].thenable)
           /\ unhandled' = unhandled \ {p}
           /\ handled' = handled \cup {p}
<1> USE DEF PromiseInv
<1>1. CASE Pending(p)
  <2>1. reactions' = [reactions EXCEPT ![p] = Append(@, rd)] /\ jobs' = queue
    BY <1>1 DEF PerformPromiseThen, React
  <2>2. reactions[p] \in Seq(Reactions)
    BY DEF PromiseTypeOK
  <2>3. Append(reactions[p], rd) \in Seq(Reactions)
    BY <2>2
  <2>4. reactions' \in [Promises -> Seq(Reactions)]
    BY <2>1, <2>3 DEF PromiseTypeOK
  <2> QED
    BY <2>1, <2>4 DEF PerformPromiseThen, GoodQueue
<1>2. CASE ~Pending(p)
  <2> DEFINE isReject == promise[p].state = "rejected"
             job == ReactionJob(rd, isReject, promise[p].result)
  <2>1. promise[p].result \in Values
    BY <1>2 DEF Sound, Settled, Pending, Exists, PromiseTypeOK
  <2>2. isReject \in BOOLEAN
    OBVIOUS
  <2>3. jobs' = Append(queue, job) /\ UNCHANGED reactions
    BY <1>2 DEF PerformPromiseThen, React
  <2> HIDE DEF isReject
  <2>4. job \in Jobs /\ job.type = "reaction"
    BY <2>1, <2>2, ReactionJobType
  <2> HIDE DEF job
  <2>5. jobs' \in Seq(Jobs)
    BY <2>3, <2>4
  <2>6. \A i \in DOMAIN jobs' : jobs'[i] = job \/ (i \in DOMAIN queue /\ jobs'[i] = queue[i])
    BY <2>3, <2>4
  <2> QED
    BY <2>3, <2>4, <2>5, <2>6 DEF PerformPromiseThen, PromiseTypeOK, GoodQueue
<1> QED
  BY <1>1, <1>2

LEMMA Thenning ==
    ASSUME PromiseInv, NEW p \in Promises, NEW d \in Promises,
           NEW f \in Handlers, NEW g \in Handlers, Then(p, d, f, g)
    PROVE  PromiseInv' /\ SettlesOnce
<1> USE DEF PromiseInv
<1> DEFINE rd  == [onFulfilled |-> f, onRejected |-> g, pair |-> <<d, 1>>]
           new == [state |-> "pending", result |-> Undefined]
<1>1. /\ Exists(p) /\ promise[d].state = "none"
      /\ promise' = [promise EXCEPT ![d] = new]
      /\ resolver' = [resolver EXCEPT ![<<d, 1>>] = "live"]
      /\ PerformPromiseThen(p, rd, jobs)
      /\ order' = [order EXCEPT ![p] = Append(@, d)]
      /\ UNCHANGED <<ran, adopted>>
  BY DEF Then, Fresh, Exists
<1>2. rd \in Reactions
  BY DEF Reactions, Pairs
<1>3. /\ new \in [state  : {"none", "pending", "fulfilled", "rejected"},
                  result : Values \cup {Undefined}]
      /\ new.state = "pending"
  OBVIOUS
<1> HIDE DEF rd, new
<1>4. jobs \in Seq(Jobs) /\ GoodQueue(jobs)
  BY DEF PromiseTypeOK, Sound, GoodQueue
<1>5. /\ reactions' \in [Promises -> Seq(Reactions)]
      /\ jobs' \in Seq(Jobs)
      /\ \A i \in DOMAIN jobs' : jobs'[i].type = "thenable" => Exists(jobs'[i].thenable)
      /\ unhandled' = unhandled \ {p}
      /\ handled' = handled \cup {p}
  BY <1>1, <1>2, <1>4, Reacting
<1>6. \A q \in Promises : promise'[q] = IF q = d THEN new ELSE promise[q]
  BY <1>1 DEF PromiseTypeOK
<1>7. PromiseTypeOK'
  <2>1. promise' \in [Promises -> [state  : {"none", "pending", "fulfilled", "rejected"},
                                   result : Values \cup {Undefined}]]
    BY <1>1, <1>3 DEF PromiseTypeOK
  <2>2. resolver' \in [Pairs -> {"none", "live", "used"}]
    BY <1>1 DEF PromiseTypeOK
  <2>3. order' \in [Promises -> Seq(Promises)]
    BY <1>1 DEF PromiseTypeOK
  <2> QED
    BY <1>1, <1>5, <2>1, <2>2, <2>3 DEF PromiseTypeOK
<1>8. Sound'
  <2>1. \A q \in Promises : Settled(q)' => promise'[q].result \in Values
    BY <1>3, <1>6 DEF Sound, Settled
  <2>2. \A q \in handled' : promise'[q].state # "none"
    BY <1>1, <1>3, <1>5, <1>6 DEF Sound, PromiseTypeOK, Exists
  <2>3. \A i \in DOMAIN jobs' : jobs'[i].type = "thenable"
           => promise'[jobs'[i].thenable].state # "none"
    <3>1. \A i \in DOMAIN jobs' : jobs'[i] \in Jobs
      BY <1>5
    <3>2. \A j \in Jobs : j.type = "thenable" => j.thenable \in Promises
      BY DEF Jobs
    <3> QED
      BY <1>3, <1>5, <1>6, <3>1, <3>2 DEF Exists
  <2> QED
    BY <2>1, <2>2, <2>3 DEF Sound, Exists
<1>9. TrackerExact'
  BY <1>1, <1>3, <1>5, <1>6 DEF TrackerExact, Exists
<1>10. SettlesOnce
  BY <1>1, <1>6 DEF SettlesOnce, Settled
<1> QED
  BY <1>7, <1>8, <1>9, <1>10

-----------------------------------------------------------------------------
(* Jobs.                                                                    *)

LEMMA RunningReaction ==
    ASSUME PromiseInv, jobs # <<>>, NEW isReject \in BOOLEAN,
           NEW resolution \in Values \cup Promises,
           CanReach(isReject, resolution), PromiseReactionJob(isReject, resolution)
    PROVE  PromiseInv' /\ SettlesOnce
<1> DEFINE job == Head(jobs)
<1>1. /\ isReject => resolution \in Values
      /\ resolution \in Promises => Exists(resolution)
  BY PromiseConstants DEF CanReach, Promises
<1>2. jobs \in Seq(Jobs) /\ GoodQueue(jobs) /\ ran \in SUBSET Promises
  BY DEF PromiseInv, PromiseTypeOK, Sound, GoodQueue
<1>3. GoodQueue(Tail(jobs)) /\ Tail(jobs) \in Seq(Jobs) /\ job \in Jobs
  BY <1>2, TailGood DEF GoodQueue
<1>4. /\ job.type = "reaction" /\ job.handler \notin Pairs
      /\ ResolveFunctionCall(job.pair, isReject, resolution, Tail(jobs))
      /\ ran' = ran \cup {job.pair[1]}
      /\ UNCHANGED <<handled, order>>
  BY DEF PromiseReactionJob
<1> HIDE DEF job
<1>5. job.pair \in Pairs
  BY <1>3, <1>4 DEF Jobs
<1>6. ran' \in SUBSET Promises
  BY <1>2, <1>4, <1>5 DEF Pairs
<1> QED
  BY <1>1, <1>3, <1>4, <1>5, <1>6, Resolving

LEMMA RunningAdoption ==
    ASSUME PromiseInv, jobs # <<>>, AdoptionJob
    PROVE  PromiseInv' /\ SettlesOnce
<1> DEFINE job == Head(jobs)
<1>1. jobs \in Seq(Jobs) /\ GoodQueue(jobs) /\ ran \in SUBSET Promises
  BY DEF PromiseInv, PromiseTypeOK, Sound, GoodQueue
<1>2. GoodQueue(Tail(jobs)) /\ Tail(jobs) \in Seq(Jobs) /\ job \in Jobs
  BY <1>1, TailGood DEF GoodQueue
<1>3. /\ job.type = "reaction" /\ job.handler \in Pairs
      /\ ResolveFunctionCall(job.handler, job.isReject, job.arg, Tail(jobs))
      /\ UNCHANGED <<handled, order, ran>>
  BY DEF AdoptionJob
<1> HIDE DEF job
<1>4. job.arg \in Values /\ job.isReject \in BOOLEAN
  BY <1>2, <1>3 DEF Jobs
<1>5. job.arg \notin Promises
  BY <1>4, PromiseConstants DEF Promises
<1> QED
  BY <1>1, <1>2, <1>3, <1>4, <1>5, Resolving

LEMMA RunningThenable ==
    ASSUME PromiseInv, jobs # <<>>, PromiseResolveThenableJob
    PROVE  PromiseInv' /\ SettlesOnce
<1> USE DEF PromiseInv
<1> DEFINE job  == Head(jobs)
           pair == <<job.promise, 2>>
           rd   == [onFulfilled |-> pair, onRejected |-> pair, pair |-> NoHandler]
<1>1. jobs \in Seq(Jobs) /\ GoodQueue(jobs)
  BY DEF PromiseTypeOK, Sound, GoodQueue
<1>2. /\ GoodQueue(Tail(jobs)) /\ Tail(jobs) \in Seq(Jobs) /\ job \in Jobs
      /\ job.type = "thenable" => Exists(job.thenable)
  BY <1>1, TailGood DEF GoodQueue
<1>3. /\ job.type = "thenable"
      /\ resolver' = [resolver EXCEPT ![pair] = "live"]
      /\ PerformPromiseThen(job.thenable, rd, Tail(jobs))
      /\ UNCHANGED <<promise, order, ran, adopted>>
  BY DEF PromiseResolveThenableJob
<1> HIDE DEF job
<1>4. job.promise \in Promises /\ job.thenable \in Promises
  BY <1>2, <1>3 DEF Jobs
<1>5. rd \in Reactions
  BY <1>4 DEF Reactions, Pairs
<1> HIDE DEF rd
<1>6. /\ reactions' \in [Promises -> Seq(Reactions)]
      /\ jobs' \in Seq(Jobs)
      /\ \A i \in DOMAIN jobs' : jobs'[i].type = "thenable" => Exists(jobs'[i].thenable)
      /\ unhandled' = unhandled \ {job.thenable}
      /\ handled' = handled \cup {job.thenable}
  BY <1>2, <1>3, <1>4, <1>5, Reacting
<1>7. PromiseTypeOK'
  <2>1. resolver' \in [Pairs -> {"none", "live", "used"}]
    BY <1>3 DEF PromiseTypeOK
  <2> QED
    BY <1>3, <1>4, <1>6, <2>1 DEF PromiseTypeOK
<1>8. Sound'
  BY <1>2, <1>3, <1>6 DEF Sound, Exists, Settled
<1>9. TrackerExact'
  BY <1>3, <1>6 DEF TrackerExact
<1>10. SettlesOnce
  BY <1>3 DEF SettlesOnce
<1> QED
  BY <1>7, <1>8, <1>9, <1>10

-----------------------------------------------------------------------------
(* The whole system.                                                        *)

LEMMA InitFetch == Init => FetchInv
<1> SUFFICES ASSUME Init PROVE FetchInv
  OBVIOUS
<1>1. PromiseTypeOK
  <2>1. \A p \in Promises : promise[p] = [state |-> "none", result |-> Undefined]
    BY DEF Init, PromiseInit
  <2> QED
    BY DEF Init, PromiseInit, PromiseTypeOK
<1>2. TypeOK
  <2>1. [phase |-> "none", promise |-> 0, status |-> Undefined]
          \in [phase : Phases, promise : Promises \cup {0}, status : {Answer, NoStatus, Undefined}]
    BY DEF Phases
  <2>2. request \in [Requests -> [phase : Phases, promise : Promises \cup {0},
                                  status : {Answer, NoStatus, Undefined}]]
    BY <2>1 DEF Init
  <2>3. mainQueue \in Seq(Requests)
    BY DEF Init
  <2>4. held \in [Requests -> {0, 3}]
    BY DEF Init
  <2>5. aborted \in BOOLEAN
    BY DEF Init
  <2> QED
    BY <1>1, <2>2, <2>3, <2>4, <2>5 DEF TypeOK
<1>3. Sound /\ TrackerExact
  BY DEF Init, PromiseInit, Sound, TrackerExact, Settled, Exists
<1>4. UnderWay
  BY DEF Init, UnderWay
<1> QED
  BY <1>2, <1>3, <1>4 DEF FetchInv

(* What Promise's own steps leave alone.                                    *)
LEMMA PromiseStep ==
    ASSUME FetchInv, PromiseInv', UNCHANGED fvars
    PROVE  FetchInv'
  BY DEF FetchInv, PromiseInv, TypeOK, UnderWay, fvars

LEMMA ScriptKeeps ==
    ASSUME FetchInv, ScriptTurn
    PROVE  FetchInv' /\ SettlesOnce
<1>1. PromiseInv /\ UNCHANGED fvars /\ Script
  BY DEF FetchInv, PromiseInv, TypeOK, ScriptTurn
<1>2. CASE \E p \in Promises, thrown \in Errors \cup {Undefined} :
             Fresh(p) /\ Construct(p, thrown)
  <2>1. PICK p \in Promises, thrown \in Errors \cup {Undefined} :
          Fresh(p) /\ Construct(p, thrown)
    BY <1>2
  <2>2. thrown \in Values \cup {Undefined}
    BY PromiseConstants
  <2> QED
    BY <1>1, <2>1, <2>2, Constructing, PromiseStep
<1>3. CASE \E p \in Promises, isReject \in BOOLEAN, resolution \in Values \cup Promises :
             CanReach(isReject, resolution) /\ Call(p, isReject, resolution)
  BY <1>1, <1>3, Calling, PromiseStep
<1>4. CASE \E p, d \in Promises, f, g \in Handlers : Then(p, d, f, g)
  BY <1>1, <1>4, Thenning, PromiseStep
<1> QED
  BY <1>1, <1>2, <1>3, <1>4 DEF Script

LEMMA JobsKeep ==
    ASSUME FetchInv, MainLoopJobs
    PROVE  FetchInv' /\ SettlesOnce
<1>1. PromiseInv /\ UNCHANGED fvars /\ jobs # <<>> /\ ExecutePendingJob
  BY DEF FetchInv, PromiseInv, TypeOK, MainLoopJobs, ExecutePendingJob
<1>2. CASE \E isReject \in BOOLEAN, resolution \in Values \cup Promises :
             CanReach(isReject, resolution) /\ PromiseReactionJob(isReject, resolution)
  BY <1>1, <1>2, RunningReaction, PromiseStep
<1>3. CASE AdoptionJob
  BY <1>1, <1>3, RunningAdoption, PromiseStep
<1>4. CASE PromiseResolveThenableJob
  BY <1>1, <1>4, RunningThenable, PromiseStep
<1> QED
  BY <1>1, <1>2, <1>3, <1>4 DEF ExecutePendingJob

LEMMA FetchKeeps ==
    ASSUME FetchInv, FetchTurn
    PROVE  FetchInv' /\ SettlesOnce
<1>1. PICK p \in Promises : Fresh(p) /\ Construct(p, TypeError) /\ UNCHANGED fvars
  BY DEF FetchTurn, FetchCall
<1>2. PromiseInv /\ TypeError \in Values \cup {Undefined}
  BY PromiseConstants DEF FetchInv, PromiseInv, TypeOK
<1> QED
  BY <1>1, <1>2, Constructing, PromiseStep

LEMMA HttpReqKeeps ==
    ASSUME FetchInv, HttpReqTurn
    PROVE  FetchInv' /\ SettlesOnce
<1>1. PICK r \in Requests, p \in Promises, u, o, b \in BOOLEAN : HttpReq(r, p, u, o, b)
  BY DEF HttpReqTurn
<1>2. /\ PromiseInv /\ TypeOK /\ UnderWay
      /\ TypeError \in Values \cup {Undefined} /\ Undefined \in Values \cup {Undefined}
  BY PromiseConstants DEF FetchInv, PromiseInv, TypeOK
<1>3. /\ Fresh(p) /\ request[r].phase = "none"
      /\ held' = [held EXCEPT ![r] = 3] /\ UNCHANGED mainQueue
  BY <1>1 DEF HttpReq
<1>4. ASSUME NEW ph \in {"refused", "flight"}, UNCHANGED aborted, PromiseInv', SettlesOnce,
             request' = [request EXCEPT ![r].phase = ph, ![r].promise = p]
      PROVE  FetchInv' /\ SettlesOnce
  <2>1. ph \in Phases
    BY DEF Phases
  <2>2. request' \in [Requests -> [phase : Phases, promise : Promises \cup {0},
                                   status : {Answer, NoStatus, Undefined}]]
    BY <1>2, <1>4, <2>1 DEF TypeOK
  <2>3. TypeOK'
    BY <1>2, <1>3, <1>4, <2>2 DEF TypeOK, PromiseInv
  <2>4. UnderWay'
    <3>1. /\ \A q \in Requests : q # r => request'[q] = request[q]
          /\ request'[r].promise = p /\ request'[r].status = request[r].status
      BY <1>2, <1>4 DEF TypeOK
    <3>2. \A i \in DOMAIN mainQueue : mainQueue[i] \in Requests
      BY <1>2 DEF TypeOK
    <3> QED
      BY <1>2, <1>3, <3>1, <3>2 DEF UnderWay
  <2> QED
    BY <1>4, <2>3, <2>4 DEF FetchInv, PromiseInv
<1>5. CASE /\ Construct(p, TypeError) /\ UNCHANGED aborted
           /\ request' = [request EXCEPT ![r].phase = "refused", ![r].promise = p]
  BY <1>2, <1>3, <1>4, <1>5, Constructing
<1>6. CASE /\ Construct(p, Undefined) /\ UNCHANGED aborted
           /\ request' = [request EXCEPT ![r].phase = "flight", ![r].promise = p]
  BY <1>2, <1>3, <1>4, <1>6, Constructing
<1>7. CASE aborted' = TRUE /\ UNCHANGED <<pvars, request>>
  <2>1. UNCHANGED pvars
    BY <1>7
  <2>2. PromiseInv' /\ SettlesOnce
    BY <1>2, <2>1 DEF PromiseInv, PromiseTypeOK, Sound, TrackerExact, SettlesOnce, pvars,
                      Settled, Exists
  <2> QED
    BY <1>2, <1>3, <1>7, <2>2 DEF FetchInv, PromiseInv, TypeOK, UnderWay
<1> QED
  BY <1>1, <1>5, <1>6, <1>7 DEF HttpReq

LEMMA NetworkKeeps ==
    ASSUME FetchInv, NEW r \in Requests, Network(r)
    PROVE  FetchInv' /\ SettlesOnce
<1>1. PICK s \in {Answer, NoStatus} : Completion(r, s)
  BY DEF Network
<1>2. /\ request[r].phase = "flight"
      /\ request' = [request EXCEPT ![r].phase = "answered", ![r].status = s]
      /\ mainQueue' = Append(mainQueue, r)
      /\ UNCHANGED <<held, aborted>> /\ UNCHANGED pvars
  BY <1>1 DEF Completion
<1>3. TypeOK /\ UnderWay /\ PromiseInv /\ s \in Values
  BY FetchConstants DEF FetchInv, PromiseInv, TypeOK
<1>4. PromiseInv' /\ SettlesOnce
  BY <1>2, <1>3 DEF PromiseInv, PromiseTypeOK, Sound, TrackerExact, SettlesOnce, pvars,
                    Settled, Exists
<1>5. "answered" \in Phases
  BY DEF Phases
<1>6. /\ \A q \in Requests : q # r => request'[q] = request[q]
      /\ request'[r].promise = request[r].promise /\ request'[r].status = s
  BY <1>2, <1>3 DEF TypeOK
<1>7. TypeOK'
  <2>1. request' \in [Requests -> [phase : Phases, promise : Promises \cup {0},
                                   status : {Answer, NoStatus, Undefined}]]
    BY <1>2, <1>3, <1>5 DEF TypeOK
  <2>2. mainQueue' \in Seq(Requests)
    BY <1>2, <1>3 DEF TypeOK
  <2> QED
    BY <1>2, <1>3, <1>4, <2>1, <2>2 DEF TypeOK, PromiseInv
<1>8. UnderWay'
  <2>1. mainQueue \in Seq(Requests) /\ request[r].promise \in Promises
    BY <1>2, <1>3 DEF TypeOK, UnderWay
  <2>2. \A i \in DOMAIN mainQueue' : mainQueue'[i] = r
           \/ (i \in DOMAIN mainQueue /\ mainQueue'[i] = mainQueue[i] /\ mainQueue[i] \in Requests)
    BY <1>2, <2>1
  <2> QED
    BY <1>3, <1>6, <2>1, <2>2 DEF UnderWay
<1> QED
  BY <1>4, <1>7, <1>8 DEF FetchInv, PromiseInv

LEMMA BlockKeeps ==
    ASSUME FetchInv, MainQueue
    PROVE  FetchInv' /\ SettlesOnce
<1> DEFINE r == Head(mainQueue)
<1>1. /\ mainQueue # <<>>
      /\ ResolveFunctionCall(<<request[r].promise, 1>>, FALSE, request[r].status, jobs)
      /\ held' = [held EXCEPT ![r] = 0]
      /\ request' = [request EXCEPT ![r].phase = "done"]
      /\ mainQueue' = Tail(mainQueue)
      /\ UNCHANGED <<handled, order, ran, aborted>>
  BY DEF MainQueue, CompletionBlock, AnswerRequest, Free
<1>2. TypeOK /\ UnderWay /\ PromiseInv /\ mainQueue \in Seq(Requests)
  BY DEF FetchInv, PromiseInv, TypeOK
<1>3. r \in Requests /\ r = mainQueue[1] /\ 1 \in DOMAIN mainQueue
  BY <1>1, <1>2
<1> HIDE DEF r
<1>4. request[r].promise \in Promises /\ request[r].status \in Values
  BY <1>2, <1>3 DEF UnderWay
<1>5. request[r].status \notin Promises /\ <<request[r].promise, 1>> \in Pairs
  BY <1>4, PromiseConstants DEF Promises, Pairs
<1>6. jobs \in Seq(Jobs) /\ GoodQueue(jobs) /\ ran \in SUBSET Promises
  BY <1>2 DEF PromiseInv, PromiseTypeOK, Sound, GoodQueue
<1>7. PromiseInv' /\ SettlesOnce
  BY <1>1, <1>2, <1>4, <1>5, <1>6, Resolving
<1>8. "done" \in Phases
  BY DEF Phases
<1>9. TypeOK'
  <2>1. request' \in [Requests -> [phase : Phases, promise : Promises \cup {0},
                                   status : {Answer, NoStatus, Undefined}]]
    BY <1>1, <1>2, <1>3, <1>8 DEF TypeOK
  <2>2. mainQueue' \in Seq(Requests)
    BY <1>1, <1>2
  <2> QED
    BY <1>1, <1>2, <1>7, <2>1, <2>2 DEF TypeOK, PromiseInv
<1>10. UnderWay'
  <2>1. \A q \in Requests : /\ request'[q].promise = request[q].promise
                            /\ request'[q].status = request[q].status
                            /\ request'[q].phase \in {request[q].phase, "done"}
    BY <1>1, <1>2, <1>3 DEF TypeOK
  <2>2. \A i \in DOMAIN mainQueue' : /\ i + 1 \in DOMAIN mainQueue
                                     /\ mainQueue'[i] = mainQueue[i + 1]
                                     /\ mainQueue[i + 1] \in Requests
    BY <1>1, <1>2
  <2> QED
    BY <1>2, <2>1, <2>2 DEF UnderWay
<1> QED
  BY <1>7, <1>9, <1>10 DEF FetchInv, PromiseInv

LEMMA NextFetch ==
    ASSUME FetchInv, [Next]_vars
    PROVE  FetchInv' /\ SettlesOnce
<1>1. CASE UNCHANGED vars
  BY <1>1 DEF vars, pvars, fvars, FetchInv, TypeOK, PromiseTypeOK, Sound, UnderWay,
              TrackerExact, SettlesOnce, Settled, Exists
<1> QED
  BY <1>1, ScriptKeeps, FetchKeeps, HttpReqKeeps, NetworkKeeps, BlockKeeps, JobsKeep DEF Next

(* Every variable keeps its type in every behaviour of scripts, network and *)
(* main loop: in particular a reaction job always has the pair it settles,  *)
(* and a block on the main queue belongs to a request that was made.        *)
THEOREM TypeCorrect == Spec => []TypeOK
<1>1. FetchInv => TypeOK
  BY DEF FetchInv
<1> QED
  BY InitFetch, NextFetch, <1>1, PTL DEF Spec

(* The host's tracker of unhandled rejections is exact after every call,    *)
(* whether the rejection or the then() comes first.                         *)
THEOREM TrackerAgrees == Spec => []TrackerExact
<1>1. FetchInv => TrackerExact
  BY DEF FetchInv
<1> QED
  BY InitFetch, NextFetch, <1>1, PTL DEF Spec

(* fulfill_or_reject_promise never changes a promise that is settled, nor   *)
(* does anything else.                                                      *)
THEOREM SettledStays == Spec => SettledForever
<1>1. FetchInv /\ [Next]_vars =>
        [\A p \in Promises : Settled(p) => promise'[p] = promise[p]]_pvars
  BY NextFetch DEF SettlesOnce
<1> QED
  BY InitFetch, NextFetch, <1>1, PTL DEF Spec, SettledForever

-----------------------------------------------------------------------------
(* What native code holds of a request.                                     *)

(* Steps of the promises alone, and of a call that makes the next request.  *)
LEMMA HeldElsewhere ==
    ASSUME HeldUntilBlock, UNCHANGED fvars
    PROVE  HeldUntilBlock'
  BY DEF HeldUntilBlock, fvars

LEMMA HttpReqHolds ==
    ASSUME TypeOK, HeldUntilBlock, HttpReqTurn
    PROVE  HeldUntilBlock'
<1>1. PICK r \in Requests, p \in Promises, u, o, b \in BOOLEAN : HttpReq(r, p, u, o, b)
  BY DEF HttpReqTurn
<1>2. /\ request[r].phase = "none" /\ ~aborted
      /\ held' = [held EXCEPT ![r] = 3] /\ UNCHANGED mainQueue
  BY <1>1 DEF HttpReq, HttpReqTurn
<1>3. CASE aborted' = TRUE /\ UNCHANGED request
  BY <1>2, <1>3 DEF HeldUntilBlock
<1>4. ASSUME NEW ph \in {"refused", "flight"}, UNCHANGED aborted,
             request' = [request EXCEPT ![r].phase = ph, ![r].promise = p]
      PROVE  HeldUntilBlock'
  <2>1. /\ request'[r].phase = ph /\ held'[r] = 3
        /\ \A q \in Requests : q # r => request'[q] = request[q] /\ held'[q] = held[q]
    BY <1>2, <1>4 DEF TypeOK
  <2>2. \A q \in Requests :
          held'[q] = 3 <=> request'[q].phase \in {"refused", "flight", "answered"}
    BY <1>2, <2>1 DEF HeldUntilBlock
  <2>3. \A q \in Requests : request'[q].phase = "answered" <=> request[q].phase = "answered"
    BY <1>2, <2>1
  <2> QED
    BY <1>2, <2>2, <2>3 DEF HeldUntilBlock
<1> QED
  BY <1>1, <1>3, <1>4 DEF HttpReq

LEMMA CompletionHolds ==
    ASSUME TypeOK, HeldUntilBlock, NEW r \in Requests, Network(r)
    PROVE  HeldUntilBlock'
<1>1. PICK s \in {Answer, NoStatus} : Completion(r, s)
  BY DEF Network
<1>2. /\ request[r].phase = "flight"
      /\ mainQueue' = Append(mainQueue, r) /\ UNCHANGED <<held, aborted>>
      /\ request' = [request EXCEPT ![r].phase = "answered", ![r].status = s]
  BY <1>1 DEF Completion
<1>3. /\ request'[r].phase = "answered"
      /\ \A q \in Requests : q # r => request'[q] = request[q]
  BY <1>2 DEF TypeOK
<1>4. \A i \in DOMAIN mainQueue : mainQueue[i] # r
  BY <1>2 DEF HeldUntilBlock
<1>5. /\ mainQueue \in Seq(Requests) /\ DOMAIN mainQueue' = 1 .. Len(mainQueue) + 1
      /\ DOMAIN mainQueue = 1 .. Len(mainQueue) /\ Len(mainQueue) \in Nat
      /\ \A i \in DOMAIN mainQueue : mainQueue'[i] = mainQueue[i]
      /\ mainQueue'[Len(mainQueue) + 1] = r
  BY <1>2 DEF TypeOK
<1>6. \A i, j \in DOMAIN mainQueue' : mainQueue'[i] = mainQueue'[j] => i = j
  BY <1>4, <1>5 DEF HeldUntilBlock
<1>7. \A q \in Requests :
        request'[q].phase = "answered" <=> \E i \in DOMAIN mainQueue' : mainQueue'[i] = q
  <2>1. \E i \in DOMAIN mainQueue' : mainQueue'[i] = r
    BY <1>5
  <2>2. ASSUME NEW q \in Requests, q # r
        PROVE  (\E i \in DOMAIN mainQueue' : mainQueue'[i] = q)
                 <=> \E i \in DOMAIN mainQueue : mainQueue[i] = q
    BY <1>5, <2>2
  <2> QED
    BY <1>3, <2>1, <2>2 DEF HeldUntilBlock
<1> QED
  BY <1>2, <1>3, <1>6, <1>7 DEF HeldUntilBlock

LEMMA BlockGivesBack ==
    ASSUME TypeOK, HeldUntilBlock, MainQueue
    PROVE  HeldUntilBlock'
<1> DEFINE r == Head(mainQueue)
<1>1. /\ mainQueue # <<>>
      /\ held' = [held EXCEPT ![r] = 0]
      /\ request' = [request EXCEPT ![r].phase = "done"]
      /\ mainQueue' = Tail(mainQueue) /\ UNCHANGED aborted
  BY DEF MainQueue, CompletionBlock, Free
<1>2. mainQueue \in Seq(Requests) /\ r \in Requests /\ r = mainQueue[1] /\ 1 \in DOMAIN mainQueue
  BY <1>1 DEF TypeOK
<1> HIDE DEF r
<1>3. /\ request'[r].phase = "done" /\ held'[r] = 0
      /\ \A q \in Requests : q # r => request'[q] = request[q] /\ held'[q] = held[q]
  BY <1>1, <1>2 DEF TypeOK
<1>4. /\ DOMAIN mainQueue = 1 .. Len(mainQueue) /\ Len(mainQueue) \in Nat
      /\ DOMAIN mainQueue' = 1 .. Len(mainQueue) - 1
      /\ \A i \in DOMAIN mainQueue' : mainQueue'[i] = mainQueue[i + 1]
  BY <1>1, <1>2
<1>5. \A i, j \in DOMAIN mainQueue' : mainQueue'[i] = mainQueue'[j] => i = j
  BY <1>4 DEF HeldUntilBlock
<1>6. \A i \in DOMAIN mainQueue' : mainQueue'[i] # r
  BY <1>2, <1>4 DEF HeldUntilBlock
<1>7. ASSUME NEW q \in Requests, q # r
      PROVE  (\E i \in DOMAIN mainQueue' : mainQueue'[i] = q)
               <=> \E i \in DOMAIN mainQueue : mainQueue[i] = q
  <2>1. ASSUME NEW i \in DOMAIN mainQueue, mainQueue[i] = q
        PROVE  i - 1 \in DOMAIN mainQueue' /\ mainQueue'[i - 1] = q
    <3>1. i # 1
      BY <1>2, <1>7, <2>1
    <3> QED
      BY <1>4, <2>1, <3>1
  <2> QED
    BY <1>4, <2>1
<1> QED
  BY <1>1, <1>3, <1>5, <1>6, <1>7 DEF HeldUntilBlock

(* The three duplicated values of a request are held from the call to the   *)
(* dispatched block, the block of a request waits at most once, and it      *)
(* waits exactly while the request is answered and not done: no block runs  *)
(* with values that were given back.                                        *)
THEOREM HeldForTheBlock == Spec => []HeldUntilBlock
<1>1. Init => HeldUntilBlock
  BY DEF Init, HeldUntilBlock
<1>2. TypeOK /\ HeldUntilBlock /\ [Next]_vars => HeldUntilBlock'
  <2> SUFFICES ASSUME TypeOK, HeldUntilBlock, [Next]_vars
               PROVE  HeldUntilBlock'
    OBVIOUS
  <2>1. CASE ScriptTurn \/ FetchTurn \/ MainLoopJobs \/ UNCHANGED vars
    <3>1. UNCHANGED fvars
      BY <2>1 DEF ScriptTurn, FetchTurn, FetchCall, MainLoopJobs, vars
    <3> QED
      BY <3>1, HeldElsewhere
  <2> QED
    BY <2>1, HttpReqHolds, CompletionHolds, BlockGivesBack DEF Next
<1> QED
  BY TypeCorrect, <1>1, <1>2, PTL DEF Spec
=============================================================================
