------------------------------ MODULE Promise ------------------------------
(***************************************************************************)
(* Promises and the job queue of the script engine libacorn runs its        *)
(* scripts on (src/js/quickjs.c).                                          *)
(*                                                                         *)
(* A promise is settled through a pair of resolving functions that share    *)
(* one already_resolved flag.  Its constructor makes the first pair; when   *)
(* it is resolved with another promise, a queued job makes a second pair    *)
(* and has the other promise call it.  Reactions registered with then()     *)
(* become jobs when the promise is settled, and the host runs the jobs one  *)
(* by one: JS_EnqueueJob calls hook_JS_EnqueueJob, which is external, to    *)
(* have JS_ExecutePendingJob called from the main loop.                     *)
(*                                                                         *)
(* Everything here runs on the main thread and a handler runs to            *)
(* completion, so a call is one step.  Calls a handler makes are the steps  *)
(* before its own: its job is off the queue before it starts, and nothing   *)
(* else depends on the order.  The two reaction lists of a promise always   *)
(* grow together, so they are one sequence of reactions.                    *)
(***************************************************************************)
EXTENDS Naturals, Sequences

CONSTANTS
    MaxPromises,   \* bound on the promises a script makes
    Values,        \* results that are not promises
    Errors,        \* those a script throws or rejects a promise with
    TypeError,     \* the value thrown for a promise resolved with itself
    Undefined,     \* the result of a promise that is not settled
    ScriptFunction, \* a handler that is a function of the script
    NoHandler      \* then() was given no function for this outcome

ASSUME PromiseConstants ==
    /\ MaxPromises \in Nat
    /\ TypeError \in Errors
    /\ Errors \subseteq Values
    /\ Undefined \notin Values
    /\ Values \cap (1 .. MaxPromises) = {}
    /\ ScriptFunction # NoHandler
    /\ {ScriptFunction, NoHandler} \cap ((1 .. MaxPromises) \X {1, 2}) = {}

VARIABLES
    promise,    \* JSPromiseData: state and result of each promise
    handled,    \* is_handled: promises then() was called on
    reactions,  \* promise_reactions of a pending promise
    resolver,   \* the pairs of resolving functions and already_resolved
    jobs,       \* rt->job_list
    unhandled,  \* promises the host was told are rejected and not handled
    order,      \* the promises then() made of each promise, in order
    ran,        \* history: the promises then() made whose reaction has run
    adopted     \* history: the promise each promise was resolved with, or 0

pvars == <<promise, handled, reactions, resolver, jobs, unhandled, order, ran,
           adopted>>

Promises == 1 .. MaxPromises

(* <<p, 1>> is the pair of p's constructor, <<p, 2>> the pair the thenable  *)
(* job of p makes.                                                         *)
Pairs == Promises \X {1, 2}

(* A handler is a script function or undefined, and pair is settled with    *)
(* what it returns; or it is the resolving function of a pair whose promise *)
(* adopts the outcome, which settles nothing else.                          *)
Handlers == {ScriptFunction, NoHandler}

Reactions ==
    [onFulfilled : Handlers, onRejected : Handlers, pair : Pairs]
    \cup
    [onFulfilled : Pairs, onRejected : Pairs, pair : {NoHandler}]

Jobs ==
    [type : {"reaction"}, handler : Handlers, isReject : BOOLEAN,
     arg : Values, pair : Pairs]
    \cup
    [type : {"reaction"}, handler : Pairs, isReject : BOOLEAN,
     arg : Values, pair : {NoHandler}]
    \cup
    [type : {"thenable"}, promise : Promises, thenable : Promises]

PromiseTypeOK ==
    /\ promise \in [Promises ->
                      [state  : {"none", "pending", "fulfilled", "rejected"},
                       result : Values \cup {Undefined}]]
    /\ handled \in SUBSET Promises
    /\ reactions \in [Promises -> Seq(Reactions)]
    /\ resolver \in [Pairs -> {"none", "live", "used"}]
    /\ jobs \in Seq(Jobs)
    /\ unhandled \in SUBSET Promises
    /\ order \in [Promises -> Seq(Promises)]
    /\ ran \in SUBSET Promises
    /\ adopted \in [Promises -> Promises \cup {0}]

PromiseInit ==
    /\ promise = [p \in Promises |-> [state |-> "none", result |-> Undefined]]
    /\ handled = {}
    /\ reactions = [p \in Promises |-> <<>>]
    /\ resolver = [r \in Pairs |-> "none"]
    /\ jobs = <<>>
    /\ unhandled = {}
    /\ order = [p \in Promises |-> <<>>]
    /\ ran = {}
    /\ adopted = [p \in Promises |-> 0]

Pending(p) == promise[p].state = "pending"
Settled(p) == promise[p].state \in {"fulfilled", "rejected"}
Exists(p)  == promise[p].state # "none"

(* Promises are named in the order in which they are made.                 *)
Fresh(p) ==
    /\ ~Exists(p)
    /\ \A q \in Promises : q < p => Exists(q)

(***************************************************************************)
(* Settling a promise                                                      *)
(***************************************************************************)
ReactionJob(rd, isReject, value) ==
    [type |-> "reaction", isReject |-> isReject, arg |-> value,
     handler |-> IF isReject THEN rd.onRejected ELSE rd.onFulfilled,
     pair |-> rd.pair]

(* Mutant: a rejection frees the reactions without queueing them.           *)
SettleSilently(p, value, isReject, queue) ==
    IF ~Pending(p)
    THEN jobs' = queue /\ UNCHANGED <<promise, reactions, unhandled>>
    ELSE /\ promise' = [promise EXCEPT ![p] =
              [state  |-> IF isReject THEN "rejected" ELSE "fulfilled",
               result |-> value]]
         /\ unhandled' = IF isReject /\ p \notin handled
                         THEN unhandled \cup {p} ELSE unhandled
         /\ jobs' = IF isReject THEN queue ELSE queue \o
              [i \in DOMAIN reactions[p] |->
                 ReactionJob(reactions[p][i], isReject, value)]
         /\ reactions' = [reactions EXCEPT ![p] = <<>>]

(* Settles p and queues its reactions behind queue; a promise that is       *)
(* already settled is left as it is.                                       *)
FulfillOrReject(p, value, isReject, queue) ==
    IF ~Pending(p)
    THEN jobs' = queue /\ UNCHANGED <<promise, reactions, unhandled>>
    ELSE /\ promise' = [promise EXCEPT ![p] =
              [state  |-> IF isReject THEN "rejected" ELSE "fulfilled",
               result |-> value]]
         /\ unhandled' = IF isReject /\ p \notin handled
                         THEN unhandled \cup {p} ELSE unhandled
         /\ jobs' = queue \o
              [i \in DOMAIN reactions[p] |->
                 ReactionJob(reactions[p][i], isReject, value)]
         /\ reactions' = [reactions EXCEPT ![p] = <<>>]

(* What a resolving function of p does the first time.  A promise given to  *)
(* resolve is adopted by a job of its own.                                  *)
Resolution(p, isReject, resolution, queue) ==
    \/ /\ isReject \/ resolution \notin Promises
       /\ FulfillOrReject(p, resolution, isReject, queue)
       /\ UNCHANGED adopted
    \/ /\ ~isReject
       /\ resolution = p
       /\ FulfillOrReject(p, TypeError, TRUE, queue)
       /\ UNCHANGED adopted
    \/ /\ ~isReject
       /\ resolution \in Promises \ {p}
       /\ jobs' = Append(queue, [type |-> "thenable", promise |-> p,
                                 thenable |-> resolution])
       /\ adopted' = [adopted EXCEPT ![p] = resolution]
       /\ UNCHANGED <<promise, reactions, unhandled>>

(* Mutants: the flag is not set; the state is looked at instead of it.      *)
ResolveUnmarked(r, isReject, resolution, queue) ==
    IF resolver[r] = "used"
    THEN /\ jobs' = queue
         /\ UNCHANGED <<promise, reactions, resolver, unhandled, adopted>>
    ELSE Resolution(r[1], isReject, resolution, queue) /\ UNCHANGED resolver

ResolveUntilSettled(r, isReject, resolution, queue) ==
    IF Settled(r[1])
    THEN /\ jobs' = queue
         /\ UNCHANGED <<promise, reactions, resolver, unhandled, adopted>>
    ELSE /\ resolver' = [resolver EXCEPT ![r] = "used"]
         /\ Resolution(r[1], isReject, resolution, queue)

(* A resolving function of pair r is called: the first call decides.        *)
ResolveFunctionCall(r, isReject, resolution, queue) ==
    IF resolver[r] = "used"
    THEN /\ jobs' = queue
         /\ UNCHANGED <<promise, reactions, resolver, unhandled, adopted>>
    ELSE /\ resolver' = [resolver EXCEPT ![r] = "used"]
         /\ Resolution(r[1], isReject, resolution, queue)

(***************************************************************************)
(* Calls of a script                                                       *)
(***************************************************************************)
(* new Promise(executor).  The script keeps the resolving functions; an     *)
(* executor that throws rejects the promise, which has no reactions yet.    *)
Construct(p, thrown) ==
    LET throws == thrown # Undefined IN
    /\ promise' = [promise EXCEPT ![p] =
         [state  |-> IF throws THEN "rejected" ELSE "pending",
          result |-> thrown]]
    /\ resolver' = [resolver EXCEPT ![<<p, 1>>] =
                      IF throws THEN "used" ELSE "live"]
    /\ unhandled' = IF throws THEN unhandled \cup {p} ELSE unhandled
    /\ UNCHANGED <<handled, reactions, jobs, order, ran, adopted>>

(* The promises whose resolving functions only the engine holds: then()    *)
(* made them.                                                              *)
Derived == UNION {{order[p][i] : i \in DOMAIN order[p]} : p \in Promises}

(* The script calls a resolving function its executor was given, as often   *)
(* as it likes.                                                            *)
Call(p, isReject, resolution) ==
    /\ Exists(p)
    /\ p \notin Derived
    /\ ResolveFunctionCall(<<p, 1>>, isReject, resolution, jobs)
    /\ UNCHANGED <<handled, order, ran>>

(* Mutant: the newest reaction first.                                       *)
ReactFirst(p, rd, queue) ==
    IF Pending(p)
    THEN reactions' = [reactions EXCEPT ![p] = <<rd>> \o @] /\ jobs' = queue
    ELSE /\ jobs' = Append(queue, ReactionJob(rd,
                             promise[p].state = "rejected", promise[p].result))
         /\ UNCHANGED reactions

(* What becomes of the reaction and the queue.                              *)
React(p, rd, queue) ==
    IF Pending(p)
    THEN /\ reactions' = [reactions EXCEPT ![p] = Append(@, rd)]
         /\ jobs' = queue
    ELSE /\ jobs' = Append(queue, ReactionJob(rd,
                             promise[p].state = "rejected", promise[p].result))
         /\ UNCHANGED reactions

(* Mutant: the tracker is not told that the rejection is handled now.       *)
ThenUntold(p, rd, queue) ==
    /\ React(p, rd, queue)
    /\ handled' = handled \cup {p}
    /\ UNCHANGED unhandled

(* Registers rd on p, or queues its job if p is settled already.            *)
PerformPromiseThen(p, rd, queue) ==
    /\ React(p, rd, queue)
    /\ unhandled' = unhandled \ {p}
    /\ handled' = handled \cup {p}

(* d = p.then(onFulfilled, onRejected)                                      *)
Then(p, d, onFulfilled, onRejected) ==
    /\ Exists(p)
    /\ Fresh(d)
    /\ promise' = [promise EXCEPT ![d] = [state |-> "pending", result |-> Undefined]]
    /\ resolver' = [resolver EXCEPT ![<<d, 1>>] = "live"]
    /\ PerformPromiseThen(p, [onFulfilled |-> onFulfilled, onRejected |-> onRejected,
                              pair |-> <<d, 1>>], jobs)
    /\ order' = [order EXCEPT ![p] = Append(@, d)]
    /\ UNCHANGED <<ran, adopted>>

(***************************************************************************)
(* JS_ExecutePendingJob                                                    *)
(***************************************************************************)
(* A reaction: the handler's outcome settles the promise then() made.       *)
PromiseReactionJob(isReject, resolution) ==
    LET job == Head(jobs) IN
    /\ job.type = "reaction"
    /\ job.handler \notin Pairs
    /\ job.handler = NoHandler => isReject = job.isReject /\ resolution = job.arg
    /\ ResolveFunctionCall(job.pair, isReject, resolution, Tail(jobs))
    /\ ran' = ran \cup {job.pair[1]}
    /\ UNCHANGED <<handled, order>>

(* The handler is the resolving function of a pair whose promise adopts     *)
(* this outcome; the promise its then() made is dropped.                    *)
AdoptionJob ==
    LET job == Head(jobs) IN
    /\ job.type = "reaction"
    /\ job.handler \in Pairs
    /\ ResolveFunctionCall(job.handler, job.isReject, job.arg, Tail(jobs))
    /\ UNCHANGED <<handled, order, ran>>

(* Makes the second pair of the promise and calls then() of the other one.  *)
PromiseResolveThenableJob ==
    LET job  == Head(jobs)
        pair == <<job.promise, 2>> IN
    /\ job.type = "thenable"
    /\ resolver' = [resolver EXCEPT ![pair] = "live"]
    /\ PerformPromiseThen(job.thenable, [onFulfilled |-> pair, onRejected |-> pair,
                                         pair |-> NoHandler], Tail(jobs))
    /\ UNCHANGED <<promise, order, ran, adopted>>

(* What a script can return, throw, or call a resolving function with.      *)
CanReach(isReject, resolution) ==
    IF isReject THEN resolution \in Errors
    ELSE resolution \in Promises => Exists(resolution)

ExecutePendingJob ==
    /\ jobs # <<>>
    /\ \/ \E isReject \in BOOLEAN, resolution \in Values \cup Promises :
            /\ CanReach(isReject, resolution)
            /\ PromiseReactionJob(isReject, resolution)
       \/ AdoptionJob
       \/ PromiseResolveThenableJob

Script ==
    \/ \E p \in Promises, thrown \in Errors \cup {Undefined} :
         Fresh(p) /\ Construct(p, thrown)
    \/ \E p \in Promises, isReject \in BOOLEAN, resolution \in Values \cup Promises :
         /\ CanReach(isReject, resolution)
         /\ Call(p, isReject, resolution)
    \/ \E p, d \in Promises, f, g \in Handlers : Then(p, d, f, g)

(***************************************************************************)
(* Properties                                                              *)
(***************************************************************************)
HasThenableJob(p) ==
    \E i \in DOMAIN jobs : jobs[i].type = "thenable" /\ jobs[i].promise = p

(* A pending promise has exactly one thing left that can settle it: its     *)
(* first pair, the job that will make the second one, or the second pair.   *)
(* A settled promise has none, so that the early return of                  *)
(* fulfill_or_reject_promise "should never happen" (quickjs.c:47932).       *)
OneWayToSettle ==
    \A p \in Promises :
      LET first  == resolver[<<p, 1>>] = "live"
          second == resolver[<<p, 2>>] = "live"
          job    == HasThenableJob(p)
      IN  /\ Pending(p) => first \/ job \/ second
          /\ first  => Pending(p) /\ ~job /\ ~second
          /\ job    => Pending(p) /\ ~second
          /\ second => Pending(p)
          /\ \A i, j \in DOMAIN jobs :
               /\ jobs[i].type = "thenable" /\ jobs[i].promise = p
               /\ jobs[j].type = "thenable" /\ jobs[j].promise = p
               => i = j

(* A promise that is settled keeps its state and its result, whoever calls  *)
(* which resolving function afterwards: a late answer after a timeout the   *)
(* script implemented, a second resolve(), an adopted promise.              *)
SettledForever ==
    [][\A p \in Promises : Settled(p) => promise'[p] = promise[p]]_pvars

(* The reactions of a promise run in the order of the then() calls, those   *)
(* made before it was settled and those made afterwards.                    *)
ReactionsInOrder ==
    \A p \in Promises : \A i, j \in DOMAIN order[p] :
      i < j /\ order[p][j] \in ran => order[p][i] \in ran

(* A promise resolved with another promise ends with the outcome of that    *)
(* one and no other: nothing else settles it in the meantime.               *)
AdoptsOutcome ==
    \A p \in Promises :
      adopted[p] # 0 /\ Settled(p) => promise[p] = promise[adopted[p]]

(* The host's tracker has been told of exactly the rejected promises that   *)
(* nobody called then() on, also when then() came after the rejection.      *)
TrackerExact ==
    unhandled = {p \in Promises : promise[p].state = "rejected" /\ p \notin handled}
=============================================================================
