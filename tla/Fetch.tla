------------------------------- MODULE Fetch -------------------------------
(***************************************************************************)
(* Network requests of a script (src/lib/http.cpp, src/lib/fetch.js): the   *)
(* script starts a request from the executor of a promise, the answer       *)
(* arrives on a thread of the network layer, which dispatches a block to    *)
(* the main queue, and the block resolves the promise.                      *)
(*                                                                         *)
(* NSURLSession and the main queue are external: a task that was resumed    *)
(* calls its completion handler once, with a response or an error, and      *)
(* the main queue runs its blocks in order, between the turns of scripts.   *)
(***************************************************************************)
EXTENDS Promise, FiniteSets

CONSTANTS
    MaxRequests, \* bound on the calls of httpreq
    Answer,     \* the status of a response
    NoStatus    \* the status read from a missing response: 0

ASSUME FetchConstants ==
    /\ MaxRequests \in Nat
    /\ {Answer, NoStatus} \subseteq Values

VARIABLES
    request,    \* each call of httpreq: phase, promise and status
    mainQueue,  \* requests whose block waits on the main queue
    held,       \* JSValues of each request that native code has duplicated
    aborted     \* an assertion failed

fvars == <<request, mainQueue, held, aborted>>
vars  == <<pvars, fvars>>

(* Requests are named in the order in which they are made.                  *)
Requests == 1 .. MaxRequests

Phases == {"none", "refused", "flight", "answered", "done"}

TypeOK ==
    /\ PromiseTypeOK
    /\ request \in [Requests -> [phase : Phases, promise : Promises \cup {0},
                                 status : {Answer, NoStatus, Undefined}]]
    /\ mainQueue \in Seq(Requests)
    /\ held \in [Requests -> {0, 3}]
    /\ aborted \in BOOLEAN

Init ==
    /\ PromiseInit
    /\ request = [r \in Requests |-> [phase |-> "none", promise |-> 0,
                                      status |-> Undefined]]
    /\ mainQueue = <<>>
    /\ held = [r \in Requests |-> 0]
    /\ aborted = FALSE

(***************************************************************************)
(* The script                                                              *)
(***************************************************************************)
(* fetch(): the executor calls libacorn.fetch, but js_init_fetch registers  *)
(* the function as httpreq: calling undefined throws in the executor.       *)
FetchCall(p) ==
    /\ Fresh(p)
    /\ Construct(p, TypeError)
    /\ UNCHANGED fvars

(* new Promise((resolve, reject) => libacorn.httpreq(url, options, resolve, *)
(* reject)).  this, resolve and reject are duplicated before the arguments  *)
(* are looked at; a refused call throws and leaves them duplicated.         *)
HttpReq(r, p, urlIsString, optionsArePlain, hasBody) ==
    /\ request[r].phase = "none"
    /\ \A q \in Requests : q < r => request[q].phase # "none"
    /\ Fresh(p)
    /\ held' = [held EXCEPT ![r] = 3]
    /\ \/ /\ ~urlIsString \/ ~optionsArePlain
          /\ Construct(p, TypeError)
          /\ request' = [request EXCEPT ![r].phase = "refused", ![r].promise = p]
          /\ UNCHANGED aborted
       \/ /\ urlIsString /\ optionsArePlain /\ ~hasBody
          /\ Construct(p, Undefined)
          /\ request' = [request EXCEPT ![r].phase = "flight", ![r].promise = p]
          /\ UNCHANGED aborted
       \/ /\ urlIsString /\ optionsArePlain /\ hasBody
          \* No value of a script becomes a BYTEARRAY val, and bytearrayRef()
          \* asserts that the body is one.
          /\ aborted' = TRUE
          /\ UNCHANGED <<pvars, request>>
    /\ UNCHANGED mainQueue

(***************************************************************************)
(* The network thread and the main queue                                   *)
(***************************************************************************)
(* The completion handler only dispatches: no JSValue is touched off the    *)
(* main thread.                                                            *)
Completion(r, status) ==
    /\ request[r].phase = "flight"
    /\ request' = [request EXCEPT ![r].phase = "answered", ![r].status = status]
    /\ mainQueue' = Append(mainQueue, r)
    /\ UNCHANGED <<pvars, held, aborted>>

(* Mutants: the promise is written to, or only told of a success.           *)
AnswerWritten(r) ==
    /\ promise' = [promise EXCEPT ![request[r].promise] =
                     [state |-> "fulfilled", result |-> request[r].status]]
    /\ UNCHANGED <<reactions, resolver, jobs, unhandled, adopted>>

AnswerIfGood(r) ==
    IF request[r].status = Answer
    THEN ResolveFunctionCall(<<request[r].promise, 1>>, FALSE, request[r].status, jobs)
    ELSE UNCHANGED <<promise, reactions, resolver, jobs, unhandled, adopted>>

(* resolve is called with the status, whatever the outcome was.             *)
AnswerRequest(r) ==
    ResolveFunctionCall(<<request[r].promise, 1>>, FALSE, request[r].status, jobs)

(* Mutant: nothing is given back.                                           *)
FreeNone(r) == UNCHANGED held

(* The three duplicated values are freed.                                   *)
Free(r) == held' = [held EXCEPT ![r] = 0]

(* The dispatched block.                                                    *)
CompletionBlock ==
    LET r == Head(mainQueue) IN
    /\ mainQueue # <<>>
    /\ AnswerRequest(r)
    /\ Free(r)
    /\ request' = [request EXCEPT ![r].phase = "done"]
    /\ mainQueue' = Tail(mainQueue)
    /\ UNCHANGED <<handled, order, ran, aborted>>

ScriptTurn   == ~aborted /\ Script /\ UNCHANGED fvars
FetchTurn    == ~aborted /\ \E p \in Promises : FetchCall(p)
HttpReqTurn  == /\ ~aborted
                /\ \E r \in Requests, p \in Promises, u, o, b \in BOOLEAN :
                     HttpReq(r, p, u, o, b)
Network(r)   == ~aborted /\ \E s \in {Answer, NoStatus} : Completion(r, s)
MainQueue    == ~aborted /\ CompletionBlock
MainLoopJobs == ~aborted /\ ExecutePendingJob /\ UNCHANGED fvars

Next ==
    \/ ScriptTurn
    \/ FetchTurn
    \/ HttpReqTurn
    \/ \E r \in Requests : Network(r)
    \/ MainQueue
    \/ MainLoopJobs

(* A request times out if nothing else ends it, so its completion handler   *)
(* is called; the main loop runs dispatched blocks and pending jobs.        *)
Fairness ==
    /\ \A r \in Requests : WF_vars(Network(r))
    /\ WF_vars(MainQueue)
    /\ WF_vars(MainLoopJobs)

Spec == Init /\ [][Next]_vars /\ Fairness

(***************************************************************************)
(* Properties                                                              *)
(***************************************************************************)
(* The duplicated values of a request outlive every use of them: the        *)
(* request and its block hold them, a finished request has given all three  *)
(* back, and the block of a request waits at most once.  A refused call     *)
(* never gives them back.                                                  *)
HeldUntilBlock ==
    /\ \A r \in Requests :
         ~aborted => (held[r] = 3 <=> request[r].phase \in {"refused", "flight", "answered"})
    /\ \A i, j \in DOMAIN mainQueue : mainQueue[i] = mainQueue[j] => i = j
    /\ \A r \in Requests :
         request[r].phase = "answered" <=> \E i \in DOMAIN mainQueue : mainQueue[i] = r

(* Every request that was sent is answered: its promise is settled, or it   *)
(* follows another promise the script resolved it with.                     *)
EveryRequestAnswered ==
    \A r \in Requests :
      request[r].phase = "flight"
        ~> \/ aborted
           \/ /\ request[r].phase = "done"
              /\ \E p \in Promises : p = request[r].promise /\ (Settled(p) \/ adopted[p] # 0)

(* Outcomes propagate: every reaction of a settled promise runs, and a      *)
(* promise follows the promise it was resolved with to the end.             *)
OutcomePropagates ==
    /\ \A d \in Promises :
         (\E p \in Promises : Settled(p) /\ \E i \in DOMAIN order[p] : order[p][i] = d)
           ~> aborted \/ d \in ran
    /\ \A p \in Promises :
         (\E q \in Promises : adopted[p] = q /\ Settled(q))
           ~> aborted \/ \E q \in Promises : adopted[p] = q /\ promise[p] = promise[q]
=============================================================================
