---------------------------- MODULE PromiseProofs ---------------------------
(***************************************************************************)
(* The proofs that a promise has one way to be settled (OneWayToSettle of   *)
(* Promise), that it ends with the outcome of the promise it was resolved   *)
(* with (AdoptsOutcome) and that its reactions run in the order of the      *)
(* then() calls (ReactionsInOrder), for every number of promises and        *)
(* requests.                                                                *)
(***************************************************************************)
EXTENDS FetchProofs

-----------------------------------------------------------------------------
(* The thenable jobs in a queue.                                            *)

ThenableFor(job, p) == job.type = "thenable" /\ job.promise = p
HasJob(q, p) == \E i \in DOMAIN q : ThenableFor(q[i], p)
OneJob(q, p) ==
    \A i, j \in DOMAIN q : ThenableFor(q[i], p) /\ ThenableFor(q[j], p) => i = j

LEMMA AppendReactions ==
    ASSUME NEW q \in Seq(Jobs), NEW m \in Seq(Jobs), \A i \in DOMAIN m : m[i].type = "reaction",
           NEW p
    PROVE  /\ HasJob(q \o m, p) <=> HasJob(q, p)
           /\ OneJob(q, p) => OneJob(q \o m, p)
<1>1. q \o m \in Seq(Jobs)
  OBVIOUS
<1>2. \A i \in DOMAIN q : i \in DOMAIN (q \o m) /\ (q \o m)[i] = q[i]
  OBVIOUS
<1>3. \A i \in DOMAIN (q \o m) : i \in DOMAIN q \/ (q \o m)[i].type = "reaction"
  OBVIOUS
<1> QED
  BY <1>2, <1>3 DEF HasJob, OneJob, ThenableFor

LEMMA AppendReaction ==
    ASSUME NEW q \in Seq(Jobs), NEW job \in Jobs, job.type = "reaction", NEW p
    PROVE  /\ HasJob(Append(q, job), p) <=> HasJob(q, p)
           /\ OneJob(q, p) => OneJob(Append(q, job), p)
<1>1. \A i \in DOMAIN q : i \in DOMAIN Append(q, job) /\ Append(q, job)[i] = q[i]
  OBVIOUS
<1>2. \A i \in DOMAIN Append(q, job) : i \in DOMAIN q \/ Append(q, job)[i].type = "reaction"
  OBVIOUS
<1> QED
  BY <1>1, <1>2 DEF HasJob, OneJob, ThenableFor

LEMMA AppendThenable ==
    ASSUME NEW q \in Seq(Jobs), NEW job \in Jobs, job.type = "thenable", NEW p
    PROVE  /\ job.promise = p /\ ~HasJob(q, p)
                => HasJob(Append(q, job), p) /\ OneJob(Append(q, job), p)
           /\ job.promise # p => /\ HasJob(Append(q, job), p) <=> HasJob(q, p)
                                 /\ OneJob(q, p) => OneJob(Append(q, job), p)
<1> DEFINE n == Len(q) + 1
           a == Append(q, job)
<1>1. \A i \in DOMAIN q : i \in DOMAIN a /\ a[i] = q[i]
  OBVIOUS
<1>2. n \in DOMAIN a /\ a[n] = job
  OBVIOUS
<1>3. \A i \in DOMAIN a : i \in DOMAIN q \/ i = n
  OBVIOUS
<1> HIDE DEF n, a
<1>4. /\ job.promise = p /\ ~HasJob(q, p) => HasJob(a, p) /\ OneJob(a, p)
      /\ job.promise # p => (HasJob(a, p) <=> HasJob(q, p)) /\ (OneJob(q, p) => OneJob(a, p))
  BY <1>1, <1>2, <1>3 DEF HasJob, OneJob, ThenableFor
<1> QED
  BY <1>4 DEF a

LEMMA TailJobs ==
    ASSUME NEW q \in Seq(Jobs), q # <<>>, NEW p
    PROVE  /\ OneJob(q, p) => OneJob(Tail(q), p)
           /\ ~ThenableFor(Head(q), p) => (HasJob(Tail(q), p) <=> HasJob(q, p))
           /\ ThenableFor(Head(q), p) /\ OneJob(q, p) => ~HasJob(Tail(q), p)
           /\ ThenableFor(Head(q), p) => HasJob(q, p)
<1> DEFINE t == Tail(q)
           h == Head(q)
<1>1. \A i \in DOMAIN t : i \in Nat /\ i >= 1 /\ i + 1 \in DOMAIN q /\ t[i] = q[i + 1]
  OBVIOUS
<1>2. \A i \in DOMAIN q : i = 1 \/ (i \in Nat /\ i - 1 \in DOMAIN t /\ t[i - 1] = q[i])
  OBVIOUS
<1>3. 1 \in DOMAIN q /\ q[1] = h
  OBVIOUS
<1> HIDE DEF t, h
<1>4. OneJob(q, p) => OneJob(t, p)
  BY <1>1 DEF OneJob
<1>5. HasJob(t, p) => HasJob(q, p)
  BY <1>1 DEF HasJob
<1>6. HasJob(q, p) => HasJob(t, p) \/ ThenableFor(h, p)
  BY <1>2, <1>3 DEF HasJob
<1>7. ThenableFor(h, p) /\ OneJob(q, p) => ~HasJob(t, p)
  BY <1>1, <1>3 DEF HasJob, OneJob
<1>8. ThenableFor(h, p) => HasJob(q, p)
  BY <1>3 DEF HasJob
<1> QED
  BY <1>4, <1>5, <1>6, <1>7, <1>8 DEF t, h

-----------------------------------------------------------------------------
(* The invariant.                                                           *)

(* OneWayToSettle for one promise, its variables as parameters.             *)
Way(pr, res, q, p) ==
    /\ pr[p].state = "pending"
         => res[<<p, 1>>] = "live" \/ HasJob(q, p) \/ res[<<p, 2>>] = "live"
    /\ res[<<p, 1>>] = "live"
         => pr[p].state = "pending" /\ ~HasJob(q, p) /\ res[<<p, 2>>] # "live"
    /\ HasJob(q, p) => pr[p].state = "pending" /\ res[<<p, 2>>] # "live"
    /\ res[<<p, 2>>] = "live" => pr[p].state = "pending"
    /\ OneJob(q, p)

Ways(pr, res, q) == \A p \in Promises : Way(pr, res, q, p)

LEMMA WaysIsOneWay == OneWayToSettle <=> Ways(promise, resolver, jobs)
  BY DEF OneWayToSettle, Ways, Way, HasJob, OneJob, ThenableFor, HasThenableJob, Pending

(* Whatever calls a resolving function was given it by somebody who made it.*)
KnownReaction(res, rd) ==
    /\ rd.pair \in Pairs => res[rd.pair] # "none"
    /\ rd.pair = NoHandler => res[rd.onFulfilled] # "none" /\ res[rd.onRejected] # "none"

KnownJob(res, job) ==
    job.type = "reaction" =>
      /\ job.pair \in Pairs => res[job.pair] # "none"
      /\ job.pair = NoHandler => res[job.handler] # "none"

KnownReactions(res, rs) ==
    \A p \in Promises : \A i \in DOMAIN rs[p] : KnownReaction(res, rs[p][i])

KnownJobs(res, q) == \A i \in DOMAIN q : KnownJob(res, q[i])

KnownPromises(pr, res) ==
    \A p \in Promises : pr[p].state # "none" => res[<<p, 1>>] # "none"

Known(pr, res, rs, q) ==
    KnownReactions(res, rs) /\ KnownJobs(res, q) /\ KnownPromises(pr, res)

Made == [Pairs -> {"none", "live", "used"}]

(* Resolving functions are not taken back.                                  *)
Later(old, new) == \A r \in Pairs : old[r] # "none" => new[r] # "none"

LEMMA ReactionLater ==
    ASSUME NEW old \in Made, NEW new \in Made, Later(old, new),
           NEW rd \in Reactions, KnownReaction(old, rd)
    PROVE  KnownReaction(new, rd)
  BY PromiseConstants DEF Later, KnownReaction, Reactions, Pairs, Handlers, Promises

LEMMA JobLater ==
    ASSUME NEW old \in Made, NEW new \in Made, Later(old, new),
           NEW job \in Jobs, KnownJob(old, job)
    PROVE  KnownJob(new, job)
  BY PromiseConstants DEF Later, KnownJob, Jobs, Pairs, Handlers, Promises

LEMMA KnownLater ==
    ASSUME NEW old \in Made, NEW new \in Made, Later(old, new),
           NEW rs \in [Promises -> Seq(Reactions)], NEW q \in Seq(Jobs)
    PROVE  /\ KnownReactions(old, rs) => KnownReactions(new, rs)
           /\ KnownJobs(old, q) => KnownJobs(new, q)
<1>1. \A p \in Promises : \A i \in DOMAIN rs[p] : rs[p][i] \in Reactions
  OBVIOUS
<1>2. \A i \in DOMAIN q : q[i] \in Jobs
  OBVIOUS
<1> QED
  BY <1>1, <1>2, ReactionLater, JobLater DEF KnownReactions, KnownJobs

LEMMA ReactionJobKnown ==
    ASSUME NEW res \in Made, NEW rd \in Reactions, KnownReaction(res, rd),
           NEW isReject \in BOOLEAN, NEW value
    PROVE  KnownJob(res, ReactionJob(rd, isReject, value))
<1> DEFINE job == ReactionJob(rd, isReject, value)
<1>1. job.pair = rd.pair /\ job.handler = IF isReject THEN rd.onRejected ELSE rd.onFulfilled
  BY DEF ReactionJob
<1> QED
  BY <1>1 DEF KnownJob, KnownReaction

(* Nothing about p changes.                                                 *)
LEMMA WaySame ==
    ASSUME NEW pr, NEW res, NEW q, NEW pr2, NEW res2, NEW q2, NEW p, Way(pr, res, q, p),
           pr2[p] = pr[p], res2[<<p, 1>>] = res[<<p, 1>>], res2[<<p, 2>>] = res[<<p, 2>>],
           HasJob(q2, p) <=> HasJob(q, p), OneJob(q, p) => OneJob(q2, p)
    PROVE  Way(pr2, res2, q2, p)
  BY DEF Way

-----------------------------------------------------------------------------
(* Resolving functions.                                                     *)

(* A call of a pair somebody holds, with queue what is left of the jobs.    *)
LEMMA ResolvingWays ==
    ASSUME PromiseInv, NEW r \in Pairs, resolver[r] # "none", NEW isReject \in BOOLEAN,
           NEW resolution \in Values \cup Promises,
           isReject => resolution \in Values,
           NEW queue \in Seq(Jobs),
           Ways(promise, resolver, queue), Known(promise, resolver, reactions, queue),
           PromiseInv', ResolveFunctionCall(r, isReject, resolution, queue)
    PROVE  Ways(promise', resolver', jobs') /\ Known(promise', resolver', reactions', jobs')
<1>1. CASE resolver[r] = "used"
  BY <1>1 DEF ResolveFunctionCall
<1>2. CASE resolver[r] # "used"
  <2> DEFINE p == r[1]
  <2>1. /\ resolver \in Made /\ resolver' \in Made
        /\ promise \in [Promises -> [state  : {"none", "pending", "fulfilled", "rejected"},
                                     result : Values \cup {Undefined}]]
        /\ reactions \in [Promises -> Seq(Reactions)]
        /\ jobs' \in Seq(Jobs)
    BY DEF PromiseInv, PromiseTypeOK, Made
  <2>2. /\ p \in Promises /\ r \in {<<p, 1>>, <<p, 2>>}
        /\ <<p, 1>> # <<p, 2>> /\ <<p, 1>> \in Pairs /\ <<p, 2>> \in Pairs
    BY DEF Pairs
  <2>3. resolver[r] = "live"
    BY <1>2, <2>1 DEF Made
  <2>4. /\ resolver' = [resolver EXCEPT ![r] = "used"]
        /\ Resolution(p, isReject, resolution, queue)
    BY <1>2 DEF ResolveFunctionCall
  <2>5. /\ promise[p].state = "pending" /\ ~HasJob(queue, p)
        /\ \A s \in {<<p, 1>>, <<p, 2>>} : s # r => resolver[s] # "live"
    BY <2>2, <2>3 DEF Ways, Way
  <2>6. /\ \A q \in Promises : q # p => /\ resolver'[<<q, 1>>] = resolver[<<q, 1>>]
                                        /\ resolver'[<<q, 2>>] = resolver[<<q, 2>>]
        /\ resolver'[<<p, 1>>] # "live" /\ resolver'[<<p, 2>>] # "live"
    <3>1. \A s \in Pairs : resolver'[s] = IF s = r THEN "used" ELSE resolver[s]
      BY <2>1, <2>4 DEF Made
    <3>2. \A q \in Promises : <<q, 1>> \in Pairs /\ <<q, 2>> \in Pairs
      BY DEF Pairs
    <3>3. \A q \in Promises : q # p => <<q, 1>> # r /\ <<q, 2>> # r
      BY <2>2
    <3> QED
      BY <2>2, <2>5, <3>1, <3>2, <3>3
  <2>7. Later(resolver, resolver')
    BY <2>1, <2>4 DEF Later, Made
  <2> HIDE DEF p
  <2>8. ASSUME NEW value \in Values, NEW rejects \in BOOLEAN,
               FulfillOrReject(p, value, rejects, queue)
        PROVE  Ways(promise', resolver', jobs') /\ Known(promise', resolver', reactions', jobs')
    <3> DEFINE more == [i \in DOMAIN reactions[p] |-> ReactionJob(reactions[p][i], rejects, value)]
    <3>1. /\ jobs' = queue \o more
          /\ promise' = [promise EXCEPT ![p] = [state  |-> IF rejects THEN "rejected" ELSE "fulfilled",
                                                result |-> value]]
          /\ reactions' = [reactions EXCEPT ![p] = <<>>]
      BY <2>5, <2>8 DEF FulfillOrReject, Pending
    <3>2. reactions[p] \in Seq(Reactions) /\ \A i \in 1 .. Len(reactions[p]) : reactions[p][i] \in Reactions
      BY <2>1, <2>2
    <3>3. \A i \in 1 .. Len(reactions[p]) : ReactionJob(reactions[p][i], rejects, value) \in Jobs
                                         /\ ReactionJob(reactions[p][i], rejects, value).type = "reaction"
      BY <3>2, ReactionJobType
    <3>4. \A i \in 1 .. Len(reactions[p]) : KnownJob(resolver, ReactionJob(reactions[p][i], rejects, value))
      BY <2>1, <2>2, <3>2, ReactionJobKnown DEF Known, KnownReactions
    <3>5. /\ more \in Seq(Jobs) /\ Len(more) = Len(reactions[p])
          /\ \A i \in DOMAIN more : more[i].type = "reaction" /\ KnownJob(resolver, more[i])
      BY <3>2, <3>3, <3>4
    <3> HIDE DEF more
    <3>6. \A q \in Promises : /\ HasJob(jobs', q) <=> HasJob(queue, q)
                              /\ OneJob(queue, q) => OneJob(jobs', q)
      BY <3>1, <3>5, AppendReactions
    <3>7. \A q \in Promises : q # p => promise'[q] = promise[q]
      BY <2>1, <3>1
    <3>8. promise'[p].state \in {"fulfilled", "rejected"}
      BY <2>1, <2>2, <3>1
    <3>9. \A q \in Promises \ {p} : Way(promise', resolver', jobs', q)
      BY <2>6, <3>6, <3>7, WaySame DEF Ways
    <3>10. Way(promise', resolver', jobs', p)
      BY <2>2, <2>5, <2>6, <3>6, <3>8 DEF Ways, Way
    <3>11. KnownJobs(resolver, jobs')
      <4>1. \A i \in DOMAIN jobs' : \/ i \in DOMAIN queue /\ jobs'[i] = queue[i]
                                    \/ \E j \in DOMAIN more : jobs'[i] = more[j]
        BY <3>1, <3>5
      <4> QED
        BY <3>5, <4>1 DEF Known, KnownJobs
    <3>12. KnownReactions(resolver, reactions')
      <4>1. \A q \in Promises : reactions'[q] = reactions[q] \/ reactions'[q] = <<>>
        BY <2>1, <3>1
      <4> QED
        BY <4>1 DEF Known, KnownReactions
    <3>13. KnownPromises(promise', resolver')
      BY <2>2, <2>5, <2>7, <3>7 DEF Known, KnownPromises, Later, Pairs
    <3>14. reactions' \in [Promises -> Seq(Reactions)]
      BY DEF PromiseInv, PromiseTypeOK
    <3> QED
      BY <2>1, <2>7, <3>9, <3>10, <3>11, <3>12, <3>13, <3>14, KnownLater DEF Known, Ways
  <2>9. CASE isReject \/ resolution \notin Promises
    <3>1. resolution \in Values /\ FulfillOrReject(p, resolution, isReject, queue)
      BY <2>2, <2>4, <2>9 DEF Resolution
    <3> QED
      BY <2>8, <3>1
  <2>10. CASE ~isReject /\ resolution = p
    <3>1. TypeError \in Values /\ FulfillOrReject(p, TypeError, TRUE, queue)
      BY <2>2, <2>4, <2>10, PromiseConstants DEF Resolution
    <3> QED
      BY <2>8, <3>1
  <2>11. CASE ~isReject /\ resolution \in Promises \ {p}
    <3> DEFINE job == [type |-> "thenable", promise |-> p, thenable |-> resolution]
    <3>1. jobs' = Append(queue, job) /\ UNCHANGED <<promise, reactions>>
      BY <2>4, <2>11 DEF Resolution
    <3>2. job \in Jobs /\ job.type = "thenable" /\ job.promise = p
      BY <2>2, <2>11 DEF Jobs
    <3> HIDE DEF job
    <3>3. /\ HasJob(jobs', p) /\ OneJob(jobs', p)
          /\ \A q \in Promises : q # p => /\ HasJob(jobs', q) <=> HasJob(queue, q)
                                          /\ OneJob(queue, q) => OneJob(jobs', q)
      BY <2>5, <3>1, <3>2, AppendThenable
    <3>4. \A q \in Promises \ {p} : Way(promise', resolver', jobs', q)
      BY <2>6, <3>1, <3>3, WaySame DEF Ways
    <3>5. Way(promise', resolver', jobs', p)
      BY <2>5, <2>6, <3>1, <3>3 DEF Way
    <3>6. KnownJobs(resolver, jobs')
      <4>1. \A i \in DOMAIN jobs' : (i \in DOMAIN queue /\ jobs'[i] = queue[i]) \/ jobs'[i] = job
        BY <3>1, <3>2
      <4> QED
        BY <3>2, <4>1 DEF Known, KnownJobs, KnownJob
    <3>7. KnownReactions(resolver, reactions') /\ KnownPromises(promise', resolver')
      BY <2>7, <3>1 DEF Known, KnownPromises, Later, Pairs
    <3>8. reactions' \in [Promises -> Seq(Reactions)]
      BY DEF PromiseInv, PromiseTypeOK
    <3> QED
      BY <2>1, <2>7, <3>4, <3>5, <3>6, <3>7, <3>8, KnownLater DEF Known, Ways
  <2> QED
    BY <2>9, <2>10, <2>11
<1> QED
  BY <1>1, <1>2

-----------------------------------------------------------------------------
(* The other steps.                                                         *)

SettleInv == OneWayToSettle /\ Known(promise, resolver, reactions, jobs)

LEMMA SettleLater ==
    ASSUME Ways(promise', resolver', jobs'), Known(promise', resolver', reactions', jobs')
    PROVE  SettleInv'
  BY DEF SettleInv, OneWayToSettle, Ways, Way, HasJob, OneJob, ThenableFor,
         HasThenableJob, Pending

LEMMA CallKeepsWays ==
    ASSUME PromiseInv, PromiseInv', SettleInv, NEW p \in Promises, NEW isReject \in BOOLEAN,
           NEW resolution \in Values \cup Promises, isReject => resolution \in Values,
           resolver[<<p, 1>>] # "none", ResolveFunctionCall(<<p, 1>>, isReject, resolution, jobs)
    PROVE  SettleInv'
<1>1. Ways(promise, resolver, jobs) /\ Known(promise, resolver, reactions, jobs)
  BY WaysIsOneWay DEF SettleInv
<1>2. jobs \in Seq(Jobs) /\ <<p, 1>> \in Pairs
  BY DEF PromiseInv, PromiseTypeOK, Pairs
<1>3. Ways(promise', resolver', jobs') /\ Known(promise', resolver', reactions', jobs')
  BY <1>1, <1>2, ResolvingWays
<1> QED
  BY <1>3, SettleLater

(* The queue without its first job, a reaction.                             *)
LEMMA TailWays ==
    ASSUME PromiseInv, SettleInv, jobs # <<>>, Head(jobs).type = "reaction"
    PROVE  /\ Tail(jobs) \in Seq(Jobs) /\ Head(jobs) \in Jobs
           /\ Ways(promise, resolver, Tail(jobs))
           /\ Known(promise, resolver, reactions, Tail(jobs))
           /\ KnownJob(resolver, Head(jobs))
<1>1. jobs \in Seq(Jobs) /\ Ways(promise, resolver, jobs)
  BY WaysIsOneWay DEF SettleInv, PromiseInv, PromiseTypeOK
<1>2. Tail(jobs) \in Seq(Jobs) /\ Head(jobs) \in Jobs /\ 1 \in DOMAIN jobs /\ Head(jobs) = jobs[1]
  BY <1>1
<1>3. \A i \in DOMAIN Tail(jobs) : i + 1 \in DOMAIN jobs /\ Tail(jobs)[i] = jobs[i + 1]
  BY <1>1
<1>4. \A p \in Promises : ~ThenableFor(Head(jobs), p)
  BY DEF ThenableFor
<1>5. \A p \in Promises : Way(promise, resolver, Tail(jobs), p)
  BY <1>1, <1>4, TailJobs, WaySame DEF Ways
<1>6. KnownJobs(resolver, Tail(jobs)) /\ KnownJob(resolver, Head(jobs))
  BY <1>2, <1>3 DEF SettleInv, Known, KnownJobs
<1> QED
  BY <1>2, <1>5, <1>6 DEF Ways, SettleInv, Known

LEMMA ReactionKeepsWays ==
    ASSUME PromiseInv, PromiseInv', SettleInv, jobs # <<>>, NEW isReject \in BOOLEAN,
           NEW resolution \in Values \cup Promises, isReject => resolution \in Values,
           PromiseReactionJob(isReject, resolution)
    PROVE  SettleInv'
<1> DEFINE job == Head(jobs)
<1>1. /\ job.type = "reaction" /\ job.handler \notin Pairs
      /\ ResolveFunctionCall(job.pair, isReject, resolution, Tail(jobs))
  BY DEF PromiseReactionJob
<1>2. /\ Tail(jobs) \in Seq(Jobs) /\ job \in Jobs
      /\ Ways(promise, resolver, Tail(jobs))
      /\ Known(promise, resolver, reactions, Tail(jobs))
      /\ KnownJob(resolver, job)
  BY <1>1, TailWays
<1> HIDE DEF job
<1>3. job.pair \in Pairs
  BY <1>1, <1>2 DEF Jobs
<1>4. resolver[job.pair] # "none"
  BY <1>1, <1>2, <1>3 DEF KnownJob
<1>5. Ways(promise', resolver', jobs') /\ Known(promise', resolver', reactions', jobs')
  BY <1>1, <1>2, <1>3, <1>4, ResolvingWays
<1> QED
  BY <1>5, SettleLater

LEMMA AdoptionKeepsWays ==
    ASSUME PromiseInv, PromiseInv', SettleInv, jobs # <<>>, AdoptionJob
    PROVE  SettleInv'
<1> DEFINE job == Head(jobs)
<1>1. /\ job.type = "reaction" /\ job.handler \in Pairs
      /\ ResolveFunctionCall(job.handler, job.isReject, job.arg, Tail(jobs))
  BY DEF AdoptionJob
<1>2. /\ Tail(jobs) \in Seq(Jobs) /\ job \in Jobs
      /\ Ways(promise, resolver, Tail(jobs))
      /\ Known(promise, resolver, reactions, Tail(jobs))
      /\ KnownJob(resolver, job)
  BY <1>1, TailWays
<1> HIDE DEF job
<1>3. job.pair = NoHandler /\ job.arg \in Values /\ job.isReject \in BOOLEAN
  BY <1>1, <1>2, PromiseConstants DEF Jobs, Handlers, Pairs, Promises
<1>4. resolver[job.handler] # "none"
  BY <1>1, <1>2, <1>3 DEF KnownJob
<1>5. Ways(promise', resolver', jobs') /\ Known(promise', resolver', reactions', jobs')
  BY <1>1, <1>2, <1>3, <1>4, ResolvingWays
<1> QED
  BY <1>5, SettleLater

(* The first pair of a promise that is made now.                            *)
LEMMA MakingWays ==
    ASSUME PromiseInv, PromiseInv', SettleInv, NEW p \in Promises, Fresh(p),
           NEW flag \in {"live", "used"},
           resolver' = [resolver EXCEPT ![<<p, 1>>] = flag],
           \A q \in Promises : q # p => promise'[q] = promise[q],
           flag = "live" <=> promise'[p].state = "pending"
    PROVE  /\ \A q \in Promises : Way(promise', resolver', jobs, q)
           /\ Later(resolver, resolver') /\ KnownPromises(promise', resolver')
<1>1. /\ resolver \in Made /\ promise[p].state = "none" /\ Ways(promise, resolver, jobs)
      /\ KnownPromises(promise, resolver)
  BY WaysIsOneWay DEF PromiseInv, PromiseTypeOK, Made, Fresh, Exists, SettleInv, Known
<1>2. \A q \in Promises : <<q, 1>> \in Pairs /\ <<q, 2>> \in Pairs /\ <<q, 2>> # <<p, 1>>
                          /\ (q # p => <<q, 1>> # <<p, 1>>)
  BY DEF Pairs
<1>3. \A s \in Pairs : resolver'[s] = IF s = <<p, 1>> THEN flag ELSE resolver[s]
  BY <1>1 DEF Made
<1>4. \A q \in Promises \ {p} : Way(promise', resolver', jobs, q)
  <2>1. \A q \in Promises \ {p} : /\ resolver'[<<q, 1>>] = resolver[<<q, 1>>]
                                  /\ resolver'[<<q, 2>>] = resolver[<<q, 2>>]
    BY <1>2, <1>3
  <2>2. \A q \in Promises \ {p} : Way(promise, resolver, jobs, q) /\ promise'[q] = promise[q]
    BY <1>1 DEF Ways
  <2> QED
    BY <2>1, <2>2 DEF Way
<1>5. Way(promise', resolver', jobs, p)
  <2>1. Way(promise, resolver, jobs, p)
    BY <1>1 DEF Ways
  <2>2. resolver'[<<p, 1>>] = flag /\ resolver'[<<p, 2>>] = resolver[<<p, 2>>]
    BY <1>2, <1>3
  <2> QED
    BY <1>1, <2>1, <2>2 DEF Way
<1>6. Later(resolver, resolver')
  BY <1>3 DEF Later
<1>7. KnownPromises(promise', resolver')
  BY <1>1, <1>2, <1>3 DEF KnownPromises
<1> QED
  BY <1>4, <1>5, <1>6, <1>7

LEMMA ConstructKeepsWays ==
    ASSUME PromiseInv, PromiseInv', SettleInv, NEW p \in Promises,
           NEW thrown \in Values \cup {Undefined}, Fresh(p), Construct(p, thrown)
    PROVE  SettleInv'
<1> DEFINE flag == IF thrown # Undefined THEN "used" ELSE "live"
<1>1. /\ promise' = [promise EXCEPT ![p] =
              [state  |-> IF thrown # Undefined THEN "rejected" ELSE "pending",
               result |-> thrown]]
      /\ resolver' = [resolver EXCEPT ![<<p, 1>>] = flag]
      /\ UNCHANGED <<reactions, jobs>>
  BY DEF Construct
<1>2. flag \in {"live", "used"}
  OBVIOUS
<1>3. /\ \A q \in Promises : q # p => promise'[q] = promise[q]
      /\ flag = "live" <=> promise'[p].state = "pending"
  BY <1>1 DEF PromiseInv, PromiseTypeOK
<1> HIDE DEF flag
<1>4. /\ \A q \in Promises : Way(promise', resolver', jobs, q)
      /\ Later(resolver, resolver') /\ KnownPromises(promise', resolver')
  BY <1>1, <1>2, <1>3, MakingWays
<1>5. /\ resolver \in Made /\ resolver' \in Made
      /\ reactions \in [Promises -> Seq(Reactions)] /\ jobs \in Seq(Jobs)
  BY DEF PromiseInv, PromiseTypeOK, Made
<1>6. Known(promise', resolver', reactions', jobs')
  BY <1>1, <1>4, <1>5, KnownLater DEF SettleInv, Known
<1> QED
  BY <1>1, <1>4, <1>6, SettleLater DEF Ways

(* then(): rd waits at p, or its job is the last one.                       *)
LEMMA ReactingWays ==
    ASSUME PromiseInv, NEW p \in Promises, Exists(p), NEW rd \in Reactions,
           NEW queue \in Seq(Jobs), NEW res \in Made,
           KnownReactions(res, reactions), KnownJobs(res, queue), KnownReaction(res, rd),
           React(p, rd, queue)
    PROVE  /\ KnownReactions(res, reactions') /\ KnownJobs(res, jobs')
           /\ \A q \in Promises : /\ HasJob(jobs', q) <=> HasJob(queue, q)
                                  /\ OneJob(queue, q) => OneJob(jobs', q)
<1>1. CASE Pending(p)
  <2>1. reactions' = [reactions EXCEPT ![p] = Append(@, rd)] /\ jobs' = queue
    BY <1>1 DEF React
  <2>2. reactions \in [Promises -> Seq(Reactions)]
    BY DEF PromiseInv, PromiseTypeOK
  <2>3. \A q \in Promises : \A i \in DOMAIN reactions'[q] :
          reactions'[q][i] = rd \/ (i \in DOMAIN reactions[q] /\ reactions'[q][i] = reactions[q][i])
    <3>1. \A q \in Promises : reactions'[q] =
            IF q = p THEN Append(reactions[p], rd) ELSE reactions[q]
      BY <2>1, <2>2
    <3>2. \A i \in DOMAIN Append(reactions[p], rd) :
            \/ Append(reactions[p], rd)[i] = rd
            \/ i \in DOMAIN reactions[p] /\ Append(reactions[p], rd)[i] = reactions[p][i]
      BY <2>2
    <3> QED
      BY <3>1, <3>2
  <2> QED
    BY <2>1, <2>3 DEF KnownReactions
<1>2. CASE ~Pending(p)
  <2> DEFINE isReject == promise[p].state = "rejected"
             job == ReactionJob(rd, isReject, promise[p].result)
  <2>1. promise[p].result \in Values
    BY <1>2 DEF PromiseInv, Sound, Settled, Pending, Exists, PromiseTypeOK
  <2>2. isReject \in BOOLEAN
    OBVIOUS
  <2>3. jobs' = Append(queue, job) /\ UNCHANGED reactions
    BY <1>2 DEF React
  <2> HIDE DEF isReject
  <2>4. job \in Jobs /\ job.type = "reaction" /\ KnownJob(res, job)
    BY <2>1, <2>2, ReactionJobType, ReactionJobKnown
  <2> HIDE DEF job
  <2>5. \A i \in DOMAIN jobs' : jobs'[i] = job \/ (i \in DOMAIN queue /\ jobs'[i] = queue[i])
    BY <2>3, <2>4
  <2>6. KnownJobs(res, jobs')
    BY <2>4, <2>5 DEF KnownJobs
  <2> QED
    BY <2>3, <2>4, <2>6, AppendReaction
<1> QED
  BY <1>1, <1>2

LEMMA ThenKeepsWays ==
    ASSUME PromiseInv, PromiseInv', SettleInv, NEW p \in Promises, NEW d \in Promises,
           NEW f \in Handlers, NEW g \in Handlers, Then(p, d, f, g)
    PROVE  SettleInv'
<1> DEFINE rd == [onFulfilled |-> f, onRejected |-> g, pair |-> <<d, 1>>]
<1>1. /\ Exists(p) /\ Fresh(d)
      /\ promise' = [promise EXCEPT ![d] = [state |-> "pending", result |-> Undefined]]
      /\ resolver' = [resolver EXCEPT ![<<d, 1>>] = "live"]
      /\ React(p, rd, jobs)
  BY DEF Then, PerformPromiseThen
<1>2. rd \in Reactions /\ rd.pair = <<d, 1>> /\ <<d, 1>> \in Pairs /\ <<d, 1>> # NoHandler
  BY PromiseConstants DEF Reactions, Pairs, Promises
<1> HIDE DEF rd
<1>3. /\ \A q \in Promises : q # d => promise'[q] = promise[q]
      /\ promise'[d].state = "pending"
  BY <1>1 DEF PromiseInv, PromiseTypeOK
<1>4. /\ \A q \in Promises : Way(promise', resolver', jobs, q)
      /\ Later(resolver, resolver') /\ KnownPromises(promise', resolver')
  BY <1>1, <1>3, MakingWays
<1>5. /\ resolver \in Made /\ resolver' \in Made
      /\ reactions \in [Promises -> Seq(Reactions)] /\ jobs \in Seq(Jobs)
  BY DEF PromiseInv, PromiseTypeOK, Made
<1>6. KnownReactions(resolver', reactions) /\ KnownJobs(resolver', jobs)
  BY <1>4, <1>5, KnownLater DEF SettleInv, Known
<1>7. KnownReaction(resolver', rd)
  <2>1. resolver'[<<d, 1>>] = "live"
    BY <1>1, <1>2, <1>5 DEF Made
  <2> QED
    BY <1>2, <2>1 DEF KnownReaction
<1>8. /\ KnownReactions(resolver', reactions') /\ KnownJobs(resolver', jobs')
      /\ \A q \in Promises : /\ HasJob(jobs', q) <=> HasJob(jobs, q)
                             /\ OneJob(jobs, q) => OneJob(jobs', q)
  BY <1>1, <1>2, <1>5, <1>6, <1>7, ReactingWays
<1>9. Ways(promise', resolver', jobs')
  BY <1>4, <1>8, WaySame DEF Ways
<1> QED
  BY <1>4, <1>8, <1>9, SettleLater DEF Known

(* The job that makes the second pair: the promise loses the job and gets   *)
(* the pair.                                                                *)
LEMMA ThenableKeepsWays ==
    ASSUME PromiseInv, PromiseInv', SettleInv, jobs # <<>>, PromiseResolveThenableJob
    PROVE  SettleInv'
<1> DEFINE job  == Head(jobs)
           p    == job.promise
           pair == <<p, 2>>
           rd   == [onFulfilled |-> pair, onRejected |-> pair, pair |-> NoHandler]
<1>1. /\ job.type = "thenable"
      /\ resolver' = [resolver EXCEPT ![pair] = "live"]
      /\ React(job.thenable, rd, Tail(jobs))
      /\ UNCHANGED promise
  BY DEF PromiseResolveThenableJob, PerformPromiseThen
<1>2. /\ jobs \in Seq(Jobs) /\ GoodQueue(jobs) /\ resolver \in Made /\ resolver' \in Made
      /\ reactions \in [Promises -> Seq(Reactions)]
      /\ Ways(promise, resolver, jobs)
  BY WaysIsOneWay DEF PromiseInv, PromiseTypeOK, Sound, GoodQueue, Made, SettleInv
<1>3. Tail(jobs) \in Seq(Jobs) /\ job \in Jobs /\ Exists(job.thenable)
  BY <1>1, <1>2, TailGood DEF GoodQueue
<1>4. KnownJobs(resolver, Tail(jobs)) /\ KnownReactions(resolver, reactions)
      /\ KnownPromises(promise, resolver)
  <2>1. \A i \in DOMAIN Tail(jobs) : i + 1 \in DOMAIN jobs /\ Tail(jobs)[i] = jobs[i + 1]
    BY <1>2
  <2> QED
    BY <2>1 DEF SettleInv, Known, KnownJobs
<1>5. \A q \in Promises :
        /\ OneJob(jobs, q) => OneJob(Tail(jobs), q)
        /\ ~ThenableFor(job, q) => (HasJob(Tail(jobs), q) <=> HasJob(jobs, q))
        /\ ThenableFor(job, q) /\ OneJob(jobs, q) => ~HasJob(Tail(jobs), q)
        /\ ThenableFor(job, q) => HasJob(jobs, q)
  BY <1>2, TailJobs
<1> HIDE DEF job
<1>6. p \in Promises /\ job.thenable \in Promises /\ pair \in Pairs
  BY <1>1, <1>3 DEF Jobs, Pairs
<1>7. \A q \in Promises : ThenableFor(job, q) <=> q = p
  BY <1>1 DEF ThenableFor
<1> HIDE DEF p
<1>8. /\ \A q \in Promises : /\ <<q, 1>> \in Pairs /\ <<q, 2>> \in Pairs
                             /\ <<q, 1>> # pair /\ (q # p => <<q, 2>> # pair)
      /\ pair # NoHandler
  BY <1>6, PromiseConstants DEF Pairs, Promises
<1>9. \A s \in Pairs : resolver'[s] = IF s = pair THEN "live" ELSE resolver[s]
  BY <1>1, <1>2 DEF Made
<1>10. rd \in Reactions /\ KnownReaction(resolver', rd)
  <2>1. rd \in Reactions
    BY <1>6 DEF Reactions
  <2>2. rd.pair = NoHandler /\ rd.onFulfilled = pair /\ rd.onRejected = pair /\ NoHandler \notin Pairs
    BY PromiseConstants DEF Pairs, Promises
  <2> QED
    BY <1>6, <1>9, <2>1, <2>2 DEF KnownReaction
<1> HIDE DEF rd
<1>11. Later(resolver, resolver')
  BY <1>9 DEF Later
<1>12. KnownReactions(resolver', reactions) /\ KnownJobs(resolver', Tail(jobs))
  BY <1>2, <1>3, <1>4, <1>11, KnownLater
<1>13. /\ KnownReactions(resolver', reactions') /\ KnownJobs(resolver', jobs')
       /\ \A q \in Promises : /\ HasJob(jobs', q) <=> HasJob(Tail(jobs), q)
                              /\ OneJob(Tail(jobs), q) => OneJob(jobs', q)
  BY <1>1, <1>2, <1>3, <1>6, <1>10, <1>12, ReactingWays
<1>14. KnownPromises(promise', resolver')
  BY <1>1, <1>4, <1>8, <1>9 DEF KnownPromises
<1>15. \A q \in Promises \ {p} : Way(promise', resolver', jobs', q)
  <2>1. \A q \in Promises \ {p} : /\ Way(promise, resolver, jobs, q)
                                  /\ resolver'[<<q, 1>>] = resolver[<<q, 1>>]
                                  /\ resolver'[<<q, 2>>] = resolver[<<q, 2>>]
                                  /\ promise'[q] = promise[q]
                                  /\ HasJob(jobs', q) <=> HasJob(jobs, q)
                                  /\ OneJob(jobs, q) => OneJob(jobs', q)
    BY <1>1, <1>2, <1>5, <1>7, <1>8, <1>9, <1>13 DEF Ways
  <2> QED
    BY <2>1, WaySame
<1>16. Way(promise', resolver', jobs', p)
  <2>1. Way(promise, resolver, jobs, p) /\ HasJob(jobs, p) /\ OneJob(jobs, p)
    BY <1>2, <1>5, <1>6, <1>7 DEF Ways, Way
  <2>2. ~HasJob(jobs', p) /\ OneJob(jobs', p)
    BY <1>5, <1>6, <1>7, <1>13, <2>1
  <2>3. resolver'[<<p, 2>>] = "live" /\ resolver'[<<p, 1>>] = resolver[<<p, 1>>]
    BY <1>6, <1>8, <1>9
  <2> QED
    BY <1>1, <2>1, <2>2, <2>3 DEF Way
<1> QED
  BY <1>13, <1>14, <1>15, <1>16, SettleLater DEF Known, Ways

-----------------------------------------------------------------------------
(* The whole system.                                                        *)

(* A request that is under way has a promise that was made.                 *)
PromisesExist ==
    /\ \A r \in Requests :
         request[r].phase = "flight" => resolver[<<request[r].promise, 1>>] # "none"
    /\ \A i \in DOMAIN mainQueue :
         resolver[<<request[mainQueue[i]].promise, 1>>] # "none"

OneWayInv == FetchInv /\ SettleInv /\ PromisesExist

LEMMA InitOneWay == Init => OneWayInv
<1> SUFFICES ASSUME Init PROVE OneWayInv
  OBVIOUS
<1>1. FetchInv
  BY InitFetch
<1>2. \A p \in Promises : <<p, 1>> \in Pairs /\ <<p, 2>> \in Pairs
  BY DEF Pairs
<1>3. OneWayToSettle
  <2>1. \A p \in Promises : /\ promise[p].state = "none"
                            /\ resolver[<<p, 1>>] = "none" /\ resolver[<<p, 2>>] = "none"
                            /\ ~HasJob(jobs, p) /\ OneJob(jobs, p)
    <3>1. \A p \in Promises : promise[p].state = "none"
      BY DEF Init, PromiseInit
    <3>2. \A r \in Pairs : resolver[r] = "none"
      BY DEF Init, PromiseInit
    <3>3. jobs = <<>> /\ DOMAIN jobs = {}
      BY DEF Init, PromiseInit
    <3>4. \A p \in Promises : ~HasJob(jobs, p) /\ OneJob(jobs, p)
      BY <3>3, Zenon DEF HasJob, OneJob
    <3> QED
      BY <1>2, <3>1, <3>2, <3>4
  <2>2. Ways(promise, resolver, jobs)
    BY <2>1 DEF Ways, Way
  <2> QED
    BY <2>2, WaysIsOneWay
<1>4. Known(promise, resolver, reactions, jobs)
  BY DEF Init, PromiseInit, Known, KnownReactions, KnownJobs, KnownPromises
<1>5. PromisesExist
  BY DEF Init, PromisesExist
<1> QED
  BY <1>1, <1>3, <1>4, <1>5 DEF OneWayInv, SettleInv

(* No step takes a pair of resolving functions back.                        *)
LEMMA LaterExcept ==
    ASSUME NEW res \in Made, NEW new \in Made, NEW r, NEW flag \in {"live", "used"},
           new = [res EXCEPT ![r] = flag]
    PROVE  Later(res, new)
  BY DEF Later, Made

LEMMA ResolvingLater ==
    ASSUME resolver \in Made, resolver' \in Made, NEW r, NEW isReject, NEW resolution, NEW queue,
           ResolveFunctionCall(r, isReject, resolution, queue)
    PROVE  Later(resolver, resolver')
<1>1. UNCHANGED resolver \/ resolver' = [resolver EXCEPT ![r] = "used"]
  BY DEF ResolveFunctionCall
<1>2. CASE UNCHANGED resolver
  BY <1>2 DEF Later
<1>3. CASE resolver' = [resolver EXCEPT ![r] = "used"]
  BY <1>3, LaterExcept
<1> QED
  BY <1>1, <1>2, <1>3

LEMMA ConstructLater ==
    ASSUME resolver \in Made, resolver' \in Made, NEW p, NEW thrown, Construct(p, thrown)
    PROVE  Later(resolver, resolver')
<1> DEFINE flag == IF thrown # Undefined THEN "used" ELSE "live"
<1>1. flag \in {"live", "used"} /\ resolver' = [resolver EXCEPT ![<<p, 1>>] = flag]
  BY DEF Construct
<1> HIDE DEF flag
<1> QED
  BY <1>1, LaterExcept

(* Requests keep their promises when only promises change.                  *)
LEMMA RequestsStay ==
    ASSUME FetchInv, PromisesExist, Later(resolver, resolver'), UNCHANGED <<request, mainQueue>>
    PROVE  PromisesExist'
<1>1. \A r \in Requests : request[r].phase = "flight" => <<request[r].promise, 1>> \in Pairs
  BY DEF FetchInv, UnderWay, Pairs
<1>2. \A i \in DOMAIN mainQueue : <<request[mainQueue[i]].promise, 1>> \in Pairs
  BY DEF FetchInv, UnderWay, Pairs
<1> QED
  BY <1>1, <1>2 DEF PromisesExist, Later

LEMMA ScriptOneWay ==
    ASSUME OneWayInv, FetchInv', ScriptTurn
    PROVE  OneWayInv'
<1>1. /\ PromiseInv /\ PromiseInv' /\ SettleInv /\ FetchInv /\ PromisesExist
      /\ UNCHANGED <<request, mainQueue>> /\ Script
      /\ resolver \in Made /\ resolver' \in Made
  BY DEF OneWayInv, FetchInv, PromiseInv, TypeOK, PromiseTypeOK, ScriptTurn, Made, fvars
<1>2. CASE \E p \in Promises, thrown \in Errors \cup {Undefined} :
             Fresh(p) /\ Construct(p, thrown)
  <2>1. PICK p \in Promises, thrown \in Errors \cup {Undefined} :
          Fresh(p) /\ Construct(p, thrown)
    BY <1>2
  <2>2. thrown \in Values \cup {Undefined}
    BY PromiseConstants
  <2> QED
    BY <1>1, <2>1, <2>2, ConstructKeepsWays, ConstructLater, RequestsStay DEF OneWayInv
<1>3. CASE \E p \in Promises, isReject \in BOOLEAN, resolution \in Values \cup Promises :
             CanReach(isReject, resolution) /\ Call(p, isReject, resolution)
  <2>1. PICK p \in Promises, isReject \in BOOLEAN, resolution \in Values \cup Promises :
          CanReach(isReject, resolution) /\ Call(p, isReject, resolution)
    BY <1>3
  <2>2. /\ isReject => resolution \in Values
        /\ resolver[<<p, 1>>] # "none"
        /\ ResolveFunctionCall(<<p, 1>>, isReject, resolution, jobs)
    BY <1>1, <2>1, PromiseConstants DEF CanReach, Call, Exists, SettleInv, Known, KnownPromises
  <2> QED
    BY <1>1, <2>2, CallKeepsWays, ResolvingLater, RequestsStay DEF OneWayInv
<1>4. CASE \E p, d \in Promises, f, g \in Handlers : Then(p, d, f, g)
  <2>1. PICK p \in Promises, d \in Promises, f \in Handlers, g \in Handlers : Then(p, d, f, g)
    BY <1>4
  <2>2. resolver' = [resolver EXCEPT ![<<d, 1>>] = "live"]
    BY <2>1 DEF Then
  <2>3. Later(resolver, resolver')
    BY <1>1, <2>2, LaterExcept
  <2> QED
    BY <1>1, <2>1, <2>3, ThenKeepsWays, RequestsStay DEF OneWayInv
<1> QED
  BY <1>1, <1>2, <1>3, <1>4 DEF Script

LEMMA JobsOneWay ==
    ASSUME OneWayInv, FetchInv', MainLoopJobs
    PROVE  OneWayInv'
<1>1. /\ PromiseInv /\ PromiseInv' /\ SettleInv /\ FetchInv /\ PromisesExist
      /\ UNCHANGED <<request, mainQueue>> /\ ExecutePendingJob /\ jobs # <<>>
      /\ resolver \in Made /\ resolver' \in Made
  BY DEF OneWayInv, FetchInv, PromiseInv, TypeOK, PromiseTypeOK, MainLoopJobs, ExecutePendingJob,
         Made, fvars
<1>2. CASE \E isReject \in BOOLEAN, resolution \in Values \cup Promises :
             CanReach(isReject, resolution) /\ PromiseReactionJob(isReject, resolution)
  <2>1. PICK isReject \in BOOLEAN, resolution \in Values \cup Promises :
          CanReach(isReject, resolution) /\ PromiseReactionJob(isReject, resolution)
    BY <1>2
  <2>2. isReject => resolution \in Values
    BY <2>1, PromiseConstants DEF CanReach
  <2>3. SettleInv'
    BY <1>1, <2>1, <2>2, ReactionKeepsWays
  <2>4. Later(resolver, resolver')
    BY <1>1, <2>1, ResolvingLater DEF PromiseReactionJob
  <2> QED
    BY <1>1, <2>3, <2>4, RequestsStay DEF OneWayInv
<1>3. CASE AdoptionJob
  <2>1. Later(resolver, resolver')
    BY <1>1, <1>3, ResolvingLater DEF AdoptionJob
  <2> QED
    BY <1>1, <1>3, <2>1, AdoptionKeepsWays, RequestsStay DEF OneWayInv
<1>4. CASE PromiseResolveThenableJob
  <2>1. Later(resolver, resolver')
    BY <1>1, <1>4, LaterExcept DEF PromiseResolveThenableJob
  <2> QED
    BY <1>1, <1>4, <2>1, ThenableKeepsWays, RequestsStay DEF OneWayInv
<1> QED
  BY <1>1, <1>2, <1>3, <1>4 DEF ExecutePendingJob

LEMMA FetchOneWay ==
    ASSUME OneWayInv, FetchInv', FetchTurn
    PROVE  OneWayInv'
<1>1. PICK p \in Promises : Fresh(p) /\ Construct(p, TypeError) /\ UNCHANGED fvars
  BY DEF FetchTurn, FetchCall
<1>2. /\ PromiseInv /\ PromiseInv' /\ SettleInv /\ FetchInv /\ PromisesExist
      /\ UNCHANGED <<request, mainQueue>>
      /\ resolver \in Made /\ resolver' \in Made
      /\ TypeError \in Values \cup {Undefined}
  BY <1>1, PromiseConstants DEF OneWayInv, FetchInv, PromiseInv, TypeOK, PromiseTypeOK, Made, fvars
<1> QED
  BY <1>1, <1>2, ConstructKeepsWays, ConstructLater, RequestsStay DEF OneWayInv

LEMMA HttpReqOneWay ==
    ASSUME OneWayInv, FetchInv', HttpReqTurn
    PROVE  OneWayInv'
<1>1. PICK r \in Requests, p \in Promises, u, o, b \in BOOLEAN : HttpReq(r, p, u, o, b)
  BY DEF HttpReqTurn
<1>2. /\ PromiseInv /\ PromiseInv' /\ SettleInv /\ FetchInv /\ PromisesExist /\ TypeOK
      /\ resolver \in Made /\ resolver' \in Made
      /\ TypeError \in Values \cup {Undefined} /\ Undefined \in Values \cup {Undefined}
  BY PromiseConstants DEF OneWayInv, FetchInv, PromiseInv, TypeOK, PromiseTypeOK, Made
<1>3. Fresh(p) /\ UNCHANGED mainQueue
  BY <1>1 DEF HttpReq
<1>4. ASSUME NEW ph \in {"refused", "flight"}, NEW thrown \in Values \cup {Undefined},
             Construct(p, thrown),
             request' = [request EXCEPT ![r].phase = ph, ![r].promise = p]
      PROVE  OneWayInv'
  <2>1. SettleInv' /\ Later(resolver, resolver')
    BY <1>2, <1>3, <1>4, ConstructKeepsWays, ConstructLater
  <2>2. /\ \A q \in Requests : q # r => request'[q] = request[q]
        /\ request'[r].promise = p
    BY <1>2, <1>4 DEF TypeOK
  <2>3. <<p, 1>> \in Pairs /\ resolver'[<<p, 1>>] # "none"
    <3>1. <<p, 1>> \in Pairs
      BY DEF Pairs
    <3>2. promise'[p].state # "none"
      BY <1>2, <1>4 DEF Construct, TypeOK, PromiseTypeOK
    <3> QED
      BY <2>1, <3>1, <3>2 DEF SettleInv, Known, KnownPromises
  <2>4. \A q \in Requests : request[q].phase = "flight" => <<request[q].promise, 1>> \in Pairs
    BY <1>2 DEF FetchInv, UnderWay, Pairs
  <2>5. \A i \in DOMAIN mainQueue : /\ mainQueue[i] \in Requests
                                    /\ <<request[mainQueue[i]].promise, 1>> \in Pairs
    BY <1>2 DEF FetchInv, UnderWay, Pairs, TypeOK
  <2>6. PromisesExist'
    BY <1>2, <1>3, <2>1, <2>2, <2>3, <2>4, <2>5 DEF PromisesExist, Later
  <2> QED
    BY <2>1, <2>6 DEF OneWayInv
<1>5. CASE /\ Construct(p, TypeError)
           /\ request' = [request EXCEPT ![r].phase = "refused", ![r].promise = p]
  BY <1>2, <1>4, <1>5
<1>6. CASE /\ Construct(p, Undefined)
           /\ request' = [request EXCEPT ![r].phase = "flight", ![r].promise = p]
  BY <1>2, <1>4, <1>6
<1>7. CASE UNCHANGED <<pvars, request>>
  <2>1. UNCHANGED <<promise, resolver, reactions, jobs, request, mainQueue>>
    BY <1>3, <1>7 DEF pvars
  <2>2. SettleInv' /\ PromisesExist'
    BY <1>2, <2>1 DEF SettleInv, OneWayToSettle, HasThenableJob, Pending, PromisesExist
  <2> QED
    BY <2>2 DEF OneWayInv
<1> QED
  BY <1>1, <1>5, <1>6, <1>7 DEF HttpReq

LEMMA NetworkOneWay ==
    ASSUME OneWayInv, FetchInv', NEW r \in Requests, Network(r)
    PROVE  OneWayInv'
<1>1. PICK s \in {Answer, NoStatus} : Completion(r, s)
  BY DEF Network
<1>2. /\ request[r].phase = "flight"
      /\ request' = [request EXCEPT ![r].phase = "answered", ![r].status = s]
      /\ mainQueue' = Append(mainQueue, r)
      /\ UNCHANGED <<promise, resolver, reactions, jobs>>
  BY <1>1 DEF Completion, pvars
<1>3. SettleInv /\ TypeOK /\ PromisesExist /\ mainQueue \in Seq(Requests)
  BY DEF OneWayInv, FetchInv, TypeOK
<1>4. SettleInv'
  BY <1>2, <1>3 DEF SettleInv, OneWayToSettle, HasThenableJob, Pending
<1>5. \A q \in Requests : request'[q].promise = request[q].promise
                          /\ (request'[q].phase = "flight" => request[q].phase = "flight")
  BY <1>2, <1>3 DEF TypeOK
<1>6. \A i \in DOMAIN mainQueue' : mainQueue'[i] = r
           \/ (i \in DOMAIN mainQueue /\ mainQueue'[i] = mainQueue[i] /\ mainQueue[i] \in Requests)
  BY <1>2, <1>3
<1>7. resolver[<<request[r].promise, 1>>] # "none"
  BY <1>2, <1>3 DEF PromisesExist
<1>8. PromisesExist'
  <2>1. ASSUME NEW q \in Requests, request'[q].phase = "flight"
        PROVE  resolver'[<<request'[q].promise, 1>>] # "none"
    BY <1>2, <1>3, <1>5, <2>1 DEF PromisesExist
  <2>2. ASSUME NEW i \in DOMAIN mainQueue'
        PROVE  resolver'[<<request'[mainQueue'[i]].promise, 1>>] # "none"
    <3>1. CASE mainQueue'[i] = r
      BY <1>2, <1>5, <1>7, <3>1
    <3>2. CASE i \in DOMAIN mainQueue /\ mainQueue'[i] = mainQueue[i] /\ mainQueue[i] \in Requests
      BY <1>2, <1>3, <1>5, <3>2 DEF PromisesExist
    <3> QED
      BY <1>6, <3>1, <3>2
  <2> QED
    BY <2>1, <2>2 DEF PromisesExist
<1> QED
  BY <1>4, <1>8 DEF OneWayInv

LEMMA BlockOneWay ==
    ASSUME OneWayInv, FetchInv', MainQueue
    PROVE  OneWayInv'
<1> DEFINE r == Head(mainQueue)
           p == request[r].promise
<1>1. /\ mainQueue # <<>>
      /\ ResolveFunctionCall(<<p, 1>>, FALSE, request[r].status, jobs)
      /\ request' = [request EXCEPT ![r].phase = "done"]
      /\ mainQueue' = Tail(mainQueue)
  BY DEF MainQueue, CompletionBlock, AnswerRequest
<1>2. /\ PromiseInv /\ PromiseInv' /\ SettleInv /\ FetchInv /\ PromisesExist /\ TypeOK /\ UnderWay
      /\ resolver \in Made /\ resolver' \in Made /\ mainQueue \in Seq(Requests)
  BY DEF OneWayInv, FetchInv, PromiseInv, TypeOK, PromiseTypeOK, Made
<1>3. r \in Requests /\ r = mainQueue[1] /\ 1 \in DOMAIN mainQueue
  BY <1>1, <1>2
<1> HIDE DEF r
<1>4. p \in Promises /\ request[r].status \in Values /\ resolver[<<p, 1>>] # "none"
  BY <1>2, <1>3 DEF UnderWay, PromisesExist
<1>5. SettleInv' /\ Later(resolver, resolver')
  BY <1>1, <1>2, <1>4, CallKeepsWays, ResolvingLater
<1>6. \A q \in Requests : request'[q].promise = request[q].promise
                          /\ (request'[q].phase = "flight" => request[q].phase = "flight")
  BY <1>1, <1>2, <1>3 DEF TypeOK
<1>7. \A i \in DOMAIN mainQueue' : /\ i + 1 \in DOMAIN mainQueue
                                   /\ mainQueue'[i] = mainQueue[i + 1]
                                   /\ mainQueue[i + 1] \in Requests
  BY <1>1, <1>2
<1>8. /\ \A q \in Requests : request[q].phase = "flight" => <<request[q].promise, 1>> \in Pairs
      /\ \A i \in DOMAIN mainQueue : <<request[mainQueue[i]].promise, 1>> \in Pairs
  BY <1>2 DEF UnderWay, Pairs
<1>9. PromisesExist'
  BY <1>2, <1>5, <1>6, <1>7, <1>8 DEF PromisesExist, Later
<1> QED
  BY <1>5, <1>9 DEF OneWayInv

LEMMA NextOneWay ==
    ASSUME OneWayInv, [Next]_vars
    PROVE  OneWayInv'
<1>1. FetchInv /\ FetchInv'
  BY NextFetch DEF OneWayInv
<1>2. CASE UNCHANGED vars
  <2>1. UNCHANGED <<promise, resolver, reactions, jobs, request, mainQueue>>
    BY <1>2 DEF vars, pvars, fvars
  <2>2. SettleInv' /\ PromisesExist'
    BY <2>1 DEF OneWayInv, SettleInv, OneWayToSettle, HasThenableJob, Pending, PromisesExist
  <2> QED
    BY <1>1, <2>2 DEF OneWayInv
<1> QED
  BY <1>1, <1>2, ScriptOneWay, FetchOneWay, HttpReqOneWay, NetworkOneWay, BlockOneWay, JobsOneWay
  DEF Next

(* Whatever scripts, the network and the main loop do, a pending promise    *)
(* has exactly one way left to be settled and a settled one has none: the   *)
(* early return of fulfill_or_reject_promise that "should never happen"     *)
(* never does, and no promise waits for a call nobody can make any more.    *)
THEOREM OneWay == Spec => []OneWayToSettle
<1>1. OneWayInv => OneWayToSettle
  BY DEF OneWayInv, SettleInv
<1> QED
  BY InitOneWay, NextOneWay, <1>1, PTL DEF Spec

-----------------------------------------------------------------------------
(* What a step of the whole system is to the promises.                      *)

Constructs == \E p \in Promises, thrown \in Values \cup {Undefined} : Fresh(p) /\ Construct(p, thrown)

Resolves ==
    \E p \in Promises, isReject \in BOOLEAN, resolution \in Values \cup Promises :
      /\ isReject => resolution \in Values
      /\ resolver[<<p, 1>>] # "none"
      /\ ResolveFunctionCall(<<p, 1>>, isReject, resolution, jobs)
      /\ UNCHANGED <<order, ran>>

Thens == \E p, d \in Promises, f, g \in Handlers : Then(p, d, f, g)

Reacts ==
    \E isReject \in BOOLEAN, resolution \in Values \cup Promises :
      (isReject => resolution \in Values) /\ PromiseReactionJob(isReject, resolution)

LEMMA PromiseSteps ==
    ASSUME OneWayInv, [Next]_vars
    PROVE  \/ UNCHANGED pvars
           \/ Constructs
           \/ Resolves
           \/ Thens
           \/ jobs # <<>> /\ (Reacts \/ AdoptionJob \/ PromiseResolveThenableJob)
<1>1. /\ Errors \subseteq Values /\ TypeError \in Values \cup {Undefined}
      /\ \A b \in BOOLEAN, x \in Values \cup Promises : CanReach(b, x) => (b => x \in Values)
  BY PromiseConstants DEF CanReach
<1>2. CASE ScriptTurn
  <2>1. Script
    BY <1>2 DEF ScriptTurn
  <2>2. CASE \E p \in Promises, thrown \in Errors \cup {Undefined} :
               Fresh(p) /\ Construct(p, thrown)
    BY <1>1, <2>2 DEF Constructs
  <2>3. CASE \E p \in Promises, isReject \in BOOLEAN, resolution \in Values \cup Promises :
               CanReach(isReject, resolution) /\ Call(p, isReject, resolution)
    <3>1. PICK p \in Promises, isReject \in BOOLEAN, resolution \in Values \cup Promises :
            CanReach(isReject, resolution) /\ Call(p, isReject, resolution)
      BY <2>3
    <3>2. resolver[<<p, 1>>] # "none"
      BY <3>1 DEF Call, Exists, OneWayInv, SettleInv, Known, KnownPromises
    <3> QED
      BY <1>1, <3>1, <3>2 DEF Resolves, Call
  <2> QED
    BY <2>1, <2>2, <2>3 DEF Script, Thens
<1>3. CASE FetchTurn
  BY <1>1, <1>3 DEF FetchTurn, FetchCall, Constructs
<1>4. CASE HttpReqTurn
  <2>1. PICK r \in Requests, p \in Promises, u, o, b \in BOOLEAN : HttpReq(r, p, u, o, b)
    BY <1>4 DEF HttpReqTurn
  <2>2. Fresh(p) /\ (Construct(p, TypeError) \/ Construct(p, Undefined) \/ UNCHANGED pvars)
    BY <2>1 DEF HttpReq
  <2> QED
    BY <1>1, <2>2 DEF Constructs
<1>5. CASE \E r \in Requests : Network(r)
  BY <1>5 DEF Network, Completion
<1>6. CASE MainQueue
  <2> DEFINE r == Head(mainQueue)
             p == request[r].promise
  <2>1. /\ mainQueue # <<>>
        /\ ResolveFunctionCall(<<p, 1>>, FALSE, request[r].status, jobs)
        /\ UNCHANGED <<order, ran>>
    BY <1>6 DEF MainQueue, CompletionBlock, AnswerRequest
  <2>2. r = mainQueue[1] /\ 1 \in DOMAIN mainQueue
    BY <2>1 DEF OneWayInv, FetchInv, TypeOK
  <2>3. p \in Promises /\ request[r].status \in Values /\ resolver[<<p, 1>>] # "none"
    BY <2>2 DEF OneWayInv, FetchInv, UnderWay, PromisesExist
  <2> HIDE DEF r, p
  <2> QED
    BY <2>1, <2>3 DEF Resolves
<1>7. CASE MainLoopJobs
  BY <1>1, <1>7 DEF MainLoopJobs, ExecutePendingJob, Reacts
<1>8. CASE UNCHANGED vars
  BY <1>8 DEF vars
<1> QED
  BY <1>2, <1>3, <1>4, <1>5, <1>6, <1>7, <1>8 DEF Next

-----------------------------------------------------------------------------
(* Adoption: the invariant.                                                 *)

(* A promise with the outcome a job passes on.                              *)
Outcome(pr, q, isReject, value) ==
    pr[q].state = (IF isReject THEN "rejected" ELSE "fulfilled") /\ pr[q].result = value

(* The job, or the reaction of promise q, that makes a promise adopt an     *)
(* outcome calls the second pair of a promise resolved with the promise     *)
(* that has it; every other one settles the first pair of the promise       *)
(* then() made.                                                             *)
Faithful(pr, ad, job) ==
    /\ job.type = "thenable" => ad[job.promise] = job.thenable
    /\ job.type = "reaction" /\ job.pair \in Pairs => job.pair[2] = 1
    /\ job.type = "reaction" /\ job.pair = NoHandler =>
         \E p \in Promises : /\ job.handler = <<p, 2>> /\ ad[p] \in Promises
                             /\ Outcome(pr, ad[p], job.isReject, job.arg)

Follows(ad, q, rd) ==
    /\ rd.pair \in Pairs => rd.pair[2] = 1
    /\ rd.pair = NoHandler =>
         \E p \in Promises : rd.onFulfilled = <<p, 2>> /\ rd.onRejected = <<p, 2>> /\ ad[p] = q

FaithfulJobs(pr, ad, q) == \A i \in DOMAIN q : Faithful(pr, ad, q[i])
FollowingReactions(ad, rs) == \A q \in Promises : \A i \in DOMAIN rs[q] : Follows(ad, q, rs[q][i])

(* A promise nobody resolved yet has not adopted another.                   *)
NotYet(pr, res, ad) ==
    \A p \in Promises : pr[p].state = "none" \/ res[<<p, 1>>] = "live" => ad[p] = 0

AdoptInv ==
    /\ FaithfulJobs(promise, adopted, jobs)
    /\ FollowingReactions(adopted, reactions)
    /\ NotYet(promise, resolver, adopted)
    /\ AdoptsOutcome

(* Nothing a job depends on changes: promises that are settled stay, and    *)
(* adopted promises too.                                                    *)
LEMMA FaithfulLater ==
    ASSUME NEW pr, NEW pr2, NEW ad, NEW ad2, NEW job \in Jobs, Faithful(pr, ad, job),
           \A p \in Promises : pr[p].state \in {"fulfilled", "rejected"} => pr2[p] = pr[p],
           job.type = "thenable" => ad2[job.promise] = ad[job.promise],
           \A p \in Promises : ad[p] \in Promises => ad2[p] = ad[p]
    PROVE  Faithful(pr2, ad2, job)
<1>1. CASE job.type = "thenable"
  BY <1>1 DEF Faithful
<1>2. CASE job.type = "reaction" /\ job.pair = NoHandler
  <2>1. PICK p \in Promises : /\ job.handler = <<p, 2>> /\ ad[p] \in Promises
                              /\ Outcome(pr, ad[p], job.isReject, job.arg)
    BY <1>2 DEF Faithful
  <2>2. Outcome(pr2, ad2[p], job.isReject, job.arg) /\ ad2[p] \in Promises
    BY <2>1 DEF Outcome
  <2> QED
    BY <1>2, <2>1, <2>2 DEF Faithful
<1>3. CASE job.type = "reaction" /\ job.pair # NoHandler
  BY <1>3 DEF Faithful
<1> QED
  BY <1>1, <1>2, <1>3 DEF Jobs

LEMMA FollowsLater ==
    ASSUME NEW ad, NEW ad2, NEW rs, FollowingReactions(ad, rs),
           \A p \in Promises : ad[p] \in Promises => ad2[p] = ad[p]
    PROVE  FollowingReactions(ad2, rs)
  BY DEF FollowingReactions, Follows

(* A reaction of a promise that has an outcome becomes a faithful job.      *)
LEMMA ReactionFaithful ==
    ASSUME NEW pr, NEW ad, NEW q \in Promises, NEW rd \in Reactions, Follows(ad, q, rd),
           NEW isReject \in BOOLEAN, NEW value, Outcome(pr, q, isReject, value)
    PROVE  Faithful(pr, ad, ReactionJob(rd, isReject, value))
<1> DEFINE job == ReactionJob(rd, isReject, value)
<1>1. /\ job.pair = rd.pair /\ job.handler = (IF isReject THEN rd.onRejected ELSE rd.onFulfilled)
      /\ job.type = "reaction" /\ job.isReject = isReject /\ job.arg = value
  BY DEF ReactionJob
<1> HIDE DEF job
<1>2. Faithful(pr, ad, job)
  BY <1>1 DEF Faithful, Follows
<1> QED
  BY <1>2 DEF job

(* Settling p, which was pending, with the outcome it is to have.           *)
LEMMA SettlingAdopts ==
    ASSUME PromiseInv, PromiseInv', NEW p \in Promises, Pending(p),
           NEW queue \in Seq(Jobs), FaithfulJobs(promise, adopted, queue),
           FollowingReactions(adopted, reactions), AdoptsOutcome, UNCHANGED adopted,
           NEW value \in Values, NEW isReject \in BOOLEAN,
           FulfillOrReject(p, value, isReject, queue),
           adopted[p] # 0 => Outcome(promise, adopted[p], isReject, value)
    PROVE  /\ FaithfulJobs(promise', adopted', jobs')
           /\ FollowingReactions(adopted', reactions') /\ AdoptsOutcome'
           /\ \A q \in Promises : promise'[q].state = "none" <=> promise[q].state = "none"
<1> DEFINE more == [i \in DOMAIN reactions[p] |-> ReactionJob(reactions[p][i], isReject, value)]
           new  == [state  |-> IF isReject THEN "rejected" ELSE "fulfilled", result |-> value]
<1>1. /\ jobs' = queue \o more
      /\ promise' = [promise EXCEPT ![p] = new]
      /\ reactions' = [reactions EXCEPT ![p] = <<>>]
  BY DEF FulfillOrReject
<1>2. /\ promise \in [Promises -> [state  : {"none", "pending", "fulfilled", "rejected"},
                                   result : Values \cup {Undefined}]]
      /\ reactions \in [Promises -> Seq(Reactions)]
      /\ adopted \in [Promises -> Promises \cup {0}]
  BY DEF PromiseInv, PromiseTypeOK
<1>3. /\ \A q \in Promises : q # p => promise'[q] = promise[q]
      /\ promise'[p] = new /\ Outcome(promise', p, isReject, value)
  BY <1>1, <1>2 DEF Outcome
<1>4. \A q \in Promises : promise[q].state \in {"fulfilled", "rejected"} => promise'[q] = promise[q]
  BY <1>3 DEF Pending
<1>5. \A q \in Promises : \A i \in DOMAIN reactions[q] : reactions[q][i] \in Reactions
  BY <1>2
<1>6. \A i \in DOMAIN reactions[p] :
         Faithful(promise', adopted, ReactionJob(reactions[p][i], isReject, value))
  BY <1>3, <1>5, ReactionFaithful DEF FollowingReactions
<1>7. FaithfulJobs(promise', adopted', jobs')
  <2>1. \A i \in DOMAIN queue : Faithful(promise', adopted, queue[i])
    <3>1. \A i \in DOMAIN queue : queue[i] \in Jobs /\ Faithful(promise, adopted, queue[i])
      BY DEF FaithfulJobs
    <3> QED
      BY <1>4, <3>1, FaithfulLater
  <2>2. /\ DOMAIN more = DOMAIN reactions[p]
        /\ \A i \in DOMAIN more : Faithful(promise', adopted, more[i])
    BY <1>6
  <2>3. more \in Seq(Jobs)
    <3>1. reactions[p] \in Seq(Reactions) /\ DOMAIN reactions[p] = 1 .. Len(reactions[p])
      BY <1>2
    <3>2. \A i \in 1 .. Len(reactions[p]) : ReactionJob(reactions[p][i], isReject, value) \in Jobs
      BY <1>5, <3>1, ReactionJobType
    <3> QED
      BY <3>1, <3>2
  <2> HIDE DEF more
  <2>4. \A i \in DOMAIN jobs' : \/ i \in DOMAIN queue /\ jobs'[i] = queue[i]
                                \/ \E j \in DOMAIN more : jobs'[i] = more[j]
    BY <1>1, <2>3
  <2> QED
    BY <2>1, <2>2, <2>4 DEF FaithfulJobs
<1>8. FollowingReactions(adopted', reactions')
  <2>1. \A q \in Promises : reactions'[q] = reactions[q] \/ reactions'[q] = <<>>
    BY <1>1, <1>2
  <2> QED
    BY <2>1 DEF FollowingReactions
<1>9. AdoptsOutcome'
  <2> SUFFICES ASSUME NEW q \in Promises, adopted[q] # 0,
                      promise'[q].state \in {"fulfilled", "rejected"}
               PROVE  promise'[q] = promise'[adopted[q]]
    BY DEF AdoptsOutcome, Settled
  <2>1. adopted[q] \in Promises
    BY <1>2
  <2>2. CASE q # p
    <3>1. promise'[q] = promise[q] /\ promise[q] = promise[adopted[q]]
      BY <1>3, <2>2 DEF AdoptsOutcome, Settled
    <3> QED
      BY <1>4, <2>1, <3>1
  <2>3. CASE q = p
    <3>1. Outcome(promise, adopted[p], isReject, value)
      BY <2>3
    <3>2. promise'[adopted[p]] = promise[adopted[p]]
      BY <1>4, <2>1, <2>3, <3>1 DEF Outcome
    <3>3. promise[adopted[p]] = new
      BY <1>2, <2>1, <2>3, <3>1 DEF Outcome
    <3> QED
      BY <1>3, <2>3, <3>2, <3>3
  <2> QED
    BY <2>2, <2>3
<1>10. \A q \in Promises : promise'[q].state = "none" <=> promise[q].state = "none"
  BY <1>3 DEF Pending
<1> QED
  BY <1>7, <1>8, <1>9, <1>10

(* A first pair is called, by the script, a request or a reaction.          *)
LEMMA ResolvingAdopts ==
    ASSUME PromiseInv, PromiseInv', OneWayToSettle, AdoptInv, NEW p \in Promises,
           resolver[<<p, 1>>] # "none", NEW isReject \in BOOLEAN,
           NEW resolution \in Values \cup Promises, isReject => resolution \in Values,
           NEW queue \in Seq(Jobs), FaithfulJobs(promise, adopted, queue),
           ~HasJob(queue, p) \/ resolver[<<p, 1>>] # "live",
           ResolveFunctionCall(<<p, 1>>, isReject, resolution, queue)
    PROVE  AdoptInv'
<1> USE DEF AdoptInv
<1>1. /\ promise \in [Promises -> [state  : {"none", "pending", "fulfilled", "rejected"},
                                   result : Values \cup {Undefined}]]
      /\ reactions \in [Promises -> Seq(Reactions)]
      /\ adopted \in [Promises -> Promises \cup {0}]
      /\ resolver \in [Pairs -> {"none", "live", "used"}]
      /\ \A q \in Promises : <<q, 1>> \in Pairs
      /\ 0 \notin Promises
  BY DEF PromiseInv, PromiseTypeOK, Pairs, Promises
<1>2. CASE resolver[<<p, 1>>] = "used"
  <2>1. jobs' = queue /\ UNCHANGED <<promise, reactions, resolver, adopted>>
    BY <1>2 DEF ResolveFunctionCall
  <2> QED
    BY <2>1 DEF AdoptsOutcome, Settled
<1>3. CASE resolver[<<p, 1>>] # "used"
  <2>1. /\ resolver[<<p, 1>>] = "live" /\ Pending(p) /\ adopted[p] = 0 /\ ~HasJob(queue, p)
        /\ resolver' = [resolver EXCEPT ![<<p, 1>>] = "used"]
        /\ Resolution(p, isReject, resolution, queue)
    BY <1>1, <1>3 DEF OneWayToSettle, NotYet, ResolveFunctionCall
  <2>2. \A q \in Promises : resolver'[<<q, 1>>] = "live" => resolver[<<q, 1>>] = "live" /\ q # p
    BY <1>1, <2>1
  <2>3. ASSUME NEW value \in Values, NEW b \in BOOLEAN,
               FulfillOrReject(p, value, b, queue), UNCHANGED adopted
        PROVE  AdoptInv'
    <3>1. /\ FaithfulJobs(promise', adopted', jobs')
          /\ FollowingReactions(adopted', reactions') /\ AdoptsOutcome'
          /\ \A q \in Promises : promise'[q].state = "none" <=> promise[q].state = "none"
      BY <2>1, <2>3, SettlingAdopts
    <3>2. NotYet(promise', resolver', adopted')
      BY <2>2, <2>3, <3>1 DEF NotYet
    <3> QED
      BY <3>1, <3>2
  <2>4. CASE isReject \/ resolution \notin Promises
    <3>1. resolution \in Values /\ FulfillOrReject(p, resolution, isReject, queue) /\ UNCHANGED adopted
      BY <2>1, <2>4 DEF Resolution
    <3> QED
      BY <2>3, <3>1
  <2>5. CASE ~isReject /\ resolution = p
    <3>1. TypeError \in Values /\ FulfillOrReject(p, TypeError, TRUE, queue) /\ UNCHANGED adopted
      BY <2>1, <2>5, PromiseConstants DEF Resolution
    <3> QED
      BY <2>3, <3>1
  <2>6. CASE ~isReject /\ resolution \in Promises \ {p}
    <3> DEFINE job == [type |-> "thenable", promise |-> p, thenable |-> resolution]
    <3>1. /\ jobs' = Append(queue, job) /\ UNCHANGED <<promise, reactions>>
          /\ adopted' = [adopted EXCEPT ![p] = resolution]
      BY <2>1, <2>6 DEF Resolution
    <3>2. adopted'[p] = resolution /\ \A q \in Promises : q # p => adopted'[q] = adopted[q]
      BY <1>1, <3>1
    <3>3. \A q \in Promises : adopted[q] \in Promises => adopted'[q] = adopted[q]
      BY <1>1, <2>1, <3>2
    <3>4. \A i \in DOMAIN queue : Faithful(promise', adopted', queue[i])
      <4> SUFFICES ASSUME NEW i \in DOMAIN queue PROVE Faithful(promise', adopted', queue[i])
        OBVIOUS
      <4>1. queue[i] \in Jobs /\ Faithful(promise, adopted, queue[i])
        BY DEF FaithfulJobs
      <4>2. queue[i].type = "thenable" => queue[i].promise \in Promises /\ queue[i].promise # p
        BY <2>1, <4>1 DEF HasJob, ThenableFor, Jobs
      <4> QED
        BY <3>1, <3>2, <3>3, <4>1, <4>2, FaithfulLater
    <3>5. Faithful(promise', adopted', job) /\ job \in Jobs
      BY <2>6, <3>2 DEF Faithful, Jobs
    <3> HIDE DEF job
    <3>6. FaithfulJobs(promise', adopted', jobs')
      <4>1. \A i \in DOMAIN jobs' : (i \in DOMAIN queue /\ jobs'[i] = queue[i]) \/ jobs'[i] = job
        BY <3>1, <3>5
      <4> QED
        BY <3>4, <3>5, <4>1 DEF FaithfulJobs
    <3>7. FollowingReactions(adopted', reactions')
      <4>1. FollowingReactions(adopted', reactions)
        BY <3>3, FollowsLater
      <4> QED
        BY <3>1, <4>1
    <3>8. NotYet(promise', resolver', adopted')
      BY <2>1, <2>2, <3>1, <3>2 DEF NotYet, Pending
    <3>9. AdoptsOutcome'
      <4> SUFFICES ASSUME NEW q \in Promises, adopted'[q] # 0,
                          promise[q].state \in {"fulfilled", "rejected"}
                   PROVE  promise[q] = promise[adopted'[q]]
        BY <3>1 DEF AdoptsOutcome, Settled
      <4>1. q # p
        BY <2>1 DEF Pending
      <4> QED
        BY <3>2, <4>1 DEF AdoptsOutcome, Settled
    <3> QED
      BY <3>6, <3>7, <3>8, <3>9
  <2> QED
    BY <2>4, <2>5, <2>6
<1> QED
  BY <1>2, <1>3

(* The queue without its first job.                                         *)
LEMMA TailFaithful ==
    ASSUME PromiseInv, AdoptInv, jobs # <<>>
    PROVE  /\ Tail(jobs) \in Seq(Jobs) /\ Head(jobs) \in Jobs
           /\ FaithfulJobs(promise, adopted, Tail(jobs))
           /\ Faithful(promise, adopted, Head(jobs))
<1>1. jobs \in Seq(Jobs)
  BY DEF PromiseInv, PromiseTypeOK
<1>2. Tail(jobs) \in Seq(Jobs) /\ Head(jobs) \in Jobs /\ 1 \in DOMAIN jobs /\ Head(jobs) = jobs[1]
  BY <1>1
<1>3. \A i \in DOMAIN Tail(jobs) : i + 1 \in DOMAIN jobs /\ Tail(jobs)[i] = jobs[i + 1]
  BY <1>1
<1> QED
  BY <1>2, <1>3 DEF AdoptInv, FaithfulJobs

LEMMA ReactionAdopts ==
    ASSUME PromiseInv, PromiseInv', SettleInv, AdoptInv, jobs # <<>>, Reacts
    PROVE  AdoptInv'
<1>1. PICK isReject \in BOOLEAN, resolution \in Values \cup Promises :
        (isReject => resolution \in Values) /\ PromiseReactionJob(isReject, resolution)
  BY DEF Reacts
<1> DEFINE job == Head(jobs)
<1>2. /\ job.type = "reaction" /\ job.handler \notin Pairs
      /\ ResolveFunctionCall(job.pair, isReject, resolution, Tail(jobs))
  BY <1>1 DEF PromiseReactionJob
<1>3. /\ Tail(jobs) \in Seq(Jobs) /\ job \in Jobs
      /\ FaithfulJobs(promise, adopted, Tail(jobs)) /\ Faithful(promise, adopted, job)
  BY TailFaithful
<1>4. Ways(promise, resolver, Tail(jobs)) /\ KnownJob(resolver, job)
  BY <1>2, TailWays
<1> HIDE DEF job
<1>5. job.pair \in Pairs /\ job.pair[2] = 1
  BY <1>2, <1>3 DEF Jobs, Faithful
<1>6. PICK p \in Promises : job.pair = <<p, 1>>
  BY <1>5 DEF Pairs
<1>7. resolver[<<p, 1>>] # "none"
  BY <1>2, <1>4, <1>5, <1>6 DEF KnownJob
<1>8. ~HasJob(Tail(jobs), p) \/ resolver[<<p, 1>>] # "live"
  BY <1>4 DEF Ways, Way
<1> QED
  BY <1>1, <1>2, <1>3, <1>6, <1>7, <1>8, ResolvingAdopts DEF SettleInv

(* The second pair passes the outcome of the adopted promise on.            *)
LEMMA AdoptionAdopts ==
    ASSUME PromiseInv, PromiseInv', SettleInv, AdoptInv, jobs # <<>>, AdoptionJob
    PROVE  AdoptInv'
<1> USE DEF AdoptInv
<1> DEFINE job == Head(jobs)
<1>1. /\ job.type = "reaction" /\ job.handler \in Pairs
      /\ ResolveFunctionCall(job.handler, job.isReject, job.arg, Tail(jobs))
  BY DEF AdoptionJob
<1>2. /\ Tail(jobs) \in Seq(Jobs) /\ job \in Jobs
      /\ FaithfulJobs(promise, adopted, Tail(jobs)) /\ Faithful(promise, adopted, job)
  BY TailFaithful
<1>3. KnownJob(resolver, job)
  BY <1>1, TailWays
<1> HIDE DEF job
<1>4. job.pair = NoHandler /\ job.arg \in Values /\ job.isReject \in BOOLEAN
  BY <1>1, <1>2, PromiseConstants DEF Jobs, Handlers, Pairs, Promises
<1>5. PICK p \in Promises : /\ job.handler = <<p, 2>> /\ adopted[p] \in Promises
                            /\ Outcome(promise, adopted[p], job.isReject, job.arg)
  BY <1>1, <1>2, <1>4 DEF Faithful
<1>6. /\ resolver \in [Pairs -> {"none", "live", "used"}]
      /\ \A q \in Promises : <<q, 1>> \in Pairs /\ <<q, 2>> \in Pairs /\ <<q, 1>> # <<p, 2>>
  BY DEF PromiseInv, PromiseTypeOK, Pairs
<1>7. CASE resolver[<<p, 2>>] = "used"
  <2>1. jobs' = Tail(jobs) /\ UNCHANGED <<promise, reactions, resolver, adopted>>
    BY <1>1, <1>5, <1>7 DEF ResolveFunctionCall
  <2> QED
    BY <1>2, <2>1 DEF AdoptsOutcome, Settled
<1>8. CASE resolver[<<p, 2>>] # "used"
  <2>1. resolver[<<p, 2>>] = "live" /\ Pending(p)
    BY <1>1, <1>3, <1>4, <1>5, <1>6, <1>8 DEF KnownJob, SettleInv, OneWayToSettle
  <2>2. job.arg \notin Promises
    BY <1>4, PromiseConstants DEF Promises
  <2>3. /\ resolver' = [resolver EXCEPT ![<<p, 2>>] = "used"]
        /\ FulfillOrReject(p, job.arg, job.isReject, Tail(jobs)) /\ UNCHANGED adopted
    <3>1. job.handler[1] = p
      BY <1>5
    <3>2. /\ resolver' = [resolver EXCEPT ![<<p, 2>>] = "used"]
          /\ Resolution(p, job.isReject, job.arg, Tail(jobs))
      BY <1>1, <1>5, <1>8, <3>1 DEF ResolveFunctionCall
    <3> QED
      BY <2>2, <3>2 DEF Resolution
  <2>4. /\ FaithfulJobs(promise', adopted', jobs')
        /\ FollowingReactions(adopted', reactions') /\ AdoptsOutcome'
        /\ \A q \in Promises : promise'[q].state = "none" <=> promise[q].state = "none"
    BY <1>2, <1>4, <1>5, <2>1, <2>3, SettlingAdopts
  <2>5. \A q \in Promises : resolver'[<<q, 1>>] = resolver[<<q, 1>>]
    BY <1>6, <2>3
  <2>6. NotYet(promise', resolver', adopted')
    BY <2>3, <2>4, <2>5 DEF NotYet
  <2> QED
    BY <2>4, <2>6
<1> QED
  BY <1>7, <1>8

(* A reaction that follows p is put into its list or into the queue.        *)
LEMMA ReactAdopts ==
    ASSUME PromiseInv, NEW p \in Promises, Exists(p),
           NEW rd \in Reactions, Follows(adopted, p, rd),
           NEW queue \in Seq(Jobs), FaithfulJobs(promise, adopted, queue),
           FollowingReactions(adopted, reactions), React(p, rd, queue)
    PROVE  FaithfulJobs(promise, adopted, jobs') /\ FollowingReactions(adopted, reactions')
<1>1. /\ promise \in [Promises -> [state  : {"none", "pending", "fulfilled", "rejected"},
                                   result : Values \cup {Undefined}]]
      /\ reactions \in [Promises -> Seq(Reactions)]
  BY DEF PromiseInv, PromiseTypeOK
<1>2. CASE Pending(p)
  <2>1. reactions' = [reactions EXCEPT ![p] = Append(@, rd)] /\ jobs' = queue
    BY <1>2 DEF React
  <2>2. /\ \A q \in Promises : q # p => reactions'[q] = reactions[q]
        /\ reactions'[p] = Append(reactions[p], rd) /\ reactions[p] \in Seq(Reactions)
    BY <1>1, <2>1
  <2>3. \A i \in DOMAIN reactions'[p] :
          (i \in DOMAIN reactions[p] /\ reactions'[p][i] = reactions[p][i]) \/ reactions'[p][i] = rd
    BY <2>2
  <2> QED
    BY <2>1, <2>2, <2>3 DEF FollowingReactions
<1>3. CASE ~Pending(p)
  <2> DEFINE isReject == promise[p].state = "rejected"
             job == ReactionJob(rd, isReject, promise[p].result)
  <2>1. jobs' = Append(queue, job) /\ UNCHANGED reactions
    BY <1>3 DEF React
  <2>2. Settled(p) /\ promise[p].result \in Values /\ isReject \in BOOLEAN
    BY <1>1, <1>3 DEF Exists, Pending, Settled, PromiseInv, Sound
  <2>3. Outcome(promise, p, isReject, promise[p].result)
    BY <2>2 DEF Outcome, Settled
  <2>4. job \in Jobs /\ Faithful(promise, adopted, job)
    BY <2>2, <2>3, ReactionJobType, ReactionFaithful
  <2> HIDE DEF job
  <2>5. \A i \in DOMAIN jobs' : (i \in DOMAIN queue /\ jobs'[i] = queue[i]) \/ jobs'[i] = job
    BY <2>1, <2>4
  <2> QED
    BY <2>1, <2>4, <2>5 DEF FaithfulJobs
<1> QED
  BY <1>2, <1>3

LEMMA ThenableAdopts ==
    ASSUME PromiseInv, PromiseInv', AdoptInv, jobs # <<>>, PromiseResolveThenableJob
    PROVE  AdoptInv'
<1> USE DEF AdoptInv
<1> DEFINE job  == Head(jobs)
           pair == <<job.promise, 2>>
           rd   == [onFulfilled |-> pair, onRejected |-> pair, pair |-> NoHandler]
<1>1. /\ job.type = "thenable"
      /\ resolver' = [resolver EXCEPT ![pair] = "live"]
      /\ React(job.thenable, rd, Tail(jobs))
      /\ UNCHANGED <<promise, adopted>>
  BY DEF PromiseResolveThenableJob, PerformPromiseThen
<1>2. /\ Tail(jobs) \in Seq(Jobs) /\ job \in Jobs
      /\ FaithfulJobs(promise, adopted, Tail(jobs)) /\ Faithful(promise, adopted, job)
  BY TailFaithful
<1>3. Exists(job.thenable)
  BY <1>1, TailGood DEF GoodQueue, PromiseInv, PromiseTypeOK, Sound
<1> HIDE DEF job
<1>4. job.promise \in Promises /\ job.thenable \in Promises /\ adopted[job.promise] = job.thenable
  BY <1>1, <1>2 DEF Jobs, Faithful
<1>5. rd \in Reactions /\ Follows(adopted, job.thenable, rd)
  <2>1. rd \in Reactions
    BY <1>4 DEF Reactions, Pairs
  <2>2. NoHandler \notin Pairs
    BY PromiseConstants DEF Pairs, Promises
  <2> QED
    BY <1>4, <2>1, <2>2 DEF Follows
<1> HIDE DEF rd
<1>6. FaithfulJobs(promise, adopted, jobs') /\ FollowingReactions(adopted, reactions')
  BY <1>1, <1>2, <1>3, <1>4, <1>5, ReactAdopts
<1>7. \A q \in Promises : resolver'[<<q, 1>>] = resolver[<<q, 1>>]
  <2>1. \A q \in Promises : <<q, 1>> \in Pairs /\ <<q, 1>> # pair
    BY DEF Pairs
  <2>2. resolver \in [Pairs -> {"none", "live", "used"}]
    BY DEF PromiseInv, PromiseTypeOK
  <2> QED
    BY <1>1, <2>1, <2>2
<1>8. NotYet(promise', resolver', adopted') /\ AdoptsOutcome'
  BY <1>1, <1>7 DEF NotYet, AdoptsOutcome, Settled
<1> QED
  BY <1>1, <1>6, <1>8

(* A promise is made, with or without a reaction somewhere.                 *)
LEMMA MakingAdopts ==
    ASSUME PromiseInv, PromiseInv', AdoptInv, NEW p \in Promises, promise[p].state = "none",
           \A q \in Promises : q # p => promise'[q] = promise[q],
           NEW flag, resolver' = [resolver EXCEPT ![<<p, 1>>] = flag],
           UNCHANGED adopted, NEW q2 \in Seq(Jobs), FaithfulJobs(promise, adopted, q2),
           NEW rs, FollowingReactions(adopted, rs), jobs' = q2, reactions' = rs
    PROVE  AdoptInv'
<1>1. \A q \in Promises : promise[q].state \in {"fulfilled", "rejected"} => promise'[q] = promise[q]
  OBVIOUS
<1>2. FaithfulJobs(promise', adopted', jobs')
  <2>1. \A i \in DOMAIN q2 : q2[i] \in Jobs /\ Faithful(promise, adopted, q2[i])
    BY DEF FaithfulJobs
  <2>2. \A i \in DOMAIN q2 : Faithful(promise', adopted, q2[i])
    BY <1>1, <2>1, FaithfulLater
  <2> QED
    BY <2>2 DEF FaithfulJobs
<1>3. FollowingReactions(adopted', reactions')
  OBVIOUS
<1>4. adopted[p] = 0
  BY DEF AdoptInv, NotYet
<1>5. NotYet(promise', resolver', adopted')
  <2>1. \A q \in Promises : q # p => resolver'[<<q, 1>>] = resolver[<<q, 1>>]
    <3>1. \A q \in Promises : <<q, 1>> \in Pairs
      BY DEF Pairs
    <3> QED
      BY <3>1 DEF PromiseInv, PromiseTypeOK
  <2> QED
    BY <1>4, <2>1 DEF AdoptInv, NotYet
<1>6. AdoptsOutcome'
  <2> SUFFICES ASSUME NEW q \in Promises, adopted[q] # 0,
                      promise'[q].state \in {"fulfilled", "rejected"}
               PROVE  promise'[q] = promise'[adopted[q]]
    BY DEF AdoptsOutcome, Settled
  <2>1. q # p /\ adopted[q] \in Promises
    BY <1>4 DEF PromiseInv, PromiseTypeOK
  <2>2. promise[q] = promise[adopted[q]] /\ promise'[q] = promise[q]
    BY <2>1 DEF AdoptInv, AdoptsOutcome, Settled
  <2> QED
    BY <1>1, <2>1, <2>2
<1> QED
  BY <1>2, <1>3, <1>5, <1>6 DEF AdoptInv

LEMMA ConstructAdopts ==
    ASSUME PromiseInv, PromiseInv', AdoptInv, Constructs
    PROVE  AdoptInv'
<1>1. PICK p \in Promises, thrown \in Values \cup {Undefined} : Fresh(p) /\ Construct(p, thrown)
  BY DEF Constructs
<1> DEFINE flag == IF thrown # Undefined THEN "used" ELSE "live"
<1>2. /\ resolver' = [resolver EXCEPT ![<<p, 1>>] = flag]
      /\ UNCHANGED <<reactions, jobs, adopted>>
      /\ promise[p].state = "none"
      /\ \A q \in Promises : q # p => promise'[q] = promise[q]
  BY <1>1 DEF Construct, Fresh, Exists, PromiseInv, PromiseTypeOK
<1> HIDE DEF flag
<1>3. jobs \in Seq(Jobs) /\ FaithfulJobs(promise, adopted, jobs) /\ FollowingReactions(adopted, reactions)
  BY DEF AdoptInv, PromiseInv, PromiseTypeOK
<1> QED
  BY <1>2, <1>3, MakingAdopts

LEMMA ThenAdopts ==
    ASSUME PromiseInv, PromiseInv', AdoptInv, Thens
    PROVE  AdoptInv'
<1>1. PICK p \in Promises, d \in Promises, f \in Handlers, g \in Handlers : Then(p, d, f, g)
  BY DEF Thens
<1> DEFINE rd == [onFulfilled |-> f, onRejected |-> g, pair |-> <<d, 1>>]
<1>2. /\ Exists(p) /\ promise[d].state = "none"
      /\ React(p, rd, jobs)
      /\ resolver' = [resolver EXCEPT ![<<d, 1>>] = "live"]
      /\ UNCHANGED adopted
      /\ \A q \in Promises : q # d => promise'[q] = promise[q]
  BY <1>1 DEF Then, PerformPromiseThen, Fresh, Exists, PromiseInv, PromiseTypeOK
<1>3. <<d, 1>> \in Pairs /\ NoHandler \notin Pairs
  BY PromiseConstants DEF Pairs, Promises
<1>4. rd \in Reactions /\ Follows(adopted, p, rd)
  BY <1>3 DEF Reactions, Follows
<1> HIDE DEF rd
<1>5. /\ jobs \in Seq(Jobs) /\ jobs' \in Seq(Jobs)
      /\ FaithfulJobs(promise, adopted, jobs) /\ FollowingReactions(adopted, reactions)
  BY DEF AdoptInv, PromiseInv, PromiseTypeOK
<1>6. FaithfulJobs(promise, adopted, jobs') /\ FollowingReactions(adopted, reactions')
  BY <1>2, <1>4, <1>5, ReactAdopts
<1> QED
  BY <1>2, <1>5, <1>6, MakingAdopts

LEMMA NextAdopts ==
    ASSUME OneWayInv, OneWayInv', AdoptInv, [Next]_vars
    PROVE  AdoptInv'
<1>1. PromiseInv /\ PromiseInv' /\ SettleInv
  BY DEF OneWayInv, FetchInv, PromiseInv, TypeOK
<1>2. CASE UNCHANGED pvars
  BY <1>2 DEF pvars, AdoptInv, AdoptsOutcome, Settled
<1>3. CASE Resolves
  <2>1. PICK p \in Promises, isReject \in BOOLEAN, resolution \in Values \cup Promises :
          /\ isReject => resolution \in Values
          /\ resolver[<<p, 1>>] # "none"
          /\ ResolveFunctionCall(<<p, 1>>, isReject, resolution, jobs)
    BY <1>3 DEF Resolves
  <2>2. jobs \in Seq(Jobs) /\ FaithfulJobs(promise, adopted, jobs)
    BY <1>1 DEF AdoptInv, PromiseInv, PromiseTypeOK
  <2>3. ~HasJob(jobs, p) \/ resolver[<<p, 1>>] # "live"
    BY <1>1, WaysIsOneWay DEF SettleInv, Ways, Way
  <2> QED
    BY <1>1, <2>1, <2>2, <2>3, ResolvingAdopts DEF SettleInv
<1> QED
  BY <1>1, <1>2, <1>3, PromiseSteps, ConstructAdopts, ThenAdopts, ReactionAdopts, AdoptionAdopts,
     ThenableAdopts

LEMMA InitAdopts == Init => AdoptInv
  BY DEF Init, PromiseInit, AdoptInv, FaithfulJobs, FollowingReactions, NotYet, AdoptsOutcome

(* A promise resolved with another promise ends with the state and the      *)
(* result of that one, however long the chain of promises and whatever else *)
(* calls its resolving functions in the meantime.                           *)
THEOREM AdoptionFaithful == Spec => []AdoptsOutcome
<1>1. Spec => []OneWayInv
  BY InitOneWay, NextOneWay, PTL DEF Spec
<1>2. AdoptInv => AdoptsOutcome
  BY DEF AdoptInv
<1> QED
  BY <1>1, <1>2, InitAdopts, NextAdopts, PTL DEF Spec

-----------------------------------------------------------------------------
(* Order: the invariant.                                                    *)

(* The job and the reaction that run the handler of the then() that made d. *)
RunsFor(job, d) == job.type = "reaction" /\ job.pair = <<d, 1>>
StandsFor(rd, d) == rd.pair = <<d, 1>>

Queued(q, d) == \E k \in DOMAIN q : RunsFor(q[k], d)
QueuedBefore(q, k, d) == \E l \in DOMAIN q : l < k /\ RunsFor(q[l], d)

(* In the queue and among what has run, then() calls of a promise keep      *)
(* their order.                                                             *)
InQueueOrder(od, q, rn) ==
    \A p \in Promises : \A i, j \in DOMAIN od[p] : i < j =>
      /\ \A k \in DOMAIN q : RunsFor(q[k], od[p][j])
                               => od[p][i] \in rn \/ QueuedBefore(q, k, od[p][i])
      /\ od[p][j] \in rn => od[p][i] \in rn

InListOrder(od, rs) ==
    \A p \in Promises : \A i, j \in DOMAIN od[p] : i < j =>
      \A k \in DOMAIN rs[p] : StandsFor(rs[p][k], od[p][j])
        => \E l \in DOMAIN rs[p] : l < k /\ StandsFor(rs[p][l], od[p][i])

(* then() makes a new promise, of a promise there is.                       *)
MadeOnce(pr, od) ==
    /\ \A p \in Promises : pr[p].state = "none" => od[p] = <<>>
    /\ \A p \in Promises : \A i \in DOMAIN od[p] : pr[od[p][i]].state # "none"
    /\ \A p, q \in Promises : \A i \in DOMAIN od[p], j \in DOMAIN od[q] :
         od[p][i] = od[q][j] => p = q /\ i = j

Listed(od, rs) ==
    \A p \in Promises : \A k \in DOMAIN rs[p] :
      rs[p][k].pair \in Pairs => \E i \in DOMAIN od[p] : StandsFor(rs[p][k], od[p][i])

NoneNew(pr, q, rn) ==
    \A d \in Promises : pr[d].state = "none" => d \notin rn /\ ~Queued(q, d)

(* No reaction is lost: it is listed until the promise is settled, and then *)
(* it has run or is queued.                                                 *)
NoneLost(pr, rs, q, od, rn) ==
    \A p \in Promises : \A i \in DOMAIN od[p] :
      /\ pr[p].state = "pending" => \E k \in DOMAIN rs[p] : StandsFor(rs[p][k], od[p][i])
      /\ pr[p].state \in {"fulfilled", "rejected"} => od[p][i] \in rn \/ Queued(q, od[p][i])

Ordered(pr, rs, q, od, rn) ==
    /\ InQueueOrder(od, q, rn) /\ InListOrder(od, rs) /\ MadeOnce(pr, od)
    /\ Listed(od, rs) /\ NoneNew(pr, q, rn) /\ NoneLost(pr, rs, q, od, rn)

Sequences(rs, q, od) ==
    /\ rs \in [Promises -> Seq(Reactions)] /\ q \in Seq(Jobs) /\ od \in [Promises -> Seq(Promises)]

OrderInv == Ordered(promise, reactions, jobs, order, ran)

LEMMA OrderTypes ==
    ASSUME PromiseInv
    PROVE  /\ Sequences(reactions, jobs, order)
           /\ promise \in [Promises -> [state  : {"none", "pending", "fulfilled", "rejected"},
                                        result : Values \cup {Undefined}]]
           /\ \A p \in Promises : \A i \in DOMAIN order[p] : order[p][i] \in Promises
           /\ \A p \in Promises : DOMAIN order[p] \subseteq Nat
           /\ \A p \in Promises : DOMAIN reactions[p] \subseteq Nat
  BY DEF PromiseInv, PromiseTypeOK, Sequences

(* The queue without its first job: a reaction that runs is done, any other *)
(* job is not the reaction of a then().                                     *)
LEMMA PopOrdered ==
    ASSUME PromiseInv, OrderInv, jobs # <<>>, NEW rn, ran \subseteq rn,
           \A d \in Promises : RunsFor(Head(jobs), d) => d \in rn,
           \A d \in rn : d \in ran \/ RunsFor(Head(jobs), d)
    PROVE  Ordered(promise, reactions, Tail(jobs), order, rn)
<1> DEFINE t == Tail(jobs)
<1>1. jobs \in Seq(Jobs) /\ \A p \in Promises : \A i \in DOMAIN order[p] : order[p][i] \in Promises
  BY OrderTypes DEF Sequences
<1>2. 1 \in DOMAIN jobs /\ Head(jobs) = jobs[1] /\ DOMAIN jobs \subseteq Nat
  BY <1>1
<1>3. \A k \in DOMAIN t : k \in Nat /\ k + 1 \in DOMAIN jobs /\ t[k] = jobs[k + 1]
  BY <1>1
<1>4. \A k \in DOMAIN jobs : k = 1 \/ (k \in Nat /\ k - 1 \in DOMAIN t /\ t[k - 1] = jobs[k])
  BY <1>1
<1> HIDE DEF t
<1>5. \A d \in Promises : Queued(jobs, d) => d \in rn \/ Queued(t, d)
  BY <1>2, <1>4 DEF Queued
<1>6. \A d \in Promises : Queued(t, d) => Queued(jobs, d)
  BY <1>3 DEF Queued
<1>7. \A d \in Promises : \A k \in DOMAIN t :
        QueuedBefore(jobs, k + 1, d) => d \in rn \/ QueuedBefore(t, k, d)
  <2> SUFFICES ASSUME NEW d \in Promises, NEW k \in DOMAIN t, NEW l \in DOMAIN jobs,
                      l < k + 1, RunsFor(jobs[l], d), d \notin rn
               PROVE  QueuedBefore(t, k, d)
    BY DEF QueuedBefore
  <2>1. l # 1
    BY <1>2
  <2>2. l \in Nat /\ k \in Nat /\ l - 1 \in DOMAIN t /\ t[l - 1] = jobs[l]
    BY <1>3, <1>4, <2>1
  <2>3. l - 1 < k
    BY <2>2
  <2> QED
    BY <2>2, <2>3 DEF QueuedBefore
<1>8. InQueueOrder(order, t, rn)
  <2> SUFFICES ASSUME NEW p \in Promises, NEW i \in DOMAIN order[p], NEW j \in DOMAIN order[p], i < j
               PROVE  /\ \A k \in DOMAIN t : RunsFor(t[k], order[p][j])
                           => order[p][i] \in rn \/ QueuedBefore(t, k, order[p][i])
                      /\ order[p][j] \in rn => order[p][i] \in rn
    BY DEF InQueueOrder
  <2>1. /\ \A k \in DOMAIN jobs : RunsFor(jobs[k], order[p][j])
             => order[p][i] \in ran \/ QueuedBefore(jobs, k, order[p][i])
        /\ order[p][j] \in ran => order[p][i] \in ran
        /\ order[p][i] \in Promises
    BY <1>1 DEF OrderInv, Ordered, InQueueOrder
  <2>2. ASSUME NEW k \in DOMAIN t, RunsFor(t[k], order[p][j])
        PROVE  order[p][i] \in rn \/ QueuedBefore(t, k, order[p][i])
    BY <1>3, <1>7, <2>1, <2>2
  <2>3. ASSUME order[p][j] \in rn
        PROVE  order[p][i] \in rn
    <3>1. CASE order[p][j] \in ran
      BY <2>1, <3>1
    <3>2. CASE RunsFor(jobs[1], order[p][j])
      <4>1. order[p][i] \in ran \/ QueuedBefore(jobs, 1, order[p][i])
        BY <1>2, <2>1, <3>2
      <4>2. ~QueuedBefore(jobs, 1, order[p][i])
        BY <1>1 DEF QueuedBefore
      <4> QED
        BY <4>1, <4>2
    <3> QED
      BY <1>2, <2>3, <3>1, <3>2
  <2> QED
    BY <2>2, <2>3
<1>9. NoneNew(promise, t, rn)
  <2>1. \A d \in Promises : RunsFor(Head(jobs), d) => Queued(jobs, d)
    BY <1>2 DEF Queued
  <2> QED
    BY <1>6, <2>1 DEF OrderInv, Ordered, NoneNew
<1>10. NoneLost(promise, reactions, t, order, rn)
  BY <1>1, <1>5 DEF OrderInv, Ordered, NoneLost
<1> QED
  BY <1>8, <1>9, <1>10 DEF OrderInv, Ordered, t

(* A promise is settled: its list goes to the end of the queue.             *)
LEMMA SettlingOrders ==
    ASSUME PromiseInv, NEW p \in Promises, Pending(p), NEW queue \in Seq(Jobs), NEW rn,
           Ordered(promise, reactions, queue, order, rn),
           NEW value \in Values, NEW isReject \in BOOLEAN,
           FulfillOrReject(p, value, isReject, queue)
    PROVE  Ordered(promise', reactions', jobs', order, rn)
<1> DEFINE list == reactions[p]
           more == [i \in DOMAIN list |-> ReactionJob(list[i], isReject, value)]
           n    == Len(queue)
<1>1. /\ jobs' = queue \o more
      /\ promise' = [promise EXCEPT ![p] = [state  |-> IF isReject THEN "rejected" ELSE "fulfilled",
                                            result |-> value]]
      /\ reactions' = [reactions EXCEPT ![p] = <<>>]
  BY DEF FulfillOrReject
<1>2. /\ promise \in [Promises -> [state  : {"none", "pending", "fulfilled", "rejected"},
                                   result : Values \cup {Undefined}]]
      /\ reactions \in [Promises -> Seq(Reactions)]
      /\ \A q \in Promises : \A i \in DOMAIN order[q] : order[q][i] \in Promises
      /\ list \in Seq(Reactions)
  BY OrderTypes DEF Sequences
<1>3. /\ \A q \in Promises : q # p => promise'[q] = promise[q]
      /\ promise'[p].state \in {"fulfilled", "rejected"}
      /\ \A q \in Promises : reactions'[q] = IF q = p THEN <<>> ELSE reactions[q]
  BY <1>1, <1>2
<1>4. /\ DOMAIN more = DOMAIN list /\ more \in Seq(Jobs)
      /\ \A i \in DOMAIN list, d \in Promises : RunsFor(more[i], d) <=> StandsFor(list[i], d)
  <2> HIDE DEF list
  <2>1. /\ list \in Seq(Reactions) /\ DOMAIN list = 1 .. Len(list)
        /\ \A i \in 1 .. Len(list) : list[i] \in Reactions
    BY <1>2
  <2>2. \A i \in 1 .. Len(list) : ReactionJob(list[i], isReject, value) \in Jobs
    BY <2>1, ReactionJobType
  <2>3. more \in Seq(Jobs)
    BY <2>1, <2>2
  <2>4. \A rd : ReactionJob(rd, isReject, value).type = "reaction"
                /\ ReactionJob(rd, isReject, value).pair = rd.pair
    BY DEF ReactionJob
  <2> QED
    BY <2>3, <2>4 DEF RunsFor, StandsFor
<1> HIDE DEF more, list
<1>5. /\ n \in Nat /\ DOMAIN queue = 1 .. n /\ DOMAIN list = 1 .. Len(list) /\ Len(list) \in Nat
      /\ DOMAIN jobs' = 1 .. n + Len(list)
      /\ \A k \in DOMAIN queue : jobs'[k] = queue[k]
      /\ \A k \in DOMAIN list : jobs'[n + k] = more[k]
      /\ \A k \in DOMAIN jobs' : k \in DOMAIN queue \/ (k - n \in DOMAIN list /\ jobs'[k] = more[k - n])
  <2>1. n \in Nat /\ DOMAIN queue = 1 .. n /\ DOMAIN list = 1 .. Len(list) /\ Len(list) \in Nat
    BY <1>2
  <2>2. more \in Seq(Jobs) /\ DOMAIN more = 1 .. Len(list)
    BY <1>4, <2>1
  <2>3. Len(more) = Len(list)
    BY <2>1, <2>2
  <2>4. DOMAIN jobs' = 1 .. n + Len(list)
    <3>1. jobs' \in Seq(Jobs) /\ Len(jobs') = n + Len(more)
      BY <1>1, <2>2
    <3> QED
      BY <2>3, <3>1
  <2>5. \A k \in 1 .. n : jobs'[k] = queue[k]
    BY <1>1, <2>2
  <2>6. \A k \in 1 .. n + Len(list) : k > n => jobs'[k] = more[k - n]
    BY <1>1, <2>2, <2>3
  <2> HIDE DEF n
  <2> QED
    BY <2>1, <2>4, <2>5, <2>6
<1> HIDE DEF n
<1>6. \A d \in Promises : \A k \in DOMAIN queue : QueuedBefore(queue, k, d) => QueuedBefore(jobs', k, d)
  BY <1>5 DEF QueuedBefore
<1>7. \A d \in Promises :
        Queued(jobs', d) <=> Queued(queue, d) \/ \E k \in DOMAIN list : StandsFor(list[k], d)
  <2> SUFFICES ASSUME NEW d \in Promises
               PROVE  Queued(jobs', d) <=> Queued(queue, d) \/ \E k \in DOMAIN list : StandsFor(list[k], d)
    OBVIOUS
  <2>1. \A k \in DOMAIN queue : k \in DOMAIN jobs'
    BY <1>5
  <2>2. \A k \in DOMAIN list : n + k \in DOMAIN jobs'
    BY <1>5
  <2> QED
    BY <1>4, <1>5, <2>1, <2>2 DEF Queued
<1>8. ASSUME NEW d \in Promises, NEW k \in DOMAIN list, StandsFor(list[k], d)
      PROVE  \E i \in DOMAIN order[p] : order[p][i] = d
  <2>1. list[k].pair = <<d, 1>> /\ <<d, 1>> \in Pairs
    BY <1>8 DEF StandsFor, Pairs
  <2>2. PICK i \in DOMAIN order[p] : list[k].pair = <<order[p][i], 1>>
    BY <2>1 DEF Ordered, Listed, list, StandsFor
  <2> QED
    BY <2>1, <2>2
<1>9. InQueueOrder(order, jobs', rn)
  <2> SUFFICES ASSUME NEW q \in Promises, NEW i \in DOMAIN order[q], NEW j \in DOMAIN order[q], i < j
               PROVE  /\ \A k \in DOMAIN jobs' : RunsFor(jobs'[k], order[q][j])
                           => order[q][i] \in rn \/ QueuedBefore(jobs', k, order[q][i])
                      /\ order[q][j] \in rn => order[q][i] \in rn
    BY DEF InQueueOrder
  <2>1. order[q][j] \in rn => order[q][i] \in rn
    BY DEF Ordered, InQueueOrder
  <2>2. order[q][i] \in Promises /\ order[q][j] \in Promises
    BY <1>2
  <2>3. ASSUME NEW k \in DOMAIN jobs', RunsFor(jobs'[k], order[q][j])
        PROVE  order[q][i] \in rn \/ QueuedBefore(jobs', k, order[q][i])
    <3>1. CASE k \in DOMAIN queue
      <4>1. order[q][i] \in rn \/ QueuedBefore(queue, k, order[q][i])
        BY <1>5, <2>3, <3>1 DEF Ordered, InQueueOrder
      <4> QED
        BY <1>6, <2>2, <3>1, <4>1
    <3>2. CASE k - n \in DOMAIN list /\ jobs'[k] = more[k - n]
      <4>1. StandsFor(list[k - n], order[q][j])
        BY <1>4, <2>2, <2>3, <3>2
      <4>2. \E x \in DOMAIN order[p] : order[p][x] = order[q][j]
        BY <1>8, <2>2, <3>2, <4>1
      <4>3. q = p
        BY <4>2 DEF Ordered, MadeOnce
      <4>4. PICK l \in DOMAIN list : l < k - n /\ StandsFor(list[l], order[q][i])
        BY <3>2, <4>1, <4>3 DEF Ordered, InListOrder, list
      <4>5. n + l \in DOMAIN jobs' /\ n + l < k /\ RunsFor(jobs'[n + l], order[q][i])
        BY <1>4, <1>5, <2>2, <4>4
      <4> QED
        BY <4>5 DEF QueuedBefore
    <3> QED
      BY <1>5, <3>1, <3>2
  <2> QED
    BY <2>1, <2>3
<1>10. InListOrder(order, reactions') /\ Listed(order, reactions')
  BY <1>3 DEF Ordered, InListOrder, Listed
<1>11. \A q \in Promises : promise'[q].state = "none" <=> promise[q].state = "none"
  BY <1>3 DEF Pending
<1>12. MadeOnce(promise', order)
  BY <1>2, <1>11 DEF Ordered, MadeOnce
<1>13. NoneNew(promise', jobs', rn)
  <2>1. \A d \in Promises : Queued(jobs', d) /\ ~Queued(queue, d) => promise[d].state # "none"
    BY <1>7, <1>8 DEF Ordered, MadeOnce
  <2> QED
    BY <1>11, <2>1 DEF Ordered, NoneNew
<1>14. NoneLost(promise', reactions', jobs', order, rn)
  <2> SUFFICES ASSUME NEW q \in Promises, NEW i \in DOMAIN order[q]
               PROVE  /\ promise'[q].state = "pending"
                           => \E k \in DOMAIN reactions'[q] : StandsFor(reactions'[q][k], order[q][i])
                      /\ promise'[q].state \in {"fulfilled", "rejected"}
                           => order[q][i] \in rn \/ Queued(jobs', order[q][i])
    BY DEF NoneLost
  <2>1. order[q][i] \in Promises
    BY <1>2
  <2>2. CASE q # p
    BY <1>3, <1>7, <2>1, <2>2 DEF Ordered, NoneLost
  <2>3. CASE q = p
    <3>1. \E k \in DOMAIN list : StandsFor(list[k], order[q][i])
      BY <2>3 DEF Ordered, NoneLost, Pending, list
    <3> QED
      BY <1>3, <1>7, <2>1, <2>3, <3>1
  <2> QED
    BY <2>2, <2>3
<1> QED
  BY <1>9, <1>10, <1>12, <1>13, <1>14 DEF Ordered

(* A job that is no reaction of a then() changes nothing.                   *)
LEMMA AppendOrders ==
    ASSUME NEW pr, NEW rs, NEW od \in [Promises -> Seq(Promises)], NEW rn,
           NEW queue \in Seq(Jobs), Ordered(pr, rs, queue, od, rn),
           NEW job \in Jobs, \A d \in Promises : ~RunsFor(job, d)
    PROVE  Ordered(pr, rs, Append(queue, job), od, rn)
<1> DEFINE longer == Append(queue, job)
<1>1. /\ \A k \in DOMAIN queue : k \in DOMAIN longer /\ longer[k] = queue[k]
      /\ \A k \in DOMAIN longer : k \in DOMAIN queue \/ longer[k] = job
  OBVIOUS
<1> HIDE DEF longer
<1>2. \A d \in Promises : Queued(longer, d) <=> Queued(queue, d)
  BY <1>1 DEF Queued
<1>3. \A d \in Promises : \A k : QueuedBefore(queue, k, d) => QueuedBefore(longer, k, d)
  BY <1>1 DEF QueuedBefore
<1>4. \A p \in Promises : \A i \in DOMAIN od[p] : od[p][i] \in Promises
  OBVIOUS
<1>5. \A d \in Promises : \A k \in DOMAIN longer :
        RunsFor(longer[k], d) => k \in DOMAIN queue /\ RunsFor(queue[k], d)
  BY <1>1
<1>6. InQueueOrder(od, longer, rn)
  BY <1>3, <1>4, <1>5 DEF Ordered, InQueueOrder
<1>7. NoneNew(pr, longer, rn) /\ NoneLost(pr, rs, longer, od, rn)
  BY <1>2, <1>4 DEF Ordered, NoneNew, NoneLost
<1> QED
  BY <1>6, <1>7 DEF Ordered, longer

(* A resolving function is called.                                          *)
LEMMA ResolvingOrders ==
    ASSUME PromiseInv, OneWayToSettle, NEW r \in Pairs, resolver[r] # "none",
           NEW isReject \in BOOLEAN, NEW resolution \in Values \cup Promises,
           isReject => resolution \in Values, NEW queue \in Seq(Jobs), NEW rn,
           Ordered(promise, reactions, queue, order, rn),
           ResolveFunctionCall(r, isReject, resolution, queue)
    PROVE  Ordered(promise', reactions', jobs', order, rn)
<1>1. CASE resolver[r] = "used"
  BY <1>1 DEF ResolveFunctionCall
<1>2. CASE resolver[r] # "used"
  <2> DEFINE p == r[1]
  <2>1. p \in Promises /\ r = <<p, r[2]>> /\ r[2] \in {1, 2}
    BY DEF Pairs
  <2>2. resolver[r] = "live" /\ resolver \in [Pairs -> {"none", "live", "used"}]
    BY <1>2 DEF PromiseInv, PromiseTypeOK
  <2>3. Pending(p)
    <3>1. r = <<p, 1>> \/ r = <<p, 2>>
      BY <2>1
    <3> HIDE DEF p
    <3> QED
      BY <2>1, <2>2, <3>1 DEF OneWayToSettle
  <2>4. Resolution(p, isReject, resolution, queue)
    BY <1>2 DEF ResolveFunctionCall
  <2> HIDE DEF p
  <2>5. CASE isReject \/ resolution \notin Promises
    <3>1. resolution \in Values /\ FulfillOrReject(p, resolution, isReject, queue)
      BY <2>1, <2>4, <2>5 DEF Resolution
    <3> QED
      BY <2>1, <2>3, <3>1, SettlingOrders
  <2>6. CASE ~isReject /\ resolution = p
    <3>1. TypeError \in Values /\ FulfillOrReject(p, TypeError, TRUE, queue)
      BY <2>1, <2>4, <2>6, PromiseConstants DEF Resolution
    <3> QED
      BY <2>1, <2>3, <3>1, SettlingOrders
  <2>7. CASE ~isReject /\ resolution \in Promises \ {p}
    <3> DEFINE job == [type |-> "thenable", promise |-> p, thenable |-> resolution]
    <3>1. jobs' = Append(queue, job) /\ UNCHANGED <<promise, reactions>>
      BY <2>4, <2>7 DEF Resolution
    <3>2. job \in Jobs /\ \A d \in Promises : ~RunsFor(job, d)
      BY <2>1, <2>7 DEF Jobs, RunsFor
    <3>3. order \in [Promises -> Seq(Promises)]
      BY DEF PromiseInv, PromiseTypeOK
    <3> HIDE DEF job
    <3> QED
      BY <3>1, <3>2, <3>3, AppendOrders
  <2> QED
    BY <2>5, <2>6, <2>7
<1> QED
  BY <1>1, <1>2

(* The handler of a then() has run, and settles the promise it made.        *)
LEMMA ReactionOrders ==
    ASSUME PromiseInv, SettleInv, AdoptInv, OrderInv, jobs # <<>>, Reacts
    PROVE  OrderInv'
<1>1. PICK isReject \in BOOLEAN, resolution \in Values \cup Promises :
        (isReject => resolution \in Values) /\ PromiseReactionJob(isReject, resolution)
  BY DEF Reacts
<1> DEFINE job == Head(jobs)
<1>2. /\ job.type = "reaction" /\ job.handler \notin Pairs
      /\ ResolveFunctionCall(job.pair, isReject, resolution, Tail(jobs))
      /\ ran' = ran \cup {job.pair[1]} /\ UNCHANGED order
  BY <1>1 DEF PromiseReactionJob
<1>3. Tail(jobs) \in Seq(Jobs) /\ job \in Jobs /\ Faithful(promise, adopted, job)
  BY TailFaithful
<1>4. KnownJob(resolver, job)
  BY <1>2, TailWays
<1> HIDE DEF job
<1>5. job.pair \in Pairs /\ job.pair[2] = 1
  BY <1>2, <1>3 DEF Jobs, Faithful
<1>6. PICK p \in Promises : job.pair = <<p, 1>>
  BY <1>5 DEF Pairs
<1>7. resolver[job.pair] # "none"
  BY <1>2, <1>4, <1>5 DEF KnownJob
<1>8. /\ ran' = ran \cup {p}
      /\ \A d \in Promises : RunsFor(job, d) <=> d = p
  BY <1>2, <1>6 DEF RunsFor
<1>9. Ordered(promise, reactions, Tail(jobs), order, ran')
  <2>1. ran \subseteq ran' /\ \A d \in ran' : d \in ran \/ RunsFor(job, d)
    BY <1>8
  <2>2. \A d \in Promises : RunsFor(job, d) => d \in ran'
    BY <1>8
  <2> QED
    BY <2>1, <2>2, PopOrdered DEF job
<1>10. Ordered(promise', reactions', jobs', order, ran')
  BY <1>1, <1>2, <1>3, <1>5, <1>7, <1>9, ResolvingOrders DEF SettleInv
<1> QED
  BY <1>2, <1>10 DEF OrderInv

LEMMA AdoptionOrders ==
    ASSUME PromiseInv, SettleInv, AdoptInv, OrderInv, jobs # <<>>, AdoptionJob
    PROVE  OrderInv'
<1> DEFINE job == Head(jobs)
<1>1. /\ job.type = "reaction" /\ job.handler \in Pairs
      /\ ResolveFunctionCall(job.handler, job.isReject, job.arg, Tail(jobs))
      /\ UNCHANGED <<order, ran>>
  BY DEF AdoptionJob
<1>2. Tail(jobs) \in Seq(Jobs) /\ job \in Jobs
  BY TailFaithful
<1>3. KnownJob(resolver, job)
  BY <1>1, TailWays
<1> HIDE DEF job
<1>4. job.pair = NoHandler /\ job.arg \in Values /\ job.isReject \in BOOLEAN /\ NoHandler \notin Pairs
  BY <1>1, <1>2, PromiseConstants DEF Jobs, Handlers, Pairs, Promises
<1>5. resolver[job.handler] # "none"
  BY <1>1, <1>3, <1>4 DEF KnownJob
<1>6. \A d \in Promises : ~RunsFor(job, d)
  BY <1>4 DEF RunsFor, Pairs
<1>7. Ordered(promise, reactions, Tail(jobs), order, ran)
  BY <1>6, PopOrdered DEF job
<1>8. Ordered(promise', reactions', jobs', order, ran)
  BY <1>1, <1>2, <1>4, <1>5, <1>7, ResolvingOrders DEF SettleInv
<1> QED
  BY <1>1, <1>8 DEF OrderInv

(* The second pair is registered on the adopted promise.                    *)
LEMMA ThenableOrders ==
    ASSUME PromiseInv, PromiseInv', AdoptInv, OrderInv, jobs # <<>>, PromiseResolveThenableJob
    PROVE  OrderInv'
<1> DEFINE job  == Head(jobs)
           pair == <<job.promise, 2>>
           rd   == [onFulfilled |-> pair, onRejected |-> pair, pair |-> NoHandler]
           q    == job.thenable
<1>1. job.type = "thenable" /\ React(q, rd, Tail(jobs)) /\ UNCHANGED <<promise, order, ran>>
  BY DEF PromiseResolveThenableJob, PerformPromiseThen
<1>2. Tail(jobs) \in Seq(Jobs) /\ job \in Jobs
  BY TailFaithful
<1>3. q \in Promises /\ pair \in Pairs /\ NoHandler \notin Pairs
  BY <1>1, <1>2, PromiseConstants DEF Jobs, Pairs, Promises
<1>4. rd \in Reactions /\ \A d \in Promises : ~StandsFor(rd, d) /\ rd.pair \notin Pairs
  BY <1>3 DEF Reactions, StandsFor, Pairs
<1>5. Ordered(promise, reactions, Tail(jobs), order, ran)
  <2>1. \A d \in Promises : ~RunsFor(job, d)
    BY <1>1 DEF RunsFor
  <2> QED
    BY <2>1, PopOrdered
<1>6. /\ reactions \in [Promises -> Seq(Reactions)] /\ order \in [Promises -> Seq(Promises)]
      /\ jobs' \in Seq(Jobs) /\ \A p \in Promises : \A i \in DOMAIN order[p] : order[p][i] \in Promises
  BY OrderTypes DEF Sequences, PromiseInv, PromiseTypeOK
<1> HIDE DEF job, rd, q
<1>7. CASE Pending(q)
  <2>1. reactions' = [reactions EXCEPT ![q] = Append(@, rd)] /\ jobs' = Tail(jobs)
    BY <1>1, <1>7 DEF React
  <2>2. /\ \A p \in Promises : p # q => reactions'[p] = reactions[p]
        /\ reactions'[q] = Append(reactions[q], rd) /\ reactions[q] \in Seq(Reactions)
    BY <1>3, <1>6, <2>1
  <2>3. /\ \A k \in DOMAIN reactions[q] : k \in DOMAIN reactions'[q] /\ reactions'[q][k] = reactions[q][k]
        /\ \A k \in DOMAIN reactions'[q] :
             (k \in DOMAIN reactions[q] /\ reactions'[q][k] = reactions[q][k]) \/ reactions'[q][k] = rd
    BY <1>4, <2>2
  <2>4. InListOrder(order, reactions')
    <3> SUFFICES ASSUME NEW p \in Promises, NEW i \in DOMAIN order[p], NEW j \in DOMAIN order[p], i < j,
                        NEW k \in DOMAIN reactions'[p], StandsFor(reactions'[p][k], order[p][j])
                 PROVE  \E l \in DOMAIN reactions'[p] : l < k /\ StandsFor(reactions'[p][l], order[p][i])
      BY DEF InListOrder
    <3>1. CASE p # q
      BY <1>5, <2>2, <3>1 DEF Ordered, InListOrder
    <3>2. CASE p = q
      <4>1. k \in DOMAIN reactions[p] /\ reactions'[p][k] = reactions[p][k]
        BY <1>4, <1>6, <2>3, <3>2
      <4>2. \E l \in DOMAIN reactions[p] : l < k /\ StandsFor(reactions[p][l], order[p][i])
        BY <1>5, <4>1 DEF Ordered, InListOrder
      <4> QED
        BY <2>3, <3>2, <4>2
    <3> QED
      BY <3>1, <3>2
  <2>5. Listed(order, reactions')
    BY <1>4, <1>5, <2>2, <2>3 DEF Ordered, Listed
  <2>6. NoneLost(promise, reactions', jobs', order, ran)
    BY <1>5, <2>1, <2>2, <2>3 DEF Ordered, NoneLost
  <2> QED
    BY <1>1, <1>5, <2>1, <2>4, <2>5, <2>6 DEF OrderInv, Ordered
<1>8. CASE ~Pending(q)
  <2> DEFINE new == ReactionJob(rd, promise[q].state = "rejected", promise[q].result)
  <2>1. jobs' = Append(Tail(jobs), new) /\ UNCHANGED reactions
    BY <1>1, <1>8 DEF React
  <2>2. new.pair = rd.pair /\ \A d \in Promises : ~RunsFor(new, d)
    BY <1>4 DEF ReactionJob, RunsFor, StandsFor
  <2> HIDE DEF new
  <2>3. new \in Jobs
    <3>1. Len(Tail(jobs)) + 1 \in DOMAIN jobs' /\ jobs'[Len(Tail(jobs)) + 1] = new
      BY <1>2, <2>1
    <3> QED
      BY <1>6, <3>1
  <2> QED
    BY <1>1, <1>2, <1>5, <1>6, <2>1, <2>2, <2>3, AppendOrders DEF OrderInv
<1> QED
  BY <1>7, <1>8

(* then() makes d of p.  Nothing ran, waits or stands for d before, and     *)
(* what p's earlier then() calls made stands in its list, or is queued or   *)
(* has run if p is settled.                                                 *)
LEMMA ThenOrders ==
    ASSUME PromiseInv, PromiseInv', OrderInv, Thens
    PROVE  OrderInv'
<1>1. PICK p \in Promises, d \in Promises, f \in Handlers, g \in Handlers : Then(p, d, f, g)
  BY DEF Thens
<1> DEFINE rd == [onFulfilled |-> f, onRejected |-> g, pair |-> <<d, 1>>]
           n  == Len(order[p]) + 1
<1>2. /\ Exists(p) /\ promise[d].state = "none" /\ p # d
      /\ React(p, rd, jobs)
      /\ order' = [order EXCEPT ![p] = Append(@, d)] /\ UNCHANGED ran
      /\ \A q \in Promises : q # d => promise'[q] = promise[q]
      /\ promise'[d].state = "pending"
  BY <1>1 DEF Then, PerformPromiseThen, Fresh, Exists, PromiseInv, PromiseTypeOK
<1>3. /\ \A c \in Promises : StandsFor(rd, c) <=> c = d
      /\ rd.pair = <<d, 1>>
  BY DEF StandsFor
<1>4. /\ reactions \in [Promises -> Seq(Reactions)] /\ order \in [Promises -> Seq(Promises)]
      /\ jobs \in Seq(Jobs) /\ jobs' \in Seq(Jobs)
      /\ reactions' \in [Promises -> Seq(Reactions)]
      /\ \A q \in Promises : \A i \in DOMAIN order[q] : order[q][i] \in Promises
      /\ \A q \in Promises : DOMAIN order[q] \subseteq Nat
      /\ promise \in [Promises -> [state  : {"none", "pending", "fulfilled", "rejected"},
                                   result : Values \cup {Undefined}]]
  BY OrderTypes DEF Sequences, PromiseInv, PromiseTypeOK
<1>5. /\ order[p] \in Seq(Promises) /\ order'[p] = Append(order[p], d)
      /\ \A q \in Promises : q # p => order'[q] = order[q]
  BY <1>2, <1>4
<1>6. /\ \A q \in Promises : \A i \in DOMAIN order[q] : i \in DOMAIN order'[q] /\ order'[q][i] = order[q][i]
      /\ \A q \in Promises : \A i \in DOMAIN order'[q] :
           (i \in DOMAIN order[q] /\ order'[q][i] = order[q][i]) \/ (q = p /\ i = n /\ order'[q][i] = d)
      /\ \A i \in DOMAIN order[p] : i < n
      /\ n \in DOMAIN order'[p] /\ order'[p][n] = d /\ n \in Nat
  <2>1. /\ \A i \in DOMAIN order[p] : i \in DOMAIN order'[p] /\ order'[p][i] = order[p][i] /\ i < n
        /\ \A i \in DOMAIN order'[p] :
             (i \in DOMAIN order[p] /\ order'[p][i] = order[p][i]) \/ (i = n /\ order'[p][i] = d)
        /\ n \in DOMAIN order'[p] /\ order'[p][n] = d /\ n \in Nat
    BY <1>5
  <2> HIDE DEF n
  <2> QED
    BY <1>5, <2>1
<1> HIDE DEF rd, n
<1>7. /\ d \notin ran /\ ~Queued(jobs, d)
      /\ \A q \in Promises : \A i \in DOMAIN order[q] : order[q][i] # d
      /\ order[d] = <<>>
  BY <1>2 DEF OrderInv, Ordered, NoneNew, MadeOnce
<1>8. \A q \in Promises : \A k \in DOMAIN reactions[q] : ~StandsFor(reactions[q][k], d)
  <2> SUFFICES ASSUME NEW q \in Promises, NEW k \in DOMAIN reactions[q], StandsFor(reactions[q][k], d)
               PROVE  FALSE
    OBVIOUS
  <2>1. reactions[q][k].pair = <<d, 1>> /\ <<d, 1>> \in Pairs
    BY DEF StandsFor, Pairs
  <2>2. PICK i \in DOMAIN order[q] : reactions[q][k].pair = <<order[q][i], 1>>
    BY <2>1 DEF OrderInv, Ordered, Listed, StandsFor
  <2> QED
    BY <1>7, <2>1, <2>2
<1>9. MadeOnce(promise', order')
  <2>1. ASSUME NEW q \in Promises, promise'[q].state = "none" PROVE order'[q] = <<>>
    <3>1. q # d /\ q # p /\ promise[q].state = "none"
      BY <1>2, <2>1 DEF Exists
    <3> QED
      BY <1>5, <3>1 DEF OrderInv, Ordered, MadeOnce
  <2>2. ASSUME NEW q \in Promises, NEW i \in DOMAIN order'[q] PROVE promise'[order'[q][i]].state # "none"
    <3>1. CASE order'[q][i] = d
      BY <1>2, <3>1
    <3>2. CASE i \in DOMAIN order[q] /\ order'[q][i] = order[q][i]
      <4>1. promise[order[q][i]].state # "none" /\ order[q][i] \in Promises
        BY <1>4, <3>2 DEF OrderInv, Ordered, MadeOnce
      <4> QED
        BY <1>2, <1>7, <3>2, <4>1
    <3> QED
      BY <1>6, <3>1, <3>2
  <2>3. ASSUME NEW q \in Promises, NEW r \in Promises,
               NEW i \in DOMAIN order'[q], NEW j \in DOMAIN order'[r], order'[q][i] = order'[r][j]
        PROVE  q = r /\ i = j
    <3>1. CASE /\ i \in DOMAIN order[q] /\ order'[q][i] = order[q][i]
               /\ j \in DOMAIN order[r] /\ order'[r][j] = order[r][j]
      <4>1. order[q][i] = order[r][j]
        BY <2>3, <3>1
      <4> QED
        BY <3>1, <4>1 DEF OrderInv, Ordered, MadeOnce
    <3> QED
      BY <1>6, <1>7, <2>3, <3>1
  <2> QED
    BY <2>1, <2>2, <2>3 DEF MadeOnce
<1>10. CASE Pending(p)
  <2> DEFINE m == Len(reactions[p]) + 1
  <2>1. reactions' = [reactions EXCEPT ![p] = Append(@, rd)] /\ jobs' = jobs
    BY <1>2, <1>10 DEF React
  <2>2. /\ \A q \in Promises : q # p => reactions'[q] = reactions[q]
        /\ reactions'[p] = Append(reactions[p], rd) /\ reactions[p] \in Seq(Reactions)
    BY <1>4, <2>1
  <2>3. /\ \A k \in DOMAIN reactions[p] :
             k \in DOMAIN reactions'[p] /\ reactions'[p][k] = reactions[p][k] /\ k < m
        /\ \A k \in DOMAIN reactions'[p] :
             \/ k \in DOMAIN reactions[p] /\ reactions'[p][k] = reactions[p][k]
             \/ k = m /\ reactions'[p][k] = rd
        /\ m \in DOMAIN reactions'[p] /\ reactions'[p][m] = rd
    BY <2>2
  <2> HIDE DEF m
  <2>4. InQueueOrder(order', jobs', ran)
    <3> SUFFICES ASSUME NEW q \in Promises, NEW i \in DOMAIN order'[q], NEW j \in DOMAIN order'[q], i < j
                 PROVE  /\ \A k \in DOMAIN jobs : RunsFor(jobs[k], order'[q][j])
                             => order'[q][i] \in ran \/ QueuedBefore(jobs, k, order'[q][i])
                        /\ order'[q][j] \in ran => order'[q][i] \in ran
      BY <2>1 DEF InQueueOrder
    <3>1. CASE order'[q][j] = d
      BY <1>7, <3>1 DEF Queued
    <3>2. CASE j \in DOMAIN order[q] /\ order'[q][j] = order[q][j]
      <4>1. i \in DOMAIN order[q] /\ order'[q][i] = order[q][i]
        <5>1. i # n \/ q # p
          BY <1>4, <1>6, <3>2
        <5> QED
          BY <1>6, <5>1
      <4> QED
        BY <3>2, <4>1 DEF OrderInv, Ordered, InQueueOrder
    <3> QED
      BY <1>6, <3>1, <3>2
  <2>5. InListOrder(order', reactions')
    <3> SUFFICES ASSUME NEW q \in Promises, NEW i \in DOMAIN order'[q], NEW j \in DOMAIN order'[q], i < j,
                        NEW k \in DOMAIN reactions'[q], StandsFor(reactions'[q][k], order'[q][j])
                 PROVE  \E l \in DOMAIN reactions'[q] : l < k /\ StandsFor(reactions'[q][l], order'[q][i])
      BY DEF InListOrder
    <3>1. CASE q = p /\ k = m /\ reactions'[q][k] = rd
      <4>1. order'[q][j] = d
        <5>1. order'[q][j] \in Promises
          BY <1>4, <1>6
        <5> QED
          BY <1>3, <3>1, <5>1
      <4>2. j = n
        BY <1>6, <1>7, <4>1
      <4>3. i \in DOMAIN order[p] /\ order'[q][i] = order[p][i]
        <5>1. i # n
          BY <1>6, <4>2
        <5> QED
          BY <1>6, <3>1, <5>1
      <4>4. PICK l \in DOMAIN reactions[p] : StandsFor(reactions[p][l], order[p][i])
        BY <1>10, <4>3 DEF OrderInv, Ordered, NoneLost, Pending
      <4> QED
        BY <2>3, <3>1, <4>3, <4>4
    <3>2. CASE k \in DOMAIN reactions[q] /\ reactions'[q][k] = reactions[q][k]
      <4>1. order'[q][j] # d
        BY <1>8, <3>2
      <4>2. j \in DOMAIN order[q] /\ order'[q][j] = order[q][j]
        BY <1>6, <4>1
      <4>3. i \in DOMAIN order[q] /\ order'[q][i] = order[q][i]
        <5>1. i # n \/ q # p
          BY <1>4, <1>6, <4>2
        <5> QED
          BY <1>6, <5>1
      <4>4. PICK l \in DOMAIN reactions[q] : l < k /\ StandsFor(reactions[q][l], order[q][i])
        BY <3>2, <4>2, <4>3 DEF OrderInv, Ordered, InListOrder
      <4>5. l \in DOMAIN reactions'[q] /\ reactions'[q][l] = reactions[q][l]
        BY <2>2, <2>3
      <4> QED
        BY <4>3, <4>4, <4>5
    <3> QED
      BY <2>2, <2>3, <3>1, <3>2
  <2>6. Listed(order', reactions')
    <3> SUFFICES ASSUME NEW q \in Promises, NEW k \in DOMAIN reactions'[q], reactions'[q][k].pair \in Pairs
                 PROVE  \E i \in DOMAIN order'[q] : StandsFor(reactions'[q][k], order'[q][i])
      BY DEF Listed
    <3>1. CASE k \in DOMAIN reactions[q] /\ reactions'[q][k] = reactions[q][k]
      BY <1>6, <3>1 DEF OrderInv, Ordered, Listed
    <3>2. CASE q = p /\ reactions'[q][k] = rd
      BY <1>3, <1>6, <3>2
    <3> QED
      BY <2>2, <2>3, <3>1, <3>2
  <2>7. NoneNew(promise', jobs', ran)
    BY <1>2, <2>1 DEF OrderInv, Ordered, NoneNew
  <2>8. NoneLost(promise', reactions', jobs', order', ran)
    <3> SUFFICES ASSUME NEW q \in Promises, NEW i \in DOMAIN order'[q]
                 PROVE  /\ promise'[q].state = "pending"
                             => \E k \in DOMAIN reactions'[q] : StandsFor(reactions'[q][k], order'[q][i])
                        /\ promise'[q].state \in {"fulfilled", "rejected"}
                             => order'[q][i] \in ran \/ Queued(jobs, order'[q][i])
      BY <2>1 DEF NoneLost
    <3>1. q # d /\ promise'[q] = promise[q]
      BY <1>2, <1>5, <1>7
    <3>2. CASE q = p /\ order'[q][i] = d
      BY <1>3, <1>10, <2>3, <3>1, <3>2 DEF Pending
    <3>3. CASE i \in DOMAIN order[q] /\ order'[q][i] = order[q][i]
      <4>1. /\ promise[q].state = "pending"
                 => \E k \in DOMAIN reactions[q] : StandsFor(reactions[q][k], order[q][i])
            /\ promise[q].state \in {"fulfilled", "rejected"}
                 => order[q][i] \in ran \/ Queued(jobs, order[q][i])
        BY <3>3 DEF OrderInv, Ordered, NoneLost
      <4>2. \A k \in DOMAIN reactions[q] : k \in DOMAIN reactions'[q] /\ reactions'[q][k] = reactions[q][k]
        BY <2>2, <2>3
      <4> QED
        BY <3>1, <3>3, <4>1, <4>2
    <3> QED
      BY <1>6, <3>2, <3>3
  <2> QED
    BY <1>2, <1>9, <2>4, <2>5, <2>6, <2>7, <2>8 DEF OrderInv, Ordered
<1>11. CASE ~Pending(p)
  <2> DEFINE job == ReactionJob(rd, promise[p].state = "rejected", promise[p].result)
             m   == Len(jobs) + 1
  <2>1. jobs' = Append(jobs, job) /\ UNCHANGED reactions
    BY <1>2, <1>11 DEF React
  <2>2. \A c \in Promises : RunsFor(job, c) <=> c = d
    BY <1>3 DEF ReactionJob, RunsFor
  <2> HIDE DEF job
  <2>3. /\ \A k \in DOMAIN jobs : k \in DOMAIN jobs' /\ jobs'[k] = jobs[k] /\ k < m
        /\ \A k \in DOMAIN jobs' : (k \in DOMAIN jobs /\ jobs'[k] = jobs[k]) \/ (k = m /\ jobs'[k] = job)
        /\ m \in DOMAIN jobs' /\ jobs'[m] = job
    BY <1>4, <2>1
  <2> HIDE DEF m
  <2>4. /\ \A c \in Promises : Queued(jobs, c) => Queued(jobs', c) /\ QueuedBefore(jobs', m, c)
        /\ \A c \in Promises : Queued(jobs', c) => c = d \/ Queued(jobs, c)
        /\ Queued(jobs', d)
        /\ \A c \in Promises : \A k : QueuedBefore(jobs, k, c) => QueuedBefore(jobs', k, c)
    BY <2>2, <2>3 DEF Queued, QueuedBefore
  <2>5. Settled(p)
    BY <1>2, <1>4, <1>11 DEF Exists, Pending, Settled
  <2>6. InQueueOrder(order', jobs', ran)
    <3> SUFFICES ASSUME NEW q \in Promises, NEW i \in DOMAIN order'[q], NEW j \in DOMAIN order'[q], i < j
                 PROVE  /\ \A k \in DOMAIN jobs' : RunsFor(jobs'[k], order'[q][j])
                             => order'[q][i] \in ran \/ QueuedBefore(jobs', k, order'[q][i])
                        /\ order'[q][j] \in ran => order'[q][i] \in ran
      BY DEF InQueueOrder
    <3>0. i \in DOMAIN order[q] /\ order'[q][i] = order[q][i] /\ order[q][i] \in Promises
      <4>1. i # n \/ q # p
        <5>1. q = p => j = n \/ (j \in Nat /\ j < n)
          BY <1>4, <1>6
        <5> QED
          BY <1>6, <5>1
      <4> QED
        BY <1>4, <1>6, <4>1
    <3>1. CASE q = p /\ order'[q][j] = d
      <4>1. order[q][i] \in ran \/ Queued(jobs, order[q][i])
        BY <2>5, <3>0, <3>1 DEF OrderInv, Ordered, NoneLost, Settled
      <4>2. \A k \in DOMAIN jobs' : RunsFor(jobs'[k], d) => k = m
        BY <1>7, <2>3 DEF Queued
      <4> QED
        BY <1>7, <2>4, <3>0, <3>1, <4>1, <4>2
    <3>2. CASE j \in DOMAIN order[q] /\ order'[q][j] = order[q][j]
      <4>1. order[q][j] # d /\ order[q][j] \in Promises
        BY <1>4, <1>7, <3>2
      <4>2. /\ \A k \in DOMAIN jobs : RunsFor(jobs[k], order[q][j])
                 => order[q][i] \in ran \/ QueuedBefore(jobs, k, order[q][i])
            /\ order[q][j] \in ran => order[q][i] \in ran
        BY <3>0, <3>2 DEF OrderInv, Ordered, InQueueOrder
      <4>3. \A k \in DOMAIN jobs' : RunsFor(jobs'[k], order[q][j])
              => k \in DOMAIN jobs /\ RunsFor(jobs[k], order[q][j])
        BY <2>2, <2>3, <4>1
      <4> QED
        BY <2>4, <3>0, <3>2, <4>2, <4>3
    <3> QED
      BY <1>6, <3>1, <3>2
  <2>7. InListOrder(order', reactions')
    <3> SUFFICES ASSUME NEW q \in Promises, NEW i \in DOMAIN order'[q], NEW j \in DOMAIN order'[q], i < j,
                        NEW k \in DOMAIN reactions[q], StandsFor(reactions[q][k], order'[q][j])
                 PROVE  \E l \in DOMAIN reactions[q] : l < k /\ StandsFor(reactions[q][l], order'[q][i])
      BY <2>1 DEF InListOrder
    <3>1. j \in DOMAIN order[q] /\ order'[q][j] = order[q][j]
      BY <1>6, <1>8
    <3>2. i \in DOMAIN order[q] /\ order'[q][i] = order[q][i]
      <4>1. i # n \/ q # p
        BY <1>4, <1>6, <3>1
      <4> QED
        BY <1>6, <4>1
    <3> QED
      BY <3>1, <3>2 DEF OrderInv, Ordered, InListOrder
  <2>8. Listed(order', reactions')
    BY <1>6, <2>1 DEF OrderInv, Ordered, Listed
  <2>9. NoneNew(promise', jobs', ran)
    BY <1>2, <2>4 DEF OrderInv, Ordered, NoneNew
  <2>10. NoneLost(promise', reactions', jobs', order', ran)
    <3> SUFFICES ASSUME NEW q \in Promises, NEW i \in DOMAIN order'[q]
                 PROVE  /\ promise'[q].state = "pending"
                             => \E k \in DOMAIN reactions[q] : StandsFor(reactions[q][k], order'[q][i])
                        /\ promise'[q].state \in {"fulfilled", "rejected"}
                             => order'[q][i] \in ran \/ Queued(jobs', order'[q][i])
      BY <2>1 DEF NoneLost
    <3>1. q # d /\ promise'[q] = promise[q]
      BY <1>2, <1>5, <1>7
    <3>2. CASE q = p /\ order'[q][i] = d
      BY <1>11, <2>4, <3>1, <3>2 DEF Pending
    <3>3. CASE i \in DOMAIN order[q] /\ order'[q][i] = order[q][i]
      <4>1. order[q][i] \in Promises
        BY <1>4, <3>3
      <4>2. /\ promise[q].state = "pending"
                 => \E k \in DOMAIN reactions[q] : StandsFor(reactions[q][k], order[q][i])
            /\ promise[q].state \in {"fulfilled", "rejected"}
                 => order[q][i] \in ran \/ Queued(jobs, order[q][i])
        BY <3>3 DEF OrderInv, Ordered, NoneLost
      <4> QED
        BY <2>4, <3>1, <3>3, <4>1, <4>2
    <3> QED
      BY <1>6, <3>2, <3>3
  <2> QED
    BY <1>2, <1>9, <2>6, <2>7, <2>8, <2>9, <2>10 DEF OrderInv, Ordered
<1> QED
  BY <1>10, <1>11

LEMMA ConstructOrders ==
    ASSUME PromiseInv, OrderInv, Constructs
    PROVE  OrderInv'
<1>1. PICK p \in Promises, thrown \in Values \cup {Undefined} : Fresh(p) /\ Construct(p, thrown)
  BY DEF Constructs
<1>2. /\ UNCHANGED <<reactions, jobs, order, ran>>
      /\ promise[p].state = "none" /\ promise'[p].state # "none"
      /\ \A q \in Promises : q # p => promise'[q] = promise[q]
  BY <1>1 DEF Construct, Fresh, Exists, PromiseInv, PromiseTypeOK
<1>3. order[p] = <<>> /\ \A q \in Promises : \A i \in DOMAIN order[q] : order[q][i] \in Promises
  BY <1>2, OrderTypes DEF OrderInv, Ordered, MadeOnce
<1>4. \A q \in Promises : promise'[q].state = "none" => promise[q].state = "none"
  BY <1>2
<1>5. MadeOnce(promise', order)
  <2>1. \A q \in Promises : promise[q].state # "none" => promise'[q].state # "none"
    BY <1>4
  <2> QED
    BY <1>3, <1>4, <1>2 DEF OrderInv, Ordered, MadeOnce
<1>6. NoneNew(promise', jobs, ran)
  BY <1>4 DEF OrderInv, Ordered, NoneNew
<1>7. NoneLost(promise', reactions, jobs, order, ran)
  BY <1>2, <1>3 DEF OrderInv, Ordered, NoneLost
<1> QED
  BY <1>2, <1>5, <1>6, <1>7 DEF OrderInv, Ordered

LEMMA NextOrders ==
    ASSUME OneWayInv, OneWayInv', AdoptInv, OrderInv, [Next]_vars
    PROVE  OrderInv'
<1>1. PromiseInv /\ PromiseInv' /\ SettleInv
  BY DEF OneWayInv, FetchInv, PromiseInv, TypeOK
<1>2. CASE UNCHANGED pvars
  BY <1>2 DEF pvars, OrderInv
<1>3. CASE Resolves
  <2>1. PICK p \in Promises, isReject \in BOOLEAN, resolution \in Values \cup Promises :
          /\ isReject => resolution \in Values
          /\ resolver[<<p, 1>>] # "none"
          /\ ResolveFunctionCall(<<p, 1>>, isReject, resolution, jobs)
          /\ UNCHANGED <<order, ran>>
    BY <1>3 DEF Resolves
  <2>2. <<p, 1>> \in Pairs /\ jobs \in Seq(Jobs) /\ Ordered(promise, reactions, jobs, order, ran)
    BY <1>1 DEF Pairs, OrderInv, PromiseInv, PromiseTypeOK
  <2>3. Ordered(promise', reactions', jobs', order, ran)
    BY <1>1, <2>1, <2>2, ResolvingOrders DEF SettleInv
  <2> QED
    BY <2>1, <2>3 DEF OrderInv
<1> QED
  BY <1>1, <1>2, <1>3, PromiseSteps, ConstructOrders, ThenOrders, ReactionOrders, AdoptionOrders,
     ThenableOrders

LEMMA InitOrders == Init => OrderInv
  BY DEF Init, PromiseInit, OrderInv, Ordered, InQueueOrder, InListOrder, MadeOnce, Listed, NoneNew,
         NoneLost, Queued

(* The handlers of a promise's then() calls run in the order of the calls,  *)
(* whether a call came before or after the promise was settled.             *)
THEOREM HandlersKeepOrder == Spec => []ReactionsInOrder
<1>1. Spec => []OneWayInv
  BY InitOneWay, NextOneWay, PTL DEF Spec
<1>2. OrderInv => ReactionsInOrder
  BY DEF OrderInv, Ordered, InQueueOrder, ReactionsInOrder
<1> QED
  BY <1>1, <1>2, InitAdopts, NextAdopts, InitOrders, NextOrders, PTL DEF Spec

(* fulfill_or_reject_promise queues every reaction of its promise before it *)
(* clears the lists: what a then() call asked for is listed while the       *)
(* promise is pending, and has run or is queued when it is settled.         *)
ReactionsKept == NoneLost(promise, reactions, jobs, order, ran)

(* No then() call is forgotten: the safety half of OutcomePropagates.       *)
THEOREM NoReactionLost == Spec => []ReactionsKept
<1>1. Spec => []OneWayInv
  BY InitOneWay, NextOneWay, PTL DEF Spec
<1>2. OrderInv => ReactionsKept
  BY DEF OrderInv, Ordered, ReactionsKept
<1> QED
  BY <1>1, <1>2, InitAdopts, NextAdopts, InitOrders, NextOrders, PTL DEF Spec
=============================================================================
