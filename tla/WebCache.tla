-------------------------------- MODULE WebCache --------------------------------
(***************************************************************************)
(* The two endpoints of the dashboard that read the broker: a request is   *)
(* served from the cache, or queues for the endpoint's lock, looks again   *)
(* and reads the broker under a timeout.  Only a successful account is     *)
(* cached, but an overnight estimate's failure too.  What is cached is     *)
(* stamped with the time its reader got the lock.  Times are ages.         *)
(***************************************************************************)
EXTENDS Naturals, Sequences, FiniteSets

CONSTANTS
  Requests,   \* requests that may be open at once
  Endpoints,  \* records [cacheAge, keepsFailures]: for how long an endpoint caches,
              \* and whether it caches a failure
  ReadTimeout \* ACCOUNT_READ_TIMEOUT_SECONDS

ASSUME WebAssumption ==
  /\ IsFiniteSet(Requests)
  /\ ReadTimeout \in Nat \ {0}
  /\ \A e \in Endpoints : e.cacheAge \in Nat \ {0} /\ e.keepsFailures \in BOOLEAN

VARIABLES
  endpoint, \* the endpoint that is asked; each has a cache and a lock of its own
  request, \* each request: "none", "queued", "reading", "served" or "degraded"
  queue,   \* the requests that wait for the lock or hold it, in their order
  asked,   \* the age of each request's requested_at
  cache,   \* whether anything is cached, its age, and the age and kind of its data
  reading, \* the age of the read under the lock
  spared   \* the age of the last read that was cached, from its start

webVars == <<endpoint, request, queue, asked, cache, reading, spared>>

\* Ages are counted up to where they no longer matter.
Oldest == endpoint.cacheAge + ReadTimeout
Older(age) == IF age < Oldest THEN age + 1 ELSE age

WebInit ==
  /\ endpoint \in Endpoints
  /\ request = [r \in Requests |-> "none"]
  /\ queue = <<>>
  /\ asked = [r \in Requests |-> 0]
  /\ cache = [kept |-> FALSE, age |-> 0, data |-> 0, ok |-> FALSE]
  /\ reading = 0
  /\ spared = Oldest

Holder(r) == queue # <<>> /\ Head(queue) = r

Fresh == cache.kept /\ cache.age < endpoint.cacheAge

Answer == IF cache.ok THEN "served" ELSE "degraded"

\* The request is answered at once, or waits for the lock.
Ask(r) ==
  /\ request[r] \in {"none", "served", "degraded"}
  /\ request' = [request EXCEPT ![r] = IF Fresh THEN Answer ELSE "queued"]
  /\ queue' = IF Fresh THEN queue ELSE Append(queue, r)
  /\ asked' = [asked EXCEPT ![r] = 0]
  /\ UNCHANGED <<endpoint, cache, reading, spared>>

\* Under the lock the request takes the time and looks at the cache again.
AskedBeforeTheLock(r) == asked[r]
AskedUnderTheLock(r) == 0

ServeUnderLock(r) ==
  /\ request[r] = "queued" /\ Holder(r) /\ Fresh
  /\ request' = [request EXCEPT ![r] = Answer]
  /\ queue' = Tail(queue)
  /\ UNCHANGED <<endpoint, asked, cache, reading, spared>>

StartRead(r) ==
  /\ request[r] = "queued" /\ Holder(r) /\ ~Fresh
  /\ request' = [request EXCEPT ![r] = "reading"]
  /\ asked' = [asked EXCEPT ![r] = AskedUnderTheLock(r)]
  /\ reading' = 0
  /\ UNCHANGED <<endpoint, queue, cache, spared>>

Keep(r, ok) ==
  /\ cache' = [kept |-> TRUE, age |-> asked[r], data |-> 0, ok |-> ok]
  /\ spared' = reading

ReadSucceeds(r) ==
  /\ request[r] = "reading"
  /\ request' = [request EXCEPT ![r] = "served"]
  /\ queue' = Tail(queue)
  /\ Keep(r, TRUE)
  /\ UNCHANGED <<endpoint, asked, reading>>

ReadFails(r) ==
  /\ request[r] = "reading"
  /\ request' = [request EXCEPT ![r] = "degraded"]
  /\ queue' = Tail(queue)
  /\ IF endpoint.keepsFailures THEN Keep(r, FALSE) ELSE UNCHANGED <<cache, spared>>
  /\ UNCHANGED <<endpoint, asked, reading>>

\* asyncio.timeout
NeverExpired == FALSE
Expired == reading >= ReadTimeout

ReadTimesOut(r) == Expired /\ ReadFails(r)

\* Time does not pass a timeout that is due, nor a request that can go on.
Tick ==
  /\ \A r \in Requests :
       /\ ~(request[r] = "queued" /\ Holder(r))
       /\ ~(request[r] = "reading" /\ Expired)
  /\ asked' = [r \in Requests |-> Older(asked[r])]
  /\ cache' = [cache EXCEPT !.age = Older(@), !.data = Older(@)]
  /\ reading' = Older(reading) /\ spared' = Older(spared)
  /\ UNCHANGED <<endpoint, request, queue>>

WebStep(r) == ServeUnderLock(r) \/ StartRead(r) \/ ReadTimesOut(r)

WebNext ==
  \/ Tick
  \/ \E r \in Requests : Ask(r) \/ WebStep(r) \/ ReadSucceeds(r) \/ ReadFails(r)

\* Time passes and the event loop runs what is ready; the broker owes no answer.
WebFairness == WF_webVars(Tick) /\ \A r \in Requests : WF_webVars(WebStep(r))

WebSpec == WebInit /\ [][WebNext]_webVars /\ WebFairness

(***************************************************************************)
(* Properties.                                                             *)
(***************************************************************************)
WebTypeOK ==
  /\ \A r \in Requests : asked[r] \in 0 .. Oldest
  /\ Len(queue) <= Cardinality(Requests)
  /\ {cache.age, cache.data, reading, spared} \subseteq 0 .. Oldest

\* A broker's answer that is kept spares the broker the next read for as long
\* as it is served, whoever waited for the lock and however long.
BrokerSpared ==
  [][\A r \in Requests : StartRead(r) => spared >= endpoint.cacheAge]_webVars

\* Every request is answered, whatever the broker does and whoever else asks.
RequestAnswered == \A r \in Requests : request[r] = "queued" ~> request[r] # "queued"
===============================================================================
