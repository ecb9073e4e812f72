---------------------------- MODULE Idempotency ----------------------------
(***************************************************************************)
(* One Idempotency-Key of the integration API (services/idempotency.ts):   *)
(* requests that carry it, the row of api_idempotency_keys that is its     *)
(* lock and its memory, and what goes wrong between the two.               *)
(*                                                                         *)
(* A request inserts at most one row, so the row is named after it: row is *)
(* the request whose row exists, its hash and createdAt are that request's *)
(* body and age.                                                           *)
(***************************************************************************)
EXTENDS Integers

CONSTANTS
    Requests,    \* requests with the key, each sent at most once
    NoRequest,
    Bodies,      \* what the request hash tells apart
    Timeout,     \* IDEMPOTENCY_IN_PROGRESS_TIMEOUT_MS
    Ttl,         \* IDEMPOTENCY_TTL_MS
    MaxLag,      \* bound: how long one attempt of the guard takes
    Faults       \* what may go wrong

Attempts == 3

ASSUME RequestsAssumption == NoRequest \notin Requests
ASSUME AgesAssumption ==
    /\ Timeout \in Nat /\ Ttl \in Nat /\ MaxLag \in Nat
    /\ MaxLag < Timeout /\ Timeout <= Ttl
ASSUME FaultsAssumption == Faults \subseteq {"overrun", "interrupted", "store_error", "late_failure"}

VARIABLES
    reqs,     \* the requests: where they are, and what they have done
    row,      \* whose row the key has
    stored,   \* that row holds a response (statusCode and responseEnc)
    faulty    \* history: the requests with which something went wrong

vars == <<reqs, row, stored, faulty>>

Guarding == {"insert", "lookup", "remove"}
Owning == {"handle", "store", "release"}
Ended == {"answered", "failed", "replayed", "reused", "in_use", "gone"}

(* age: since the time the request read for its current attempt, which     *)
(* becomes the createdAt of its row.  found: the row it is about to delete *)
(* or whose response it returned.                                          *)
Request == [body: Bodies, at: {"unsent"} \cup Guarding \cup Owning \cup Ended,
            tries: 0..(Attempts - 1), age: 0..(Ttl + MaxLag),
            found: Requests \cup {NoRequest}, applied: BOOLEAN]

TypeOK ==
    /\ reqs \in [Requests -> Request]
    /\ row \in Requests \cup {NoRequest}
    /\ stored \in BOOLEAN
    /\ faulty \subseteq Requests

Init ==
    /\ reqs \in [Requests -> [body: Bodies, at: {"unsent"}, tries: {0}, age: {0},
                              found: {NoRequest}, applied: {FALSE}]]
    /\ row = NoRequest
    /\ stored = FALSE
    /\ faulty = {}

Goes(r, where) == reqs' = [reqs EXCEPT ![r].at = where]

Send(r) ==
    /\ reqs[r].at = "unsent"
    /\ Goes(r, "insert")
    /\ UNCHANGED <<row, stored, faulty>>

(* The insert: the unique index lets one request take the key.             *)
TakeKey(r) ==
    /\ reqs[r].at = "insert" /\ row = NoRequest
    /\ Goes(r, "handle")
    /\ row' = r /\ stored' = FALSE
    /\ UNCHANGED faulty

KeyTaken(r) ==
    /\ reqs[r].at = "insert" /\ row # NoRequest
    /\ Goes(r, "lookup")
    /\ UNCHANGED <<row, stored, faulty>>

(* The next attempt reads the time again; after the last one it is 409.    *)
TryAgain(r) ==
    reqs' = IF reqs[r].tries + 1 < Attempts
            THEN [reqs EXCEPT ![r] = [@ EXCEPT !.at = "insert", !.tries = reqs[r].tries + 1, !.age = 0, !.found = NoRequest]]
            ELSE [reqs EXCEPT ![r] = [@ EXCEPT !.at = "in_use", !.found = NoRequest]]

(* The age of the row as request r computes it, with the time it read      *)
(* before it tried to insert.                                              *)
AgeSeen(r) == reqs[row].age - reqs[r].age

(* Mutant: the in-progress timeout frees completed rows too.               *)
StaleByAge(r) == AgeSeen(r) >= Timeout

Stale(r) == AgeSeen(r) >= Ttl \/ (~stored /\ AgeSeen(r) >= Timeout)

Lookup(r) ==
    /\ reqs[r].at = "lookup"
    /\ \/ row = NoRequest /\ TryAgain(r)
       \/ /\ row # NoRequest /\ Stale(r)
          /\ reqs' = [reqs EXCEPT ![r] = [@ EXCEPT !.at = "remove", !.found = row]]
       \/ /\ row # NoRequest /\ ~Stale(r)
          /\ \/ reqs[row].body # reqs[r].body /\ Goes(r, "reused")
             \/ reqs[row].body = reqs[r].body /\ ~stored /\ Goes(r, "in_use")
             \/ /\ reqs[row].body = reqs[r].body /\ stored
                /\ reqs' = [reqs EXCEPT ![r] = [@ EXCEPT !.at = "replayed", !.found = row]]
    /\ UNCHANGED <<row, stored, faulty>>

(* Mutant: the delete is by organisation and key.                          *)
RowLeftByKey(id) == NoRequest

(* The delete is by id: the row found, never a newer one.                  *)
RowLeft(id) == IF row = id THEN NoRequest ELSE row

Remove(r) ==
    /\ reqs[r].at = "remove"
    /\ row' = RowLeft(reqs[r].found)
    /\ TryAgain(r)
    /\ UNCHANGED <<stored, faulty>>

(* The handler: its transaction commits; an endpoint that reads after it   *)
(* (rescheduleSession) may fail all the same.                              *)
Apply(r) ==
    /\ reqs[r].at = "handle"
    /\ \/ /\ reqs' = [reqs EXCEPT ![r] = [@ EXCEPT !.at = "store", !.applied = TRUE]]
          /\ UNCHANGED faulty
       \/ /\ "late_failure" \in Faults
          /\ reqs' = [reqs EXCEPT ![r] = [@ EXCEPT !.at = "release", !.applied = TRUE]]
          /\ faulty' = faulty \cup {r}
    /\ UNCHANGED <<row, stored>>

HandlerFails(r) ==
    /\ reqs[r].at = "handle"
    /\ Goes(r, "release")
    /\ UNCHANGED <<row, stored, faulty>>

(* Mutant: the response is stored by organisation and key.                 *)
StoreResponseByKey(r) ==
    /\ reqs[r].at = "store"
    /\ Goes(r, "answered")
    /\ stored' = (row # NoRequest)
    /\ UNCHANGED <<row, faulty>>

(* onSend of the owner; an error there is logged and the answer is sent.   *)
StoreResponse(r) ==
    /\ reqs[r].at = "store"
    /\ Goes(r, "answered")
    /\ \/ stored' = (stored \/ row = r) /\ UNCHANGED faulty
       \/ "store_error" \in Faults /\ faulty' = faulty \cup {r} /\ UNCHANGED stored
    /\ UNCHANGED row

ReleaseKey(r) ==
    /\ reqs[r].at = "release"
    /\ Goes(r, "failed")
    /\ \/ row' = RowLeft(r) /\ UNCHANGED faulty
       \/ "store_error" \in Faults /\ faulty' = faulty \cup {r} /\ UNCHANGED row
    /\ UNCHANGED stored

(* The server stops in the middle of the request.                          *)
Interrupted(r) ==
    /\ "interrupted" \in Faults
    /\ reqs[r].at \in Guarding \cup Owning
    /\ Goes(r, "gone")
    /\ faulty' = faulty \cup {r}
    /\ UNCHANGED <<row, stored>>

(* The hourly job.                                                         *)
PurgeIdempotencyKeys ==
    /\ row # NoRequest /\ reqs[row].age >= Ttl
    /\ row' = NoRequest
    /\ UNCHANGED <<reqs, stored, faulty>>

(* Time matters to a request while it runs, to its row and to its effect.  *)
Older(r) ==
    IF (reqs[r].at \in Guarding \cup Owning \/ row = r \/ reqs[r].applied) /\ reqs[r].age < Ttl + MaxLag
    THEN [reqs[r] EXCEPT !.age = @ + 1]
    ELSE reqs[r]

(* A request that owns the key is done in time unless it may overrun.      *)
Late(r) == reqs[r].at \in Owning /\ reqs[r].age + 1 >= Timeout

Tick ==
    /\ \A r \in Requests:
           /\ reqs[r].at \in Guarding => reqs[r].age < MaxLag
           /\ Late(r) => "overrun" \in Faults
    /\ reqs' = [r \in Requests |-> Older(r)]
    /\ faulty' = faulty \cup {r \in Requests: Late(r)}
    /\ UNCHANGED <<row, stored>>

Step(r) ==
    \/ Send(r) \/ TakeKey(r) \/ KeyTaken(r) \/ Lookup(r) \/ Remove(r)
    \/ Apply(r) \/ HandlerFails(r) \/ StoreResponse(r) \/ ReleaseKey(r) \/ Interrupted(r)

Next == (\E r \in Requests: Step(r)) \/ PurgeIdempotencyKeys \/ Tick

Spec == Init /\ [][Next]_vars

-----------------------------------------------------------------------------
Recent(r) == reqs[r].applied /\ reqs[r].age < Ttl

(* Under one key, one request in 24 hours is applied, whatever repeats     *)
(* arrive while it runs or later and whatever goes wrong with others ("a   *)
(* retry ... cannot apply a request twice", idempotency.ts:5): of two      *)
(* applications one is of a request that overran the timeout, stopped      *)
(* half way, failed after its commit or could not store its response.      *)
AppliedOnce ==
    \A q, r \in Requests \ faulty: Recent(q) /\ Recent(r) => q = r

(* The same of all requests ("can never apply the request twice",          *)
(* INTEGRATION_API.md).                                                    *)
AppliedOnceAtAll == \A q, r \in Requests: Recent(q) /\ Recent(r) => q = r

(* What is replayed is the response of a request with the same content     *)
(* that was applied, taken less than 24 hours before the repeat: a late    *)
(* owner never completes somebody else's row (storeIdempotentResponse).    *)
ReplayIsGenuine ==
    [][\A r \in Requests:
           reqs[r].at # "replayed" /\ reqs'[r].at = "replayed" =>
               LET q == reqs'[r].found
               IN  reqs[q].applied /\ reqs[q].body = reqs[r].body
                   /\ reqs[q].age - reqs[r].age < Ttl]_vars

(* A row younger than the in-progress timeout is deleted by nobody but the *)
(* request that took the key and failed: a repeat that found an abandoned  *)
(* row never deletes a newer one (idempotencyGuard deletes by id).         *)
NewerRowKept ==
    [][row # NoRequest /\ row' # row =>
           reqs[row].age >= Timeout \/ reqs[row].at = "release"]_vars
=============================================================================
