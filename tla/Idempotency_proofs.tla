------------------------- MODULE Idempotency_proofs -------------------------
(***************************************************************************)
(* For every number of requests, timeout and lifetime: a key keeps its     *)
(* type, newer rows stay, and of the requests with which nothing goes      *)
(* wrong one is applied in a lifetime.                                     *)
(***************************************************************************)
EXTENDS Idempotency, TLAPS

(* The requests with which nothing has gone wrong.                         *)
Sound == Requests \ faulty

(* Whoever runs under the key has the key's row, and is not late.          *)
OwnerHasRow ==
    \A r \in Sound: reqs[r].at \in Owning => row = r /\ ~stored /\ reqs[r].age < Timeout

(* The key's row belongs to a request that runs or that was answered.      *)
RowHasOwner ==
    row \in Sound => IF stored THEN reqs[row].at = "answered" ELSE reqs[row].at \in Owning

(* What is applied will be stored, and what is answered stays stored.      *)
EffectRemembered ==
    \A r \in Sound:
        /\ reqs[r].applied => reqs[r].at \in {"store", "answered"}
        /\ reqs[r].at = "answered" /\ reqs[r].age < Ttl => row = r /\ stored

(* A row about to be removed has reached its lifetime, unless something    *)
(* went wrong with its owner.                                              *)
RemovedIsOld ==
    \A r \in Requests: reqs[r].at = "remove" =>
        /\ reqs[r].found \in Requests
        /\ reqs[r].found \in Sound => reqs[reqs[r].found].age >= Ttl

(* An attempt of the guard takes no longer than the bound says.            *)
GuardInTime == \A r \in Sound: reqs[r].at \in {"unsent"} \cup Guarding => reqs[r].age <= MaxLag

(* The inductive invariant.                                                *)
IInv == TypeOK /\ GuardInTime /\ OwnerHasRow /\ RowHasOwner /\ EffectRemembered /\ RemovedIsOld

USE DEF Attempts

Places == {"unsent"} \cup Guarding \cup Owning \cup Ended
Ages == 0..(Ttl + MaxLag)

-----------------------------------------------------------------------------
(* A request that begins its next attempt, or gives up, is still one.      *)
LEMMA RequestChanged ==
    ASSUME NEW q \in Request, NEW p \in Places, NEW t \in 0..2, NEW a \in Ages,
           NEW f \in Requests \cup {NoRequest}
    PROVE  [q EXCEPT !.at = p, !.tries = t, !.age = a, !.found = f] \in Request
<1>1. Request = [body: Bodies, at: Places, tries: 0..2, age: Ages,
                 found: Requests \cup {NoRequest}, applied: BOOLEAN]
    BY DEF Request, Places, Ages
<1> QED BY <1>1

(* So is one that moves on, with what it found or applied.                 *)
LEMMA RequestMoved ==
    ASSUME NEW q \in Request, NEW p \in Places, NEW f \in Requests \cup {NoRequest}, NEW b \in BOOLEAN
    PROVE  /\ [q EXCEPT !.at = p] \in Request
           /\ [q EXCEPT !.at = p, !.found = f] \in Request
           /\ [q EXCEPT !.at = p, !.applied = b] \in Request
<1>1. Request = [body: Bodies, at: Places, tries: 0..2, age: Ages,
                 found: Requests \cup {NoRequest}, applied: BOOLEAN]
    BY DEF Request, Places, Ages
<1> QED BY <1>1

(* Trying again keeps the requests' type.                                  *)
LEMMA TryAgainType ==
    ASSUME TypeOK, NEW r \in Requests, TryAgain(r)
    PROVE  reqs' \in [Requests -> Request]
<1>1. reqs \in [Requests -> Request]
    BY DEF TypeOK
<1>2. reqs[r] \in Request /\ reqs[r].tries \in 0..2 /\ reqs[r].age \in Ages /\ 0 \in Ages
    BY <1>1, AgesAssumption DEF Request, Ages
<1>3. CASE reqs[r].tries + 1 < 3
  <2> DEFINE next == [reqs[r] EXCEPT !.at = "insert", !.tries = reqs[r].tries + 1, !.age = 0, !.found = NoRequest]
  <2>1. reqs[r].tries + 1 \in 0..2 /\ "insert" \in Places
    BY <1>2, <1>3 DEF Places, Guarding
  <2>2. next \in Request
    BY <1>2, <2>1, RequestChanged
  <2>3. reqs' = [reqs EXCEPT ![r] = next]
    BY <1>3 DEF TryAgain
  <2> HIDE DEF next
  <2> QED BY <1>1, <2>2, <2>3
<1>4. CASE ~(reqs[r].tries + 1 < 3)
  <2>1. [reqs[r] EXCEPT !.at = "in_use", !.found = NoRequest] \in Request
    BY <1>2 DEF Request, Ended
  <2>2. reqs' = [reqs EXCEPT ![r] = [reqs[r] EXCEPT !.at = "in_use", !.found = NoRequest]]
    BY <1>4 DEF TryAgain
  <2> QED BY <1>1, <2>1, <2>2
<1> QED BY <1>3, <1>4

(* Every step keeps the type, with and without faults.                     *)
LEMMA TypeStep == TypeOK /\ [Next]_vars => TypeOK'
<1> SUFFICES ASSUME TypeOK, [Next]_vars PROVE TypeOK'
    OBVIOUS
<1>a. ASSUME NEW r \in Requests, NEW p \in Places, Goes(r, p) PROVE reqs' \in [Requests -> Request]
  <2>1. [reqs[r] EXCEPT !.at = p] \in Request
    BY RequestMoved DEF TypeOK
  <2>2. reqs' = [reqs EXCEPT ![r] = [reqs[r] EXCEPT !.at = p]]
    BY <1>a DEF Goes
  <2> QED BY <2>1, <2>2 DEF TypeOK
<1>b. ASSUME NEW r \in Requests, NEW p \in Places
      PROVE  /\ [reqs[r] EXCEPT !.at = p, !.found = row] \in Request
             /\ [reqs[r] EXCEPT !.at = p, !.applied = TRUE] \in Request
  BY RequestMoved DEF TypeOK
<1>c. {"insert", "handle", "store", "release", "remove", "replayed"} \subseteq Places
  BY DEF Places, Guarding, Owning, Ended
<1> USE RequestsAssumption, AgesAssumption DEF TypeOK, Request, Guarding, Owning, Ended
<1>1. ASSUME NEW r \in Requests, Send(r) PROVE TypeOK'
    BY <1>1 DEF Send, Goes
<1>2. ASSUME NEW r \in Requests, TakeKey(r) PROVE TypeOK'
  <2>1. reqs' \in [Requests -> Request] BY <1>2, <1>a, <1>c DEF TakeKey
  <2>2. row' = r /\ stored' = FALSE /\ faulty' = faulty BY <1>2 DEF TakeKey
  <2> HIDE DEF Request
  <2> QED BY <2>1, <2>2
<1>3. ASSUME NEW r \in Requests, KeyTaken(r) PROVE TypeOK'
    BY <1>3 DEF KeyTaken, Goes
<1>4. ASSUME NEW r \in Requests, TryAgain(r) PROVE reqs' \in [Requests -> Request]
    BY <1>4, TryAgainType
<1>5. ASSUME NEW r \in Requests, Lookup(r) PROVE TypeOK'
  <2>1. CASE TryAgain(r)
    BY <1>4, <1>5, <2>1 DEF Lookup
  <2>2. CASE \E where \in {"remove", "replayed"}:
                 reqs' = [reqs EXCEPT ![r] = [reqs[r] EXCEPT !.at = where, !.found = row]]
    <3>1. PICK where \in {"remove", "replayed"}:
              reqs' = [reqs EXCEPT ![r] = [reqs[r] EXCEPT !.at = where, !.found = row]]
        BY <2>2
    <3>2. [reqs[r] EXCEPT !.at = where, !.found = row] \in Request
      <4> HIDE DEF TypeOK, Request, Guarding, Owning, Ended
      <4> where \in Places BY <1>c
      <4> QED BY <1>b
    <3> QED BY <1>5, <3>1, <3>2 DEF Lookup
  <2>3. CASE \E where \in {"reused", "in_use"}: Goes(r, where)
    BY <1>5, <2>3 DEF Lookup, Goes
  <2> QED BY <1>5, <2>1, <2>2, <2>3 DEF Lookup
<1>6. ASSUME NEW r \in Requests, Remove(r) PROVE TypeOK'
    BY <1>4, <1>6 DEF Remove, RowLeft
<1>7. ASSUME NEW r \in Requests, Apply(r) PROVE TypeOK'
  <2>1. faulty' \subseteq Requests
    BY <1>7 DEF Apply
  <2>2. PICK then \in {"store", "release"}: reqs' = [reqs EXCEPT ![r] = [reqs[r] EXCEPT !.at = then, !.applied = TRUE]]
    BY <1>7 DEF Apply
  <2>3. [reqs[r] EXCEPT !.at = then, !.applied = TRUE] \in Request
    <3> HIDE DEF TypeOK, Request, Guarding, Owning, Ended
    <3> then \in Places BY <1>c
    <3> QED BY <1>b
  <2> QED BY <1>7, <2>1, <2>2, <2>3 DEF Apply
<1>8. ASSUME NEW r \in Requests, HandlerFails(r) PROVE TypeOK'
    BY <1>8 DEF HandlerFails, Goes
<1>9. ASSUME NEW r \in Requests, StoreResponse(r) PROVE TypeOK'
  <2>1. reqs' \in [Requests -> Request]
    BY <1>9 DEF StoreResponse, Goes
  <2>2. row' = row /\ stored' \in BOOLEAN /\ faulty' \subseteq Requests
    BY <1>9 DEF StoreResponse
  <2> QED BY <2>1, <2>2
<1>10. ASSUME NEW r \in Requests, ReleaseKey(r) PROVE TypeOK'
    BY <1>10 DEF ReleaseKey, Goes, RowLeft
<1>11. ASSUME NEW r \in Requests, Interrupted(r) PROVE TypeOK'
    BY <1>11 DEF Interrupted, Goes
<1>12. CASE PurgeIdempotencyKeys
    BY <1>12 DEF PurgeIdempotencyKeys
<1>13. CASE Tick
    BY <1>13 DEF Tick, Older, Late
<1>14. CASE UNCHANGED vars
    BY <1>14 DEF vars
<1> QED
    BY <1>1, <1>2, <1>3, <1>5, <1>6, <1>7, <1>8, <1>9, <1>10, <1>11, <1>12, <1>13, <1>14 DEF Next, Step

(* Initially nothing has been sent.                                        *)
LEMMA InitType == Init => TypeOK
<1> SUFFICES ASSUME Init PROVE TypeOK
  OBVIOUS
<1> DEFINE Fresh == [body: Bodies, at: {"unsent"}, tries: {0}, age: {0}, found: {NoRequest}, applied: {FALSE}]
<1>1. ASSUME NEW q \in Fresh PROVE q \in Request
  <2>1. 0 \in 0..2 /\ 0 \in 0..(Ttl + MaxLag)
      BY AgesAssumption
  <2>2. PICK b \in Bodies:
            q = [body |-> b, at |-> "unsent", tries |-> 0, age |-> 0, found |-> NoRequest, applied |-> FALSE]
      OBVIOUS
  <2>3. [body |-> b, at |-> "unsent", tries |-> 0, age |-> 0, found |-> NoRequest, applied |-> FALSE] \in Request
      BY <2>1 DEF Request
  <2> QED BY <2>2, <2>3
<1>2. reqs \in [Requests -> Request]
  BY <1>1 DEF Init
<1> QED BY <1>2 DEF Init, TypeOK

(* Requests, row and key keep their types whatever goes wrong.             *)
THEOREM KeyTypeCorrect == Spec => []TypeOK
<1> QED BY InitType, TypeStep, PTL DEF Spec

-----------------------------------------------------------------------------
(* What TryAgain does to a request that is not running under the key.      *)
LEMMA TryAgainKeeps ==
    ASSUME TypeOK, NEW r \in Requests, TryAgain(r)
    PROVE  /\ \A q \in Requests \ {r}: reqs'[q] = reqs[q]
           /\ reqs'[r].at \in {"insert", "in_use"}
           /\ reqs'[r].at = "insert" => reqs'[r].age = 0
           /\ reqs'[r].at = "in_use" => reqs'[r].age = reqs[r].age
           /\ reqs'[r].applied = reqs[r].applied
BY DEF TryAgain, TypeOK, Request

(* Every step keeps the invariant.                                         *)
LEMMA SoundStep ==
    ASSUME IInv, [Next]_vars
    PROVE  IInv'
<1>1. TypeOK'
    BY TypeStep DEF IInv
<1> USE <1>1, RequestsAssumption, AgesAssumption
    DEF IInv, Sound, TypeOK, GuardInTime, OwnerHasRow, RowHasOwner, EffectRemembered, RemovedIsOld,
        Guarding, Owning, Ended, Request
<1>2. ASSUME NEW r \in Requests, Send(r) PROVE IInv'
    BY <1>2 DEF Send, Goes
<1>3. ASSUME NEW r \in Requests, TakeKey(r) PROVE IInv'
    BY <1>3 DEF TakeKey, Goes
<1>4. ASSUME NEW r \in Requests, KeyTaken(r) PROVE IInv'
    BY <1>4 DEF KeyTaken, Goes
<1>5. ASSUME NEW r \in Requests, Lookup(r) PROVE IInv'
  <2>1. CASE row = NoRequest /\ TryAgain(r)
    BY <1>5, <2>1, TryAgainKeeps DEF Lookup
  <2>2. CASE row # NoRequest /\ Stale(r) /\ reqs' = [reqs EXCEPT ![r] = [reqs[r] EXCEPT !.at = "remove", !.found = row]]
    <3>1. row \in Requests /\ (row \in Sound => reqs[row].age >= Ttl)
        BY <2>2 DEF Stale, AgeSeen
    <3> QED BY <1>5, <2>2, <3>1 DEF Lookup
  <2>3. CASE \E where \in {"reused", "in_use"}: Goes(r, where)
    BY <1>5, <2>3 DEF Lookup, Goes
  <2>4. CASE reqs' = [reqs EXCEPT ![r] = [reqs[r] EXCEPT !.at = "replayed", !.found = row]]
    BY <1>5, <2>4 DEF Lookup
  <2> QED BY <1>5, <2>1, <2>2, <2>3, <2>4 DEF Lookup
<1>6. ASSUME NEW r \in Requests, Remove(r) PROVE IInv'
    BY <1>6, TryAgainKeeps DEF Remove, RowLeft
<1>7. ASSUME NEW r \in Requests, Apply(r) PROVE IInv'
  <2>1. PICK then \in {"store", "release"}:
            /\ reqs' = [reqs EXCEPT ![r] = [reqs[r] EXCEPT !.at = then, !.applied = TRUE]]
            /\ faulty' = IF then = "store" THEN faulty ELSE faulty \cup {r}
    BY <1>7 DEF Apply
  <2>2. /\ \A q \in Requests \ {r}: reqs'[q] = reqs[q]
        /\ reqs'[r].at = then /\ reqs'[r].age = reqs[r].age
    BY <2>1
  <2>3. reqs[r].at = "handle" /\ row' = row /\ stored' = stored
    BY <1>7 DEF Apply
  <2>4. Sound' \subseteq Sound /\ (r \in Sound' => then = "store")
    BY <2>1
  <2> QED BY <2>2, <2>3, <2>4
<1>8. ASSUME NEW r \in Requests, HandlerFails(r) PROVE IInv'
    BY <1>8 DEF HandlerFails, Goes
<1>9. ASSUME NEW r \in Requests, StoreResponse(r) PROVE IInv'
  <2>1. reqs[r].at = "store" /\ row' = row /\ reqs' = [reqs EXCEPT ![r].at = "answered"]
    BY <1>9 DEF StoreResponse, Goes
  <2>2. /\ \A q \in Requests \ {r}: reqs'[q] = reqs[q]
        /\ reqs'[r].at = "answered" /\ reqs'[r].age = reqs[r].age
    BY <2>1
  <2>3. /\ Sound' \subseteq Sound
        /\ r \in Sound' => stored' = (stored \/ row = r)
        /\ row # r => stored' = stored
    BY <1>9 DEF StoreResponse
  <2>4. \A q \in Sound' \ {r}: r \in Sound => reqs[q].at \notin Owning
    BY <2>1, <2>3
  <2> QED BY <2>1, <2>2, <2>3, <2>4
<1>10. ASSUME NEW r \in Requests, ReleaseKey(r) PROVE IInv'
    BY <1>10 DEF ReleaseKey, Goes, RowLeft
<1>11. ASSUME NEW r \in Requests, Interrupted(r) PROVE IInv'
  <2>1. row' = row /\ stored' = stored /\ faulty' = faulty \cup {r} /\ reqs' = [reqs EXCEPT ![r].at = "gone"]
    BY <1>11 DEF Interrupted, Goes
  <2>2. /\ \A q \in Requests \ {r}: reqs'[q] = reqs[q]
        /\ reqs'[r].at = "gone" /\ reqs'[r].age = reqs[r].age
    BY <2>1
  <2>3. Sound' \subseteq Sound /\ r \notin Sound'
    BY <2>1
  <2> QED BY <2>1, <2>2, <2>3
<1>12. CASE PurgeIdempotencyKeys
    BY <1>12 DEF PurgeIdempotencyKeys
<1>13. CASE Tick
  <2>1. row' = row /\ stored' = stored /\ Sound' \subseteq Sound
    BY <1>13 DEF Tick
  <2>2. \A q \in Requests:
            /\ reqs'[q].at = reqs[q].at /\ reqs'[q].found = reqs[q].found /\ reqs'[q].applied = reqs[q].applied
            /\ reqs'[q].age \in {reqs[q].age, reqs[q].age + 1}
    BY <1>13 DEF Tick, Older
  <2>3. \A q \in Sound': reqs[q].at \in Owning => reqs[q].age + 1 < Timeout
    BY <1>13 DEF Tick, Late
  <2>4. \A q \in Sound: reqs[q].at \in Guarding => reqs[q].age < MaxLag
    BY <1>13 DEF Tick
  <2>5. \A q \in Sound: reqs[q].at = "unsent" => reqs'[q] = reqs[q]
    BY <1>13 DEF Tick, Older
  <2> QED BY <2>1, <2>2, <2>3, <2>4, <2>5
<1>14. CASE UNCHANGED vars
    BY <1>14 DEF vars
<1> QED
    BY <1>2, <1>3, <1>4, <1>5, <1>6, <1>7, <1>8, <1>9, <1>10, <1>11, <1>12, <1>13, <1>14 DEF Next, Step

(* For any requests, timeout and lifetime, and whatever goes wrong with    *)
(* others: of the requests that finish within the in-progress timeout, are *)
(* not interrupted, do not fail after their commit and store their         *)
(* response, a key applies one in 24 hours (idempotencyGuard and           *)
(* storeIdempotentResponse).                                               *)
THEOREM AppliedOnceIfSound == Spec => []AppliedOnce
<1>1. Init => IInv
  <2> SUFFICES ASSUME Init PROVE IInv
    OBVIOUS
  <2>1. TypeOK
    BY InitType
  <2>2. \A r \in Requests: reqs[r].at = "unsent" /\ reqs[r].age = 0 /\ ~reqs[r].applied
    BY DEF Init
  <2> QED BY <2>1, <2>2, AgesAssumption, RequestsAssumption DEF Init, IInv, GuardInTime, OwnerHasRow, RowHasOwner, EffectRemembered, RemovedIsOld,
        Guarding, Owning, Sound
<1>2. IInv => AppliedOnce
    BY DEF IInv, TypeOK, EffectRemembered, OwnerHasRow, Owning, AppliedOnce, Recent, Sound
<1>3. IInv /\ [Next]_vars => IInv'
    BY SoundStep
<1> QED BY <1>1, <1>2, <1>3, PTL DEF Spec

-----------------------------------------------------------------------------
Early == {"unsent"} \cup Guarding

(* The key's row, and a row about to be removed, belong to requests that   *)
(* have left the guard: their age is the row's and only grows.             *)
RowsHaveAge ==
    /\ row # NoRequest => reqs[row].at \notin Early
    /\ \A r \in Requests: reqs[r].at = "remove" =>
           /\ reqs[r].found \in Requests
           /\ reqs[reqs[r].found].at \notin Early
           /\ reqs[reqs[r].found].age >= Timeout

(* Whatever goes wrong, every step keeps that.                             *)
LEMMA RowsHaveAgeStep ==
    ASSUME TypeOK, RowsHaveAge, [Next]_vars
    PROVE  RowsHaveAge'
<1>1. TypeOK'
    BY TypeStep
<1> USE <1>1, RequestsAssumption, AgesAssumption DEF TypeOK, RowsHaveAge, Early, Guarding, Owning, Ended, Request
<1>2. ASSUME NEW r \in Requests, Send(r) PROVE RowsHaveAge'
    BY <1>2 DEF Send, Goes
<1>3. ASSUME NEW r \in Requests, TakeKey(r) PROVE RowsHaveAge'
    BY <1>3 DEF TakeKey, Goes
<1>4. ASSUME NEW r \in Requests, KeyTaken(r) PROVE RowsHaveAge'
    BY <1>4 DEF KeyTaken, Goes
<1>5. ASSUME NEW r \in Requests, Lookup(r) PROVE RowsHaveAge'
  <2>1. CASE row = NoRequest /\ TryAgain(r)
    BY <1>5, <2>1, TryAgainKeeps DEF Lookup
  <2>2. CASE row # NoRequest /\ Stale(r) /\ reqs' = [reqs EXCEPT ![r] = [reqs[r] EXCEPT !.at = "remove", !.found = row]]
    <3>1. reqs[row].age >= Timeout
        BY <2>2 DEF Stale, AgeSeen
    <3> QED BY <1>5, <2>2, <3>1 DEF Lookup
  <2>3. CASE \E where \in {"reused", "in_use"}: Goes(r, where)
    BY <1>5, <2>3 DEF Lookup, Goes
  <2>4. CASE reqs' = [reqs EXCEPT ![r] = [reqs[r] EXCEPT !.at = "replayed", !.found = row]]
    BY <1>5, <2>4 DEF Lookup
  <2> QED BY <1>5, <2>1, <2>2, <2>3, <2>4 DEF Lookup
<1>6. ASSUME NEW r \in Requests, Remove(r) PROVE RowsHaveAge'
    BY <1>6, TryAgainKeeps DEF Remove, RowLeft
<1>7. ASSUME NEW r \in Requests, Apply(r) PROVE RowsHaveAge'
  <2>1. PICK then \in {"store", "release"}:
            reqs' = [reqs EXCEPT ![r] = [reqs[r] EXCEPT !.at = then, !.applied = TRUE]]
    BY <1>7 DEF Apply
  <2> QED BY <1>7, <2>1 DEF Apply
<1>8. ASSUME NEW r \in Requests, HandlerFails(r) PROVE RowsHaveAge'
    BY <1>8 DEF HandlerFails, Goes
<1>9. ASSUME NEW r \in Requests, StoreResponse(r) PROVE RowsHaveAge'
    BY <1>9 DEF StoreResponse, Goes
<1>10. ASSUME NEW r \in Requests, ReleaseKey(r) PROVE RowsHaveAge'
    BY <1>10 DEF ReleaseKey, Goes, RowLeft
<1>11. ASSUME NEW r \in Requests, Interrupted(r) PROVE RowsHaveAge'
    BY <1>11 DEF Interrupted, Goes
<1>12. CASE PurgeIdempotencyKeys
    BY <1>12 DEF PurgeIdempotencyKeys
<1>13. CASE Tick
    BY <1>13 DEF Tick, Older, Late
<1>14. CASE UNCHANGED vars
    BY <1>14 DEF vars
<1> QED
    BY <1>2, <1>3, <1>4, <1>5, <1>6, <1>7, <1>8, <1>9, <1>10, <1>11, <1>12, <1>13, <1>14 DEF Next, Step

(* Whatever goes wrong, a row younger than the in-progress timeout is      *)
(* deleted by nobody but the request that took the key and failed: the     *)
(* guard deletes the row it found, by id.                                  *)
THEOREM NewerRowIsKept == Spec => NewerRowKept
<1> DEFINE Kept == row # NoRequest /\ row' # row => reqs[row].age >= Timeout \/ reqs[row].at = "release"
<1>1. Init => RowsHaveAge
  <2> SUFFICES ASSUME Init PROVE RowsHaveAge
    OBVIOUS
  <2>1. \A r \in Requests: reqs[r].at = "unsent"
    BY DEF Init
  <2> QED BY <2>1 DEF Init, RowsHaveAge
<1>2. TypeOK /\ RowsHaveAge /\ [Next]_vars => [Kept]_vars
  <2> SUFFICES ASSUME TypeOK, RowsHaveAge, Next, row # NoRequest, row' # row
               PROVE  reqs[row].age >= Timeout \/ reqs[row].at = "release"
    OBVIOUS
  <2>1. ASSUME NEW r \in Requests, TakeKey(r) PROVE FALSE
    BY <2>1 DEF TakeKey
  <2>2. ASSUME NEW r \in Requests, Remove(r) PROVE reqs[row].age >= Timeout
    BY <2>2 DEF Remove, RowLeft, RowsHaveAge
  <2>3. ASSUME NEW r \in Requests, ReleaseKey(r) PROVE reqs[row].at = "release"
    BY <2>3 DEF ReleaseKey, RowLeft
  <2>4. CASE PurgeIdempotencyKeys
    BY <2>4, AgesAssumption DEF PurgeIdempotencyKeys, TypeOK, Request
  <2> QED BY <2>1, <2>2, <2>3, <2>4
        DEF Next, Step, Send, KeyTaken, Lookup, Apply, HandlerFails, StoreResponse, Interrupted, Tick
<1>3. TypeOK /\ RowsHaveAge /\ [Next]_vars => RowsHaveAge'
    BY RowsHaveAgeStep
<1> QED BY <1>1, <1>2, <1>3, InitType, TypeStep, PTL DEF Spec, NewerRowKept

-----------------------------------------------------------------------------
(* A response is stored after its request was applied, and the row that    *)
(* has one is of a request that was answered and never runs again.         *)
StoredIsApplied ==
    /\ \A r \in Requests: reqs[r].at = "store" => reqs[r].applied
    /\ row # NoRequest /\ stored => reqs[row].applied /\ reqs[row].at = "answered"

(* Whatever goes wrong, every step keeps that: an owner whose row was      *)
(* removed completes nobody else's.                                        *)
LEMMA StoredIsAppliedStep ==
    ASSUME TypeOK, StoredIsApplied, [Next]_vars
    PROVE  StoredIsApplied'
<1>1. TypeOK'
    BY TypeStep
<1> USE <1>1, RequestsAssumption DEF TypeOK, StoredIsApplied, Guarding, Owning, Ended, Request
<1>2. ASSUME NEW r \in Requests, Send(r) PROVE StoredIsApplied'
    BY <1>2 DEF Send, Goes
<1>3. ASSUME NEW r \in Requests, TakeKey(r) PROVE StoredIsApplied'
    BY <1>3 DEF TakeKey, Goes
<1>4. ASSUME NEW r \in Requests, KeyTaken(r) PROVE StoredIsApplied'
    BY <1>4 DEF KeyTaken, Goes
<1>5. ASSUME NEW r \in Requests, Lookup(r) PROVE StoredIsApplied'
  <2>1. CASE row = NoRequest /\ TryAgain(r)
    BY <1>5, <2>1, TryAgainKeeps DEF Lookup
  <2>2. CASE \E where \in {"remove", "replayed"}:
                 reqs' = [reqs EXCEPT ![r] = [reqs[r] EXCEPT !.at = where, !.found = row]]
    BY <1>5, <2>2 DEF Lookup
  <2>3. CASE \E where \in {"reused", "in_use"}: Goes(r, where)
    BY <1>5, <2>3 DEF Lookup, Goes
  <2> QED BY <1>5, <2>1, <2>2, <2>3 DEF Lookup
<1>6. ASSUME NEW r \in Requests, Remove(r) PROVE StoredIsApplied'
    BY <1>6, TryAgainKeeps DEF Remove, RowLeft
<1>7. ASSUME NEW r \in Requests, Apply(r) PROVE StoredIsApplied'
  <2>1. PICK then \in {"store", "release"}:
            reqs' = [reqs EXCEPT ![r] = [reqs[r] EXCEPT !.at = then, !.applied = TRUE]]
    BY <1>7 DEF Apply
  <2> QED BY <1>7, <2>1 DEF Apply
<1>8. ASSUME NEW r \in Requests, HandlerFails(r) PROVE StoredIsApplied'
    BY <1>8 DEF HandlerFails, Goes
<1>9. ASSUME NEW r \in Requests, StoreResponse(r) PROVE StoredIsApplied'
    BY <1>9 DEF StoreResponse, Goes
<1>10. ASSUME NEW r \in Requests, ReleaseKey(r) PROVE StoredIsApplied'
    BY <1>10 DEF ReleaseKey, Goes, RowLeft
<1>11. ASSUME NEW r \in Requests, Interrupted(r) PROVE StoredIsApplied'
    BY <1>11 DEF Interrupted, Goes
<1>12. CASE PurgeIdempotencyKeys
    BY <1>12 DEF PurgeIdempotencyKeys
<1>13. CASE Tick
    BY <1>13 DEF Tick, Older
<1>14. CASE UNCHANGED vars
    BY <1>14 DEF vars
<1> QED
    BY <1>2, <1>3, <1>4, <1>5, <1>6, <1>7, <1>8, <1>9, <1>10, <1>11, <1>12, <1>13, <1>14 DEF Next, Step

(* Whatever goes wrong and whoever overruns: a repeat is answered with the *)
(* response of a request of the same content that was applied, less than   *)
(* the key's lifetime before (idempotencyGuard, storeIdempotentResponse).  *)
THEOREM ReplaysAreGenuine == Spec => ReplayIsGenuine
<1> DEFINE Genuine(r) ==
               reqs[r].at # "replayed" /\ reqs'[r].at = "replayed" =>
                   LET q == reqs'[r].found
                   IN  reqs[q].applied /\ reqs[q].body = reqs[r].body /\ reqs[q].age - reqs[r].age < Ttl
<1>1. Init => StoredIsApplied
  <2> SUFFICES ASSUME Init PROVE StoredIsApplied
    OBVIOUS
  <2>1. \A r \in Requests: reqs[r].at = "unsent"
    BY DEF Init
  <2> QED BY <2>1 DEF Init, StoredIsApplied
<1>2. TypeOK /\ StoredIsApplied /\ [Next]_vars => [\A r \in Requests: Genuine(r)]_vars
  <2> SUFFICES ASSUME TypeOK, StoredIsApplied, Next, NEW r \in Requests,
                      reqs[r].at # "replayed", reqs'[r].at = "replayed"
               PROVE  LET q == reqs'[r].found
                      IN  reqs[q].applied /\ reqs[q].body = reqs[r].body /\ reqs[q].age - reqs[r].age < Ttl
    OBVIOUS
  <2> USE DEF TypeOK
  <2>1. ASSUME NEW q \in Requests, TryAgain(q) PROVE FALSE
    BY <2>1, TryAgainKeeps
  <2>2. ASSUME NEW q \in Requests, NEW where, where # "replayed", Goes(q, where) PROVE FALSE
    BY <2>2 DEF Goes
  <2>3. ASSUME NEW q \in Requests, Apply(q) PROVE FALSE
    <3>1. PICK then \in {"store", "release"}:
              reqs' = [reqs EXCEPT ![q] = [reqs[q] EXCEPT !.at = then, !.applied = TRUE]]
        BY <2>3 DEF Apply
    <3> QED BY <3>1 DEF Request
  <2>4. ~Tick
    BY DEF Tick, Older, Request
  <2>5. ~PurgeIdempotencyKeys
    BY DEF PurgeIdempotencyKeys
  <2>6. PICK q \in Requests: Lookup(q)
    BY <2>1, <2>2, <2>3, <2>4, <2>5
       DEF Next, Step, Send, TakeKey, KeyTaken, Remove, HandlerFails, StoreResponse, ReleaseKey, Interrupted
  <2>7. /\ row # NoRequest /\ ~Stale(q) /\ reqs[row].body = reqs[q].body /\ stored
        /\ reqs' = [reqs EXCEPT ![q] = [reqs[q] EXCEPT !.at = "replayed", !.found = row]]
    <3>1. CASE reqs' = [reqs EXCEPT ![q] = [reqs[q] EXCEPT !.at = "remove", !.found = row]]
        BY <3>1 DEF Request
    <3> QED BY <2>1, <2>2, <2>6, <3>1 DEF Lookup
  <2>8. r = q /\ reqs'[r].found = row
    BY <2>7 DEF Request
  <2>9. reqs[row].age - reqs[q].age < Ttl
    <3>1. reqs[row].age \in Int /\ reqs[q].age \in Int /\ Ttl \in Int
        BY <2>7, AgesAssumption DEF Request
    <3> QED BY <2>7, <3>1 DEF Stale, AgeSeen
  <2> QED BY <2>7, <2>8, <2>9 DEF StoredIsApplied
<1>3. TypeOK /\ StoredIsApplied /\ [Next]_vars => StoredIsApplied'
    BY StoredIsAppliedStep
<1> QED BY <1>1, <1>2, <1>3, InitType, TypeStep, PTL DEF Spec, ReplayIsGenuine
=============================================================================
