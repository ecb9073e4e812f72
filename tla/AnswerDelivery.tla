--------------------------- MODULE AnswerDelivery ---------------------------
(***************************************************************************)
(* The way of an answer from the keyboard to the server's table: the       *)
(* AnswerStore of the candidate page (candidate/answers.ts), the answer    *)
(* lane of its outbox (candidate/outbox.ts: a record per question in       *)
(* IndexedDB, a delivery pass that sends a snapshot of it, and what is     *)
(* parked while the exam is paused), the controller that restores and      *)
(* settles them (candidate/controller.ts) and the server's saveAnswer.     *)
(*                                                                         *)
(* A value is the ordinal of the edit that typed it, so the order of the   *)
(* values is the order in which the candidate typed them, on whichever     *)
(* browser; it is also the edit's answeredAt.  A page is known by the      *)
(* number of its load: every load is a new client instance (api.ts         *)
(* getPageInstanceId).  IndexedDB runs the transactions on a store one     *)
(* after the other, so an atomic update and the change of the in-memory    *)
(* index that follows it are one step.                                     *)
(***************************************************************************)
EXTENDS Integers, Sequences, FiniteSets, FiniteSetsExt

CONSTANTS Browsers,   \* devices, each with its own IndexedDB
          Questions,
          MaxEdits,   \* bound: edits typed
          MaxLoads,   \* bound: pages loaded
          MaxPauses   \* bound: pauses and holds

ASSUME AnswerAssumption ==
    /\ Browsers # {} /\ IsFiniteSet(Browsers) /\ IsFiniteSet(Questions)
    /\ MaxEdits \in Nat /\ MaxLoads \in Nat /\ MaxPauses \in Nat

VARIABLES
    edits,    \* edits typed so far
    loads,    \* pages loaded so far
    pauses,   \* pauses and holds so far
    status,   \* the session's status: "active", "paused" (or on hold), "ended"
    pausedAt, \* when the open pause began (edits typed by then)
    control,  \* the page in control (activeInstanceId = verifiedInstanceId)
    server,   \* the answers table: the newest row per question
    rec,      \* IndexedDB: the answer record per browser and question
    page,     \* the page: its load, what it knows of the session, its seq counter
    shown,    \* AnswerStore.values
    dirty,    \* AnswerStore.dirty: edits not persisted yet (0: none)
    writes,   \* AnswerStore.writes: saves on their way to the outbox, in order
    box,      \* the outbox in memory: index of pending answers, parked questions
    pass,     \* the delivery pass: snapshots left to send, the open request, its reply
    net,      \* requests that left a page and have not reached the server
    dto,      \* a session state the server sent that the page has not applied yet
    restore,  \* a restore in progress: the questions left and what it read
    unsaved,  \* values the page reported as not saved (onDropped, noteUnsavedAnswers)
    typedOn,  \* history: the browser each edit was typed on
    requeued  \* history: the values a restore queued again

vars == <<edits, loads, pauses, status, pausedAt, control, server, rec, page, shown,
          dirty, writes, box, pass, net, dto, restore, unsaved, typedOn, requeued>>

history == <<typedOn, requeued>>
serverVars == <<status, pausedAt, control, server, pauses>>

NoRow == [seq |-> 0, val |-> 0]
NoRecord == [seq |-> 0, val |-> 0, pending |-> FALSE, parked |-> FALSE]
NoItem == [q |-> "none", seq |-> 0, val |-> 0]
NoTable == [q \in {} |-> NoRow]
IdlePass == [on |-> FALSE, todo |-> {}, cur |-> NoItem, reply |-> "none"]
NoRestore == [on |-> FALSE, left |-> {}, local |-> NoTable, server |-> NoTable]

(***************************************************************************)
(* The outbox's records.                                                   *)
(***************************************************************************)

\* A lower or equal clientSeq never replaces the record; a new edit is pending
\* and no longer parked.
PutRecord(r, val, seq) ==
    IF r.seq >= seq THEN r
    ELSE [seq |-> seq, val |-> val, pending |-> TRUE, parked |-> FALSE]

putAnswer(b, q, val, seq) ==
    /\ rec' = [rec EXCEPT ![b][q] = PutRecord(@, val, seq)]
    /\ box' = IF rec[b][q].seq >= seq THEN box
              ELSE [box EXCEPT ![b].index = @ \union {q}, ![b].parked = @ \ {q}]

\* An answer known to be on the server: stored as delivered unless the record is
\* as new or newer; the index follows what is stored then.
rememberDeliveredAnswer(b, q, row) ==
    LET next == IF rec[b][q].seq >= row.seq THEN rec[b][q]
                ELSE [seq |-> row.seq, val |-> row.val, pending |-> FALSE, parked |-> FALSE]
    IN  /\ rec' = [rec EXCEPT ![b][q] = next]
        /\ box' = IF next.pending THEN box
                  ELSE [box EXCEPT ![b].index = @ \ {q}, ![b].parked = @ \ {q}]

(* Mutant: the record is settled whatever version it holds by now.         *)
settleAnyVersion(b, i) ==
    /\ rec' = [rec EXCEPT ![b][i.q] = [@ EXCEPT !.pending = FALSE, !.parked = FALSE]]
    /\ box' = [box EXCEPT ![b].index = @ \ {i.q}, ![b].parked = @ \ {i.q}]

\* This version of the answer is no longer pending; a newer one stays queued.
settleAnswer(b, i) ==
    LET same == rec[b][i.q].seq = i.seq
    IN  /\ rec' = IF same THEN [rec EXCEPT ![b][i.q] = [@ EXCEPT !.pending = FALSE, !.parked = FALSE]]
                  ELSE rec
        /\ box' = IF same THEN [box EXCEPT ![b].index = @ \ {i.q}, ![b].parked = @ \ {i.q}]
                  ELSE box

\* Kept for when the exam is active again, unless a newer edit was queued meanwhile.
parkAnswer(b, i) ==
    LET same == rec[b][i.q].pending /\ rec[b][i.q].seq = i.seq
    IN  /\ rec' = IF same THEN [rec EXCEPT ![b][i.q].parked = TRUE] ELSE rec
        /\ box' = IF same THEN [box EXCEPT ![b].parked = @ \union {i.q}] ELSE box

\* The parked answers are tried again.  (The stored flag follows in the background;
\* a page loaded before it does reads them as parked and resumes them itself.)
resumeAnswers(b) ==
    /\ box' = [box EXCEPT ![b].parked = {}]
    /\ rec' = [rec EXCEPT ![b] = [q \in Questions |-> [@[q] EXCEPT !.parked = FALSE]]]

(***************************************************************************)
(* The candidate types.                                                    *)
(***************************************************************************)

Init ==
    /\ edits = 0 /\ loads = Cardinality(Browsers) /\ pauses = 0
    /\ status = "active" /\ pausedAt = 0 /\ control = 0
    /\ server = [q \in Questions |-> NoRow]
    /\ rec = [b \in Browsers |-> [q \in Questions |-> NoRecord]]
    /\ \E f \in [Browsers -> 1..Cardinality(Browsers)] :
          /\ \A b, c \in Browsers : b # c => f[b] # f[c]
          /\ page = [b \in Browsers |-> [inst |-> f[b], verified |-> FALSE, fatal |-> FALSE,
                                          served |-> FALSE, open |-> FALSE, seq |-> 0]]
    /\ shown = [b \in Browsers |-> [q \in Questions |-> 0]]
    /\ dirty = [b \in Browsers |-> [q \in Questions |-> 0]]
    /\ writes = [b \in Browsers |-> <<>>]
    /\ box = [b \in Browsers |-> [index |-> {}, parked |-> {}]]
    /\ pass = [b \in Browsers |-> IdlePass]
    /\ net = {} /\ unsaved = {} /\ typedOn = <<>> /\ requeued = {}
    /\ dto = [b \in Browsers |-> NoTable]
    /\ restore = [b \in Browsers |-> NoRestore]

\* AnswerStore.set: shown at once, persisted later (debounced).  The exam screen
\* is there while the page's state of the session has the questions.
set(b, q) ==
    /\ edits < MaxEdits /\ page[b].open /\ page[b].served /\ ~page[b].fatal
    /\ edits' = edits + 1
    /\ shown' = [shown EXCEPT ![b][q] = edits + 1]
    /\ dirty' = [dirty EXCEPT ![b][q] = edits + 1]
    /\ typedOn' = Append(typedOn, b)
    /\ UNCHANGED <<requeued, loads, serverVars, rec, page, writes, box, pass, net, dto, restore, unsaved>>

\* AnswerStore.persist (the debounce timer, flushPending): the edit gets the next
\* sequence number and waits for the saves before it.
persist(b, q) ==
    /\ dirty[b][q] # 0
    /\ page' = [page EXCEPT ![b].seq = @ + 1]
    /\ writes' = [writes EXCEPT ![b] = Append(@, [q |-> q, val |-> dirty[b][q], seq |-> page[b].seq + 1])]
    /\ dirty' = [dirty EXCEPT ![b][q] = 0]
    /\ UNCHANGED <<history, edits, loads, serverVars, rec, shown, box, pass, net, dto, restore, unsaved>>

\* The save reaches the outbox.
WriteLands(b) ==
    /\ writes[b] # <<>>
    /\ LET w == Head(writes[b]) IN putAnswer(b, w.q, w.val, w.seq)
    /\ writes' = [writes EXCEPT ![b] = Tail(@)]
    /\ UNCHANGED <<history, edits, loads, serverVars, page, shown, dirty, pass, net, dto, restore, unsaved>>

(***************************************************************************)
(* Delivery.                                                               *)
(***************************************************************************)

Deliverable(b) == {q \in Questions : rec[b][q].pending /\ q \notin box[b].parked}

\* A pass begins with a snapshot of the pending answers that are not parked; the
\* gate is open once the page knows it is the verified one.  The pass sends them
\* in the order they were queued; here in any order.
flushAnswers(b) ==
    /\ ~pass[b].on /\ page[b].verified /\ ~page[b].fatal
    /\ box[b].index \ box[b].parked # {}
    /\ pass' = [pass EXCEPT ![b] = [IdlePass EXCEPT
                    !.on = TRUE,
                    !.todo = {[q |-> q, seq |-> rec[b][q].seq, val |-> rec[b][q].val] : q \in Deliverable(b)}]]
    /\ UNCHANGED <<history, edits, loads, serverVars, rec, page, shown, dirty, writes, box, net, dto, restore, unsaved>>

\* The next snapshot is sent (its question is not parked: a pass parks only what it
\* has sent).
SendNext(b) ==
    /\ pass[b].on /\ pass[b].cur = NoItem
    /\ \E i \in pass[b].todo :
          /\ i.q \notin box[b].parked
          /\ pass' = [pass EXCEPT ![b].todo = @ \ {i}, ![b].cur = i]
          /\ net' = net \union {[b |-> b, inst |-> page[b].inst, item |-> i]}
    /\ UNCHANGED <<history, edits, loads, serverVars, rec, page, shown, dirty, writes, box, dto, restore, unsaved>>

\* saveAnswer on the server.  An answer given before the open pause began is
\* still taken; the row changes only for a higher clientSeq.  (A value the server
\* finds invalid is refused for good, as every value is after the end.)
Verdict(r) ==
    CASE control # r.inst                                   -> "superseded"
      [] status = "active"                                  -> "ok"
      [] status = "paused" /\ r.item.val <= pausedAt        -> "ok"
      [] status = "paused"                                  -> "park"
      [] OTHER                                              -> "ended"

(* Mutant: the last request to arrive wins.                                *)
StoredRowLastWins(r) ==
    IF Verdict(r) = "ok" THEN [seq |-> r.item.seq, val |-> r.item.val] ELSE server[r.item.q]

StoredRow(r) ==
    IF Verdict(r) = "ok" /\ server[r.item.q].seq < r.item.seq
    THEN [seq |-> r.item.seq, val |-> r.item.val]
    ELSE server[r.item.q]

Awaits(r) == page[r.b].inst = r.inst /\ pass[r.b].cur = r.item /\ pass[r.b].reply = "none"

\* The request is handled and the reply reaches the page that still waits for it.
\* A lost reply is a request handled after the page stopped waiting (TimedOut); a
\* lost request is one that is never handled.
saveAnswer(r) ==
    /\ server' = [server EXCEPT ![r.item.q] = StoredRow(r)]
    /\ net' = net \ {r}
    /\ pass' = IF Awaits(r) THEN [pass EXCEPT ![r.b].reply = Verdict(r)] ELSE pass
    /\ UNCHANGED <<history, edits, loads, pauses, status, pausedAt, control, rec, page, shown, dirty,
                   writes, box, dto, restore, unsaved>>

\* No reply in time (the request may still arrive later): the pass stops, its
\* snapshots stay pending for the next one.
TimedOut(b) ==
    /\ pass[b].cur # NoItem /\ pass[b].reply = "none"
    /\ pass' = [pass EXCEPT ![b] = IdlePass]
    /\ UNCHANGED <<history, edits, loads, serverVars, rec, page, shown, dirty, writes, box, net, dto, restore, unsaved>>

\* The pass goes on with its next snapshot, or is over.
NextItem(b) == IF pass[b].todo = {} THEN IdlePass
               ELSE [pass[b] EXCEPT !.cur = NoItem, !.reply = "none"]

Delivered(b) ==
    /\ pass[b].reply = "ok"
    /\ settleAnswer(b, pass[b].cur)
    /\ pass' = [pass EXCEPT ![b] = NextItem(b)]
    /\ UNCHANGED <<history, edits, loads, serverVars, page, shown, dirty, writes, net, dto, restore, unsaved>>

\* Paused or on hold on the server: the answer is parked and the pass goes on.
RefusedWhilePaused(b) ==
    /\ pass[b].reply = "park"
    /\ parkAnswer(b, pass[b].cur)
    /\ pass' = [pass EXCEPT ![b] = NextItem(b)]
    /\ UNCHANGED <<history, edits, loads, serverVars, page, shown, dirty, writes, net, dto, restore, unsaved>>

\* The exam has ended: the answer can never be saved.
RefusedForGood(b) ==
    /\ pass[b].reply = "ended"
    /\ settleAnswer(b, pass[b].cur)
    /\ unsaved' = unsaved \union {pass[b].cur.val}
    /\ pass' = [pass EXCEPT ![b] = NextItem(b)]
    /\ UNCHANGED <<history, edits, loads, serverVars, page, shown, dirty, writes, net, dto, restore>>

\* Another page is in control: this one stops reporting for good (setFatal).
Superseded(b) ==
    /\ pass[b].reply = "superseded"
    /\ page' = [page EXCEPT ![b].fatal = TRUE]
    /\ pass' = [pass EXCEPT ![b] = IdlePass]
    /\ UNCHANGED <<history, edits, loads, serverVars, rec, shown, dirty, writes, box, net, dto, restore, unsaved>>

(***************************************************************************)
(* The session, as far as answers notice it.                               *)
(***************************************************************************)

Pause ==
    /\ status = "active" /\ control # 0 /\ pauses < MaxPauses
    /\ status' = "paused" /\ pausedAt' = edits /\ pauses' = pauses + 1
    /\ UNCHANGED <<history, edits, loads, control, server, rec, page, shown, dirty, writes, box, pass, net, dto, restore, unsaved>>

\* A hold is released: the same page goes on.
Release ==
    /\ status = "paused"
    /\ status' = "active"
    /\ UNCHANGED <<history, edits, loads, pauses, pausedAt, control, server, rec, page, shown, dirty, writes,
                   box, pass, net, dto, restore, unsaved>>

\* A check passes in this page: it is in control and the exam is active; the
\* answer carries the session's state (buildCandidateState).
CheckPassed(b) ==
    /\ status \in {"active", "paused"} /\ ~page[b].fatal /\ ~page[b].served
    /\ control # page[b].inst \/ status = "paused"
    /\ status' = "active" /\ control' = page[b].inst
    /\ dto' = [dto EXCEPT ![b] = server]
    /\ net' = {r \in net : r.inst \in {page[r.b].inst, control'}}
    /\ UNCHANGED <<history, edits, loads, pauses, pausedAt, server, rec, page, shown, dirty, writes, box, pass, restore, unsaved>>

\* load(): the page asks for the state; questions and answers are in it only for
\* the page in control of an active exam.
load(b) ==
    /\ status = "active" /\ control = page[b].inst /\ ~page[b].served /\ ~page[b].fatal
    /\ dto' = [dto EXCEPT ![b] = server]
    /\ UNCHANGED <<history, edits, loads, serverVars, rec, page, shown, dirty, writes, box, pass, net, restore, unsaved>>

\* A heartbeat or poll tells the page that the exam is not active.
LearnPaused(b) ==
    /\ status = "paused" /\ control = page[b].inst /\ page[b].served
    /\ page' = [page EXCEPT ![b].served = FALSE]
    /\ UNCHANGED <<history, edits, loads, serverVars, rec, shown, dirty, writes, box, pass, net, dto, restore, unsaved>>

\* A heartbeat finds the exam active: parked answers are tried again.
HeartbeatActive(b) ==
    /\ status = "active" /\ control = page[b].inst /\ page[b].served /\ ~page[b].fatal
    /\ box[b].parked # {}
    /\ resumeAnswers(b)
    /\ UNCHANGED <<history, edits, loads, serverVars, page, shown, dirty, writes, pass, net, dto, restore, unsaved>>

(***************************************************************************)
(* Restoring and re-syncing the answers.                                   *)
(***************************************************************************)

\* The page applies the state it was sent.  A state with answers after one without
\* starts a restore (first load) or a reconcile (the exam is active again), which
\* reads the stored answers after the saves under way have landed.
apply(b) ==
    /\ dto[b] # NoTable /\ ~page[b].fatal
    /\ writes[b] = <<>> /\ ~restore[b].on
    /\ dto' = [dto EXCEPT ![b] = NoTable]
    /\ page' = [page EXCEPT ![b].verified = TRUE, ![b].served = TRUE,
                    ![b].seq = Max({@} \union {rec[b][q].seq : q \in Questions}
                                       \union {dto[b][q].seq : q \in Questions})]
    /\ restore' = [restore EXCEPT ![b] = [on |-> TRUE, left |-> Questions,
                                           local |-> rec[b], server |-> dto[b]]]
    /\ UNCHANGED <<history, edits, loads, serverVars, rec, shown, dirty, writes, box, pass, net, unsaved>>

\* One question of the restore: the higher clientSeq wins; a local answer the server
\* has not is queued again under a new number; an edit being typed stays on screen.
RestoreQuestion(b, q) ==
    LET l == restore[b].local[q]
        s == restore[b].server[q]
        Show(val) == shown' = IF dirty[b][q] # 0 THEN shown ELSE [shown EXCEPT ![b][q] = val]
        Requeue == /\ putAnswer(b, q, l.val, page[b].seq + 1)
                   /\ page' = [page EXCEPT ![b].seq = @ + 1]
                   /\ requeued' = requeued \union {l.val}
    IN  /\ q \in restore[b].left
        /\ restore' = [restore EXCEPT ![b].left = @ \ {q}]
        /\ \/ l.seq > s.seq /\ Show(l.val) /\ ~l.pending /\ Requeue
           \/ l.seq > s.seq /\ Show(l.val) /\ l.pending /\ UNCHANGED <<rec, box, page, requeued>>
           \/ s.seq > 0 /\ l.seq <= s.seq /\ Show(s.val)
              /\ rememberDeliveredAnswer(b, q, s) /\ UNCHANGED <<page, requeued>>
           \/ s.seq = 0 /\ l.seq = 0 /\ UNCHANGED <<shown, rec, box, page, requeued>>
        /\ UNCHANGED <<typedOn, edits, loads, serverVars, dirty, writes, pass, net, dto, unsaved>>

\* The answers are ready, and settleParkedAnswers tries the parked ones again.
RestoreDone(b) ==
    /\ restore[b].on /\ restore[b].left = {}
    /\ restore' = [restore EXCEPT ![b] = NoRestore]
    /\ page' = [page EXCEPT ![b].open = TRUE]
    /\ resumeAnswers(b)
    /\ UNCHANGED <<history, edits, loads, serverVars, shown, dirty, writes, pass, net, dto, unsaved>>

(***************************************************************************)
(* Ends: the page reloads or crashes, the exam ends.                       *)
(***************************************************************************)

\* A new page on this browser: memory is gone (an edit not persisted with it), the
\* index is rebuilt from IndexedDB (loadIndex) and the page is not verified.
Reload(b) ==
    /\ loads < MaxLoads
    /\ loads' = loads + 1
    /\ page' = [page EXCEPT ![b] = [inst |-> loads + 1, verified |-> FALSE, fatal |-> FALSE,
                                    served |-> FALSE, open |-> FALSE, seq |-> 0]]
    /\ shown' = [shown EXCEPT ![b] = [q \in Questions |-> 0]]
    /\ dirty' = [dirty EXCEPT ![b] = [q \in Questions |-> 0]]
    /\ writes' = [writes EXCEPT ![b] = <<>>]
    /\ box' = [box EXCEPT ![b] = [index |-> {q \in Questions : rec[b][q].pending},
                                  parked |-> {q \in Questions : rec[b][q].pending /\ rec[b][q].parked}]]
    /\ pass' = [pass EXCEPT ![b] = IdlePass]
    /\ dto' = [dto EXCEPT ![b] = NoTable]
    /\ restore' = [restore EXCEPT ![b] = NoRestore]
    /\ net' = {r \in net : r.inst \in {page'[r.b].inst, control}}
    /\ UNCHANGED <<history, edits, serverVars, rec, unsaved>>

\* Staff, the clock or the candidate's withdrawal end the exam.
End ==
    /\ status # "ended" /\ control # 0
    /\ status' = "ended"
    /\ UNCHANGED <<history, edits, loads, pauses, pausedAt, control, server, rec, page, shown, dirty, writes,
                   box, pass, net, dto, restore, unsaved>>

\* submit(): the debounced edits are persisted and every answer delivered first.
submit(b) ==
    /\ status = "active" /\ control = page[b].inst /\ page[b].open /\ page[b].served /\ ~page[b].fatal
    /\ \A q \in Questions : dirty[b][q] = 0
    /\ writes[b] = <<>> /\ box[b].index = {}
    /\ status' = "ended"
    /\ UNCHANGED <<history, edits, loads, pauses, pausedAt, control, server, rec, page, shown, dirty, writes,
                   box, pass, net, dto, restore, unsaved>>

\* The page in control learns that the exam ended: parked answers get the
\* server's final word.
LearnEnded(b) ==
    /\ status = "ended" /\ page[b].verified /\ ~page[b].fatal /\ box[b].parked # {}
    /\ resumeAnswers(b)
    /\ UNCHANGED <<history, edits, loads, serverVars, page, shown, dirty, writes, pass, net, dto, restore, unsaved>>

\* A page that cannot deliver gives up on its pending answers; one the server holds
\* (same or higher clientSeq, when it serves its answers) counts as delivered.
abandonPendingAnswers(b) ==
    /\ status = "ended" /\ ~page[b].verified /\ box[b].index # {}
    /\ \E known \in BOOLEAN :
          unsaved' = unsaved \union {rec[b][q].val :
                        q \in {x \in Questions : rec[b][x].pending /\ (known => server[x].seq < rec[b][x].seq)}}
    /\ rec' = [rec EXCEPT ![b] = [q \in Questions |-> [@[q] EXCEPT !.pending = FALSE, !.parked = FALSE]]]
    /\ box' = [box EXCEPT ![b].index = {}, ![b].parked = {}]
    /\ UNCHANGED <<history, edits, loads, serverVars, page, shown, dirty, writes, pass, net, dto, restore>>

-----------------------------------------------------------------------------

PageStep(b) ==
    \/ \E q \in Questions : set(b, q) \/ persist(b, q) \/ RestoreQuestion(b, q)
    \/ WriteLands(b) \/ flushAnswers(b) \/ SendNext(b) \/ TimedOut(b)
    \/ Delivered(b) \/ RefusedWhilePaused(b) \/ RefusedForGood(b) \/ Superseded(b)
    \/ CheckPassed(b) \/ load(b) \/ LearnPaused(b) \/ HeartbeatActive(b) \/ apply(b) \/ RestoreDone(b)
    \/ Reload(b) \/ submit(b) \/ LearnEnded(b) \/ abandonPendingAnswers(b)

Next ==
    \/ \E b \in Browsers : PageStep(b)
    \/ \E r \in net : saveAnswer(r)
    \/ Pause \/ Release \/ End

Spec == Init /\ [][Next]_vars

-----------------------------------------------------------------------------

Row == [seq : Nat, val : 0..MaxEdits]
Item == [q : Questions, seq : Nat, val : 0..MaxEdits]

\* The variables have their types.
TypeOK ==
    /\ edits \in 0..MaxEdits /\ loads \in 0..MaxLoads /\ pauses \in 0..MaxPauses
    /\ status \in {"active", "paused", "ended"} /\ pausedAt \in 0..MaxEdits
    /\ control \in 0..MaxLoads /\ server \in [Questions -> Row]
    /\ rec \in [Browsers -> [Questions -> [seq : Nat, val : 0..MaxEdits, pending : BOOLEAN, parked : BOOLEAN]]]
    /\ page \in [Browsers -> [inst : 1..MaxLoads, verified : BOOLEAN, fatal : BOOLEAN,
                              served : BOOLEAN, open : BOOLEAN, seq : Nat]]
    /\ shown \in [Browsers -> [Questions -> 0..MaxEdits]]
    /\ dirty \in [Browsers -> [Questions -> 0..MaxEdits]]
    /\ \A b \in Browsers : writes[b] \in Seq(Item)
    /\ box \in [Browsers -> [index : SUBSET Questions, parked : SUBSET Questions]]
    /\ \A b \in Browsers : pass[b].todo \subseteq Item /\ pass[b].cur \in Item \union {NoItem}
    /\ unsaved \subseteq 1..MaxEdits /\ requeued \subseteq 1..MaxEdits /\ typedOn \in Seq(Browsers)

\* An answer that counts as delivered on the device is on the server, in this or a
\* later version, unless the page reported it as not saved.
SettledMeansSaved ==
    \A b \in Browsers, q \in Questions :
        rec[b][q].seq > 0 /\ ~rec[b][q].pending
            => server[q].seq >= rec[b][q].seq \/ rec[b][q].val \in unsaved

\* The in-memory index, which the page shows and submit() waits for, is exactly the
\* stored pending answers, and only a pending answer is parked.
IndexAgrees ==
    \A b \in Browsers :
        /\ box[b].index = {q \in Questions : rec[b][q].pending}
        /\ box[b].parked \subseteq box[b].index

\* The server never goes back to an answer typed earlier on the same device, except
\* to one that a restore queued again under a new number.
NewestKeptOnOneDevice ==
    [][\A q \in Questions :
          server'[q].val < server[q].val
              => \/ typedOn[server'[q].val] # typedOn[server[q].val]
                 \/ server'[q].val \in requeued]_vars

\* "so the server can always keep the newest value even when requests arrive out of
\* order or are replayed after an outage" (candidate/answers.ts:9).
NewestKept == [][\A q \in Questions : server'[q].val >= server[q].val]_vars
=============================================================================
