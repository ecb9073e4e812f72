---------------------------- MODULE EvidenceStore ----------------------------
(***************************************************************************)
(* The images of one session and everything that writes, moves or deletes  *)
(* them: uploads (services/ingest.ts, services/recordings.ts over          *)
(* services/evidence.ts), the retention job (services/retention.ts),       *)
(* consent withdrawal and erasure (services/privacy-requests.ts),          *)
(* re-encryption (services/rekey.ts) and `storage:move`                    *)
(* (services/storage-move.ts), under the staff's legal hold.               *)
(*                                                                         *)
(* An image is a row of the evidence table and an object in a store, and   *)
(* no transaction covers both.  Every statement and every storage call is  *)
(* a step.  What serialises them is modelled as PostgreSQL provides it:    *)
(* the FOR UPDATE lock on the session row (held by the purge until it      *)
(* commits), the row locks of its uncommitted tombstones, and reads of     *)
(* committed rows only.                                                    *)
(***************************************************************************)
EXTENDS Integers, FiniteSets

CONSTANTS
    Screenshots,  \* images inserted on their own (uploadEventEvidence)
    Recordings,   \* segments inserted with a row that references the session
    Crews,        \* which uploads, tools and erasure happen together in a behaviour
    MaxFaults     \* bound on failed storage and database calls and killed tools

Items == Screenshots \cup Recordings
Tools == {"rekey", "move"}

ASSUME EvidenceAssumption ==
    /\ Screenshots \cap Recordings = {}
    /\ Items \cap {"session", "erase"} = {}   \* an image is neither of the other purgers
    /\ Crews \subseteq SUBSET (Items \cup Tools \cup {"erase"})
    /\ MaxFaults \in Nat

Places == {"home", "away"}   \* storage_location and storage_key: as uploaded, as moved
Keys == {"old", "new"}       \* key ids: before and after the rotation

\* Those that run purgeEvidenceRows: the purge of the session (retention or
\* withdrawal, inside its transaction), the erasure, and an upload undoing itself.
Purgers == {"session", "erase"} \cup Items

VARIABLES
    session,  \* exam_sessions: the fields that decide about evidence
    row,      \* evidence: state, place (storage_location, storage_key), key (key_id)
    blob,     \* the stores: per item and place, the key it is encrypted with
    up,       \* per item, the step of its upload
    waiting,  \* purges decided on that do not hold the session lock yet
    txn,      \* the purge transaction: its holder, its tombstones, its count
    work,     \* per purger, its place in purgeEvidenceRows
    erase,    \* the step of eraseCandidate
    tool,     \* per maintenance tool, the row it is working on
    touched,  \* items whose deletion some purger has begun
    skipped,  \* items a failure left to a later purge
    stray,    \* copies a tool that failed or a failed delete after a tombstone left behind
    faults    \* faults so far

vars == <<session, row, blob, up, waiting, txn, work, erase, tool, touched, skipped, stray, faults>>

Entries == [i : Items, at : Places]
NoEntry == [i |-> "none", at |-> "home"]
NoWork == [step |-> "idle", list |-> {}, cur |-> NoEntry, after |-> "home"]
NoTxn == [by |-> "none", tomb |-> {}, left |-> FALSE, counted |-> FALSE]
NoTool == [step |-> "idle", e |-> NoEntry, got |-> "none"]

TypeOK ==
    /\ session \in [exists : BOOLEAN, ended : BOOLEAN, withdrew : BOOLEAN,
                    hold : BOOLEAN, purged : BOOLEAN, due : BOOLEAN]
    /\ row \in [Items -> [state : {"none", "live", "purged", "deleted"}, place : Places, key : Keys]]
    /\ blob \in [Items -> [Places -> Keys \cup {"none"}]]
    /\ up \in [Items -> {"idle", "put", "insert", "discard", "recheck", "purge", "done"}]
    /\ waiting \subseteq {"retention", "withdrawal"}
    /\ txn \in [by : {"none", "retention", "withdrawal"}, tomb : SUBSET Items,
                left : BOOLEAN, counted : BOOLEAN]
    /\ work \in [Purgers -> [step : {"idle", "rows", "tombstone", "again"}, list : SUBSET Entries,
                             cur : Entries \cup {NoEntry}, after : Places]]
    /\ erase \in {"off", "idle", "first", "leftovers", "delete"}
    /\ tool \in [Tools -> [step : {"off", "idle", "put", "cas", "check", "delete"},
                           e : Entries \cup {NoEntry}, got : Keys \cup {"none"}]]
    /\ touched \subseteq Items
    /\ skipped \subseteq Items
    /\ stray \subseteq Entries
    /\ faults \in 0..MaxFaults

Init ==
    /\ session = [exists |-> TRUE, ended |-> FALSE, withdrew |-> FALSE,
                  hold |-> FALSE, purged |-> FALSE, due |-> FALSE]
    /\ row = [i \in Items |-> [state |-> "none", place |-> "home", key |-> "old"]]
    /\ blob = [i \in Items |-> [p \in Places |-> "none"]]
    /\ \E crew \in Crews :
          /\ up = [i \in Items |-> IF i \in crew THEN "idle" ELSE "done"]
          /\ tool = [t \in Tools |-> IF t \in crew THEN NoTool ELSE [NoTool EXCEPT !.step = "off"]]
          /\ erase = IF "erase" \in crew THEN "idle" ELSE "off"
    /\ waiting = {}
    /\ txn = NoTxn
    /\ work = [p \in Purgers |-> NoWork]
    /\ touched = {}
    /\ skipped = {}
    /\ stray = {}
    /\ faults = 0

\* evidenceClosed / recordingClosed
Closed == session.withdrew \/ session.purged
Live(i) == row[i].state = "live"
Unlocked == txn.by = "none"              \* nobody holds the session row FOR UPDATE
RowFree(i) == i \notin txn.tomb          \* no uncommitted tombstone on the row
LiveEntries == {[i |-> i, at |-> row[i].place] : i \in {j \in Items : Live(j)}}
Fault == faults < MaxFaults /\ faults' = faults + 1

(***************************************************************************)
(* The session: its end, the withdrawal of consent, reopening for          *)
(* recovery, the legal hold (each under the row lock), and the passing of  *)
(* the retention deadline.                                                 *)
(***************************************************************************)
SessionStep(s) ==
    /\ session.exists
    /\ session' = s
    /\ UNCHANGED <<row, blob, up, txn, work, erase, tool, touched, skipped, stray, faults>>

finalizeSession ==
    /\ Unlocked /\ ~session.ended
    /\ SessionStep([session EXCEPT !.ended = TRUE])
    /\ UNCHANGED waiting

withdrawConsent ==
    /\ Unlocked /\ ~session.ended
    /\ SessionStep([session EXCEPT !.ended = TRUE, !.withdrew = TRUE])
    /\ waiting' = IF session.hold THEN waiting ELSE waiting \cup {"withdrawal"}

reopenSession ==
    /\ Unlocked /\ session.ended /\ ~Closed
    /\ SessionStep([session EXCEPT !.ended = FALSE, !.due = FALSE])
    /\ UNCHANGED waiting

setLegalHold(enabled) ==
    /\ Unlocked /\ session.hold # enabled
    /\ SessionStep([session EXCEPT !.hold = enabled])
    /\ UNCHANGED waiting

DeadlinePasses ==
    /\ session.ended /\ ~session.due
    /\ SessionStep([session EXCEPT !.due = TRUE])
    /\ UNCHANGED waiting

(***************************************************************************)
(* An upload.  The request's copy of the session was read before the image *)
(* is written: it is checked once (UploadAccepted) and read again at the   *)
(* end (UploadRecheck).  A recording is inserted in one transaction with   *)
(* its segment row, whose reference to the session waits for the session   *)
(* lock and fails once the session is gone; a screenshot's insert does     *)
(* neither.  A row that was not written takes its object with it, unless   *)
(* nobody can tell whether it was written (a lost answer) or the store     *)
(* fails again; a row that was written whose answer was lost stays without *)
(* the second look.  The uploads come before the key rotation (later ones  *)
(* concern no tool).                                                       *)
(***************************************************************************)
Upload(i, from, to) ==
    /\ up[i] = from
    /\ up' = [up EXCEPT ![i] = to]
    /\ UNCHANGED <<session, waiting, txn, erase, tool, touched, skipped, stray>>

UploadAccepted(i) ==
    /\ session.exists /\ ~Closed
    /\ Upload(i, "idle", "put")
    /\ UNCHANGED <<row, blob, work, faults>>

UploadPut(i) ==
    /\ Upload(i, "put", "insert")
    /\ blob' = [blob EXCEPT ![i]["home"] = "old"]
    /\ UNCHANGED <<row, work, faults>>

storeEvidence(i) ==
    /\ i \in Recordings => Unlocked /\ session.exists
    /\ Upload(i, "insert", "recheck")
    /\ row' = [row EXCEPT ![i] = [state |-> "live", place |-> "home", key |-> blob[i]["home"]]]
    /\ UNCHANGED <<blob, work, faults>>

InsertFails(i) ==
    /\ \/ i \in Recordings /\ ~session.exists /\ UNCHANGED faults
       \/ Fault
    /\ Upload(i, "insert", "discard")
    /\ UNCHANGED <<row, blob, work>>

\* not written, and the check whether it was fails too: the object is kept
InsertUnknown(i) ==
    /\ Fault
    /\ Upload(i, "insert", "done")
    /\ UNCHANGED <<row, blob, work>>

discardFailedInsert(i) ==
    /\ Upload(i, "discard", "done")
    /\ \/ blob' = [blob EXCEPT ![i]["home"] = "none"] /\ UNCHANGED faults
       \/ Fault /\ UNCHANGED blob
    /\ UNCHANGED <<row, work>>

\* written, but the insert's (or COMMIT's) answer was lost or the second look fails
UploadCutShort(i) ==
    /\ Fault
    /\ up[i] = "recheck"
    /\ up' = [up EXCEPT ![i] = "done"]
    /\ skipped' = skipped \cup {i}
    /\ UNCHANGED <<session, row, blob, waiting, txn, work, erase, tool, touched, stray>>

(* Mutant: the session is not looked at again after the insert.            *)
UploadNoRecheck(i) ==
    /\ Upload(i, "recheck", "done")
    /\ UNCHANGED <<row, blob, work, faults>>

UploadRecheck(i) ==
    /\ IF session.exists /\ Closed
       THEN /\ Upload(i, "recheck", "purge")
            /\ work' = [work EXCEPT ![i] = [NoWork EXCEPT !.step = "rows",
                                                          !.list = {[i |-> i, at |-> "home"]}]]
       ELSE Upload(i, "recheck", "done") /\ UNCHANGED work
    /\ UNCHANGED <<row, blob, faults>>

UploadUndone(i) ==
    /\ work[i].step = "rows" /\ work[i].list = {}
    /\ Upload(i, "purge", "done")
    /\ work' = [work EXCEPT ![i] = NoWork]
    /\ UNCHANGED <<row, blob, faults>>

(***************************************************************************)
(* purgeEvidenceRows: for each listed row, delete the object where the     *)
(* list saw it (a failure leaves the row for a later purge), put the       *)
(* tombstone, then delete again there and, in a second call, wherever the  *)
(* tombstone found the row (a failure is logged, and nobody tries again).  *)
(* In the session purge the tombstones are uncommitted.                    *)
(***************************************************************************)
Purge(p, w) ==
    /\ work' = [work EXCEPT ![p] = w]
    /\ UNCHANGED <<session, up, waiting, erase, tool>>

DeleteBlob(p) ==
    /\ work[p].step = "rows"
    /\ \E e \in work[p].list :
          /\ Purge(p, [work[p] EXCEPT !.step = "tombstone", !.list = @ \ {e}, !.cur = e])
          /\ blob' = [blob EXCEPT ![e.i][e.at] = "none"]
          /\ touched' = touched \cup {e.i}
    /\ UNCHANGED <<row, txn, skipped, stray, faults>>

DeleteBlobFails(p) ==
    /\ work[p].step = "rows"
    /\ Fault
    /\ \E e \in work[p].list :
          /\ Purge(p, [work[p] EXCEPT !.list = @ \ {e}])
          /\ skipped' = skipped \cup {e.i}
    /\ UNCHANGED <<row, blob, txn, touched, stray>>

\* set purgedAt where it is null, returning the row's place at that moment
Tombstone(p) ==
    LET i == work[p].cur.i IN
    /\ work[p].step = "tombstone"
    /\ RowFree(i)
    /\ Purge(p, [work[p] EXCEPT !.step = "again",
                                !.after = IF Live(i) THEN row[i].place ELSE work[p].cur.at])
    /\ IF p = "session"
       THEN /\ txn' = IF Live(i) THEN [txn EXCEPT !.tomb = @ \cup {i}] ELSE txn
            /\ UNCHANGED row
       ELSE /\ row' = IF Live(i) THEN [row EXCEPT ![i].state = "purged"] ELSE row
            /\ UNCHANGED txn
    /\ UNCHANGED <<blob, touched, skipped, stray, faults>>

\* after a delete at the listed place comes the one at the place of the tombstone
AfterDelete(p) ==
    IF work[p].cur.at = work[p].after
    THEN [work[p] EXCEPT !.step = "rows", !.cur = NoEntry, !.after = "home"]
    ELSE [work[p] EXCEPT !.cur = [i |-> work[p].cur.i, at |-> work[p].after]]

(* Mutant: the delete after the tombstone is left out.                     *)
NoDeleteAgain(p) ==
    /\ work[p].step = "again"
    /\ Purge(p, AfterDelete(p))
    /\ UNCHANGED <<row, blob, txn, touched, skipped, stray, faults>>

DeleteBlobAgain(p) ==
    LET e == work[p].cur IN
    /\ work[p].step = "again"
    /\ Purge(p, AfterDelete(p))
    /\ blob' = [blob EXCEPT ![e.i][e.at] = "none"]
    /\ UNCHANGED <<row, txn, touched, skipped, stray, faults>>

DeleteBlobAgainFails(p) ==
    /\ work[p].step = "again"
    /\ Fault
    /\ Purge(p, AfterDelete(p))
    /\ stray' = stray \cup {work[p].cur}
    /\ UNCHANGED <<row, blob, txn, touched, skipped>>

(***************************************************************************)
(* The purge of the session.  The retention job selects the session in a   *)
(* batch query, the withdrawal asks for it after it committed; both then   *)
(* lock the row and look again (not at the deadline).  Tombstones, the     *)
(* count of what is left and the mark on the session commit together, or   *)
(* not at all.                                                             *)
(***************************************************************************)
RetentionSelects ==
    /\ "retention" \notin waiting /\ txn.by # "retention"
    /\ session.exists /\ session.ended /\ session.due /\ ~session.purged /\ ~session.hold
    /\ waiting' = waiting \cup {"retention"}
    /\ UNCHANGED <<session, row, blob, up, txn, work, erase, tool, touched, skipped, stray, faults>>

(* Mutant: the legal hold is not read again under the lock.                *)
StillDueUnheld(by) ==
    /\ session.exists
    /\ by = "retention" => session.ended /\ ~session.purged

StillDue(by) ==
    /\ session.exists /\ ~session.hold
    /\ by = "retention" => session.ended /\ ~session.purged

PurgeBegins(by) ==
    /\ by \in waiting /\ Unlocked
    /\ waiting' = waiting \ {by}
    /\ IF StillDue(by)
       THEN /\ txn' = [NoTxn EXCEPT !.by = by]
            /\ work' = [work EXCEPT !["session"] = [NoWork EXCEPT !.step = "rows", !.list = LiveEntries]]
       ELSE UNCHANGED <<txn, work>>
    /\ UNCHANGED <<session, row, blob, up, erase, tool, touched, skipped, stray, faults>>

CountRemaining ==
    /\ txn.by # "none" /\ ~txn.counted
    /\ work["session"].step = "rows" /\ work["session"].list = {}
    /\ txn' = [txn EXCEPT !.counted = TRUE, !.left = \E i \in Items : Live(i) /\ i \notin txn.tomb]
    /\ UNCHANGED <<session, row, blob, up, waiting, work, erase, tool, touched, skipped, stray, faults>>

PurgeEnds ==
    /\ txn.counted
    /\ txn' = NoTxn
    /\ work' = [work EXCEPT !["session"] = NoWork]
    /\ UNCHANGED <<blob, up, waiting, erase, tool, touched, skipped, stray>>

(* Mutant: the session is marked only if the purge deleted something.      *)
PurgeCommitsIfAny ==
    /\ PurgeEnds
    /\ row' = [i \in Items |-> IF i \in txn.tomb THEN [row[i] EXCEPT !.state = "purged"] ELSE row[i]]
    /\ session' = [session EXCEPT !.purged = @ \/ (~txn.left /\ txn.tomb # {})]
    /\ UNCHANGED faults

PurgeCommits ==
    /\ PurgeEnds
    /\ row' = [i \in Items |-> IF i \in txn.tomb THEN [row[i] EXCEPT !.state = "purged"] ELSE row[i]]
    /\ session' = [session EXCEPT !.purged = @ \/ ~txn.left]
    /\ UNCHANGED faults

PurgeRollsBack ==
    /\ PurgeEnds /\ Fault
    /\ UNCHANGED <<row, session>>

\* purgeEventMetadataNow: only tombstones are deleted, and only when no row is live
purgeEventMetadata ==
    /\ Unlocked
    /\ session.exists /\ session.ended /\ session.purged /\ ~session.hold
    /\ \A i \in Items : ~Live(i)
    /\ \E i \in Items : row[i].state = "purged"
    /\ row' = [i \in Items |-> IF row[i].state = "purged" THEN [row[i] EXCEPT !.state = "deleted"] ELSE row[i]]
    /\ UNCHANGED <<session, blob, up, waiting, txn, work, erase, tool, touched, skipped, stray, faults>>

(***************************************************************************)
(* eraseCandidate: refused for an open or held session; purges the         *)
(* session's rows, then what is left of the candidate, then deletes all    *)
(* evidence rows with the candidate (which cascades to the session).       *)
(***************************************************************************)
EraseBegins ==
    /\ erase = "idle"
    /\ session.exists /\ session.ended /\ ~session.hold
    /\ erase' = "first"
    /\ work' = [work EXCEPT !["erase"] = [NoWork EXCEPT !.step = "rows", !.list = LiveEntries]]
    /\ UNCHANGED <<session, row, blob, up, waiting, txn, tool, touched, skipped, stray, faults>>

EraseRoundDone ==
    /\ erase \in {"first", "leftovers"}
    /\ work["erase"].step = "rows" /\ work["erase"].list = {}
    /\ erase' = IF erase = "first" THEN "leftovers" ELSE "delete"
    /\ work' = [work EXCEPT !["erase"] = IF erase = "first" THEN [@ EXCEPT !.list = LiveEntries] ELSE NoWork]
    /\ UNCHANGED <<session, row, blob, up, waiting, txn, tool, touched, skipped, stray, faults>>

EraseDeletes ==
    /\ erase = "delete" /\ Unlocked
    /\ erase' = "idle"
    /\ session' = [session EXCEPT !.exists = FALSE]
    /\ row' = [i \in Items |-> IF row[i].state = "none" THEN row[i] ELSE [row[i] EXCEPT !.state = "deleted"]]
    /\ UNCHANGED <<blob, up, waiting, txn, work, tool, touched, skipped, stray, faults>>

(***************************************************************************)
(* The maintenance tools: read the object of a row, write it (under the    *)
(* new key in place, or at the new place), point the row at it if it is    *)
(* still where it was and not purged, and clean up otherwise.              *)
(***************************************************************************)
Wanted(t, i) ==
    /\ Live(i)
    /\ IF t = "rekey" THEN row[i].key = "old" ELSE row[i].place = "home"

ToolStep(t, to) ==
    /\ tool' = [tool EXCEPT ![t] = to]
    /\ UNCHANGED <<session, up, waiting, txn, work, erase, touched, skipped>>

ToolReads(t, i) ==
    LET got == blob[i][row[i].place] IN
    /\ tool[t].step = "idle" /\ Wanted(t, i)
    /\ got # "none"
    /\ ToolStep(t, [step |-> IF t = "rekey" /\ got = "new" THEN "cas" ELSE "put",
                    e |-> [i |-> i, at |-> row[i].place], got |-> got])
    /\ UNCHANGED <<row, blob, stray, faults>>

Written(t) == IF t = "rekey" THEN "new" ELSE tool[t].got
Target(t) == IF t = "rekey" THEN tool[t].e.at ELSE "away"

(* Mutant: the move deletes the old object as soon as the copy is written. *)
ToolWritesAndDeletes(t) ==
    /\ tool[t].step = "put"
    /\ ToolStep(t, [tool[t] EXCEPT !.step = "cas"])
    /\ blob' = [blob EXCEPT ![tool[t].e.i] =
                   [q \in Places |-> IF q = Target(t) THEN Written(t)
                                     ELSE IF t = "move" THEN "none" ELSE @[q]]]
    /\ UNCHANGED <<row, stray, faults>>

ToolWrites(t) ==
    /\ tool[t].step = "put"
    /\ ToolStep(t, [tool[t] EXCEPT !.step = "cas"])
    /\ blob' = [blob EXCEPT ![tool[t].e.i][Target(t)] = Written(t)]
    /\ UNCHANGED <<row, stray, faults>>

(* Mutant: the move records the current key instead of the object's.       *)
ToolRecordsCurrentKey(t) ==
    LET i == tool[t].e.i
        same == Live(i) /\ row[i].place = tool[t].e.at IN
    /\ tool[t].step = "cas" /\ RowFree(i)
    /\ row' = IF same THEN [row EXCEPT ![i] = [@ EXCEPT !.place = Target(t), !.key = "new"]] ELSE row
    /\ ToolStep(t, IF ~same THEN [tool[t] EXCEPT !.step = "check"]
                   ELSE IF t = "move" THEN [tool[t] EXCEPT !.step = "delete"] ELSE NoTool)
    /\ UNCHANGED <<blob, stray, faults>>

\* a row with an uncommitted tombstone is waited for
ToolPointsRow(t) ==
    LET i == tool[t].e.i
        same == Live(i) /\ row[i].place = tool[t].e.at IN
    /\ tool[t].step = "cas" /\ RowFree(i)
    /\ row' = IF same THEN [row EXCEPT ![i] = [@ EXCEPT !.place = Target(t), !.key = Written(t)]] ELSE row
    /\ ToolStep(t, IF ~same THEN [tool[t] EXCEPT !.step = "check"]
                   ELSE IF t = "move" THEN [tool[t] EXCEPT !.step = "delete"] ELSE NoTool)
    /\ UNCHANGED <<blob, stray, faults>>

\* the object written is deleted unless a live row points at it
ToolCleansUp(t) ==
    LET i == tool[t].e.i IN
    /\ tool[t].step = "check"
    /\ blob' = IF Live(i) /\ row[i].place = Target(t) THEN blob
               ELSE [blob EXCEPT ![i][Target(t)] = "none"]
    /\ ToolStep(t, NoTool)
    /\ UNCHANGED <<row, stray, faults>>

\* the move deletes the old object once the row points at the new one
MoveDeletesOld ==
    /\ tool["move"].step = "delete"
    /\ blob' = [blob EXCEPT ![tool["move"].e.i][tool["move"].e.at] = "none"]
    /\ ToolStep("move", NoTool)
    /\ UNCHANGED <<row, stray, faults>>

\* a storage or database call fails, or the command is killed: the copy that
\* the remaining steps would have deleted stays
ToolFails(t) ==
    LET e == tool[t].e IN
    /\ tool[t].step \notin {"off", "idle"} /\ Fault
    /\ stray' = stray \cup {IF tool[t].step = "delete" THEN e ELSE [i |-> e.i, at |-> Target(t)]}
    /\ ToolStep(t, NoTool)
    /\ UNCHANGED <<row, blob>>

\* the copy cannot be read back, or differs: it is deleted, and the row stays as it is
CopyUnverified ==
    /\ tool["move"].step = "cas" /\ Fault
    /\ blob' = [blob EXCEPT ![tool["move"].e.i]["away"] = "none"]
    /\ ToolStep("move", NoTool)
    /\ UNCHANGED <<row, stray>>

(***************************************************************************)
UploadNext(i) ==
    \/ UploadPut(i) \/ storeEvidence(i) \/ InsertFails(i) \/ InsertUnknown(i)
    \/ discardFailedInsert(i) \/ UploadRecheck(i) \/ UploadUndone(i) \/ UploadCutShort(i)

PurgerNext(p) ==
    \/ DeleteBlob(p) \/ DeleteBlobFails(p)
    \/ Tombstone(p)
    \/ DeleteBlobAgain(p) \/ DeleteBlobAgainFails(p)

PurgeNext ==
    \/ RetentionSelects
    \/ \E by \in {"retention", "withdrawal"} : PurgeBegins(by)
    \/ CountRemaining \/ PurgeCommits \/ PurgeRollsBack

EraseNext == EraseRoundDone \/ EraseDeletes

ToolNext(t) ==
    \/ ToolWrites(t) \/ ToolPointsRow(t) \/ ToolCleansUp(t) \/ ToolFails(t)

Next ==
    \/ finalizeSession \/ withdrawConsent \/ reopenSession \/ DeadlinePasses
    \/ \E enabled \in BOOLEAN : setLegalHold(enabled)
    \/ \E i \in Items : UploadAccepted(i) \/ UploadNext(i)
    \/ \E p \in Purgers : PurgerNext(p)
    \/ PurgeNext \/ purgeEventMetadata
    \/ EraseBegins \/ EraseNext
    \/ \E t \in Tools : ToolNext(t) \/ \E i \in Items : ToolReads(t, i)
    \/ CopyUnverified \/ MoveDeletesOld

\* The retention job comes round every hour and a purge that has begun goes on.
\* Nothing else has to happen: uploads, tools and the erasure may stop anywhere.
Fairness == WF_vars(PurgeNext) /\ WF_vars(PurgerNext("session"))

Spec == Init /\ [][Next]_vars /\ Fairness

-----------------------------------------------------------------------------
HasImage(i) == blob[i][row[i].place] # "none"

\* Nobody is in the middle of something with the item.
Quiet(i) ==
    /\ up[i] \in {"idle", "done"}
    /\ \A t \in Tools : tool[t].e.i # i
    /\ \A p \in Purgers : work[p].cur.i # i
    /\ i \notin txn.tomb

(* A row without its object is not recoverable (evidence.ts): as long as   *)
(* no purge has begun to delete an image, its live row points at a         *)
(* complete object, at every step of uploads, re-encryption and moves,     *)
(* killed at any point or not.                                             *)
LiveRowHasImage ==
    \A i \in Items : Live(i) /\ i \notin touched => HasImage(i)

(* evidence.key_id is what an operator goes by before removing an old key: *)
(* a row that names the new key has no object under the old one, whatever  *)
(* re-encryption and moves did to it at the same time.                     *)
KeyIdTrue ==
    \A i \in Items : Live(i) /\ row[i].key = "new" => blob[i][row[i].place] # "old"

(* A tombstone means the image is gone: neither an upload nor a            *)
(* re-encryption nor a move that was under way leaves a copy in a store.   *)
(* The only copies that may stay are the two kinds that no step of the     *)
(* code comes back to: where deleteQuietly failed after the tombstone (the *)
(* failure is logged, and a tombstoned row is never listed again), and     *)
(* where a tool that was killed or one of whose calls failed left one.     *)
TombstoneMeansGone ==
    \A i \in Items, p \in Places :
        /\ session.exists /\ row[i].state \in {"purged", "deleted"} /\ Quiet(i)
        /\ [i |-> i, at |-> p] \notin stray
        => blob[i][p] = "none"

(* The same without exception: "Delete once more after the tombstone ...   *)
(* A blob moved meanwhile is deleted at its new place too" (evidence.ts).  *)
TombstoneAlwaysGone ==
    \A i \in Items, p \in Places :
        session.exists /\ row[i].state \in {"purged", "deleted"} /\ Quiet(i) => blob[i][p] = "none"

(* Once the session is marked purged no recording of it stays: one that    *)
(* was being uploaded meanwhile is found by the purge or undoes itself,    *)
(* unless the store refuses to delete it just then or the upload is cut    *)
(* short before its second look at the session.                            *)
NoRecordingAfterPurge ==
    \A i \in Recordings :
        session.exists /\ session.purged /\ Quiet(i) /\ i \notin skipped => ~Live(i)

(* The same of every image: "Images that reach the server after the        *)
(* session's evidence was deleted ... are not kept" (ingest.ts).           *)
LateImagesNotKept ==
    \A i \in Items :
        session.exists /\ session.purged /\ up[i] = "done" /\ txn.by = "none" => ~Live(i)

(* After an erasure nothing recorded about the candidate is left.          *)
ErasureComplete ==
    \A i \in Items : ~session.exists /\ Quiet(i) => \A p \in Places : blob[i][p] = "none"

(* A legal hold keeps every stored image: while it is on, no step of the   *)
(* retention job, a withdrawal or a maintenance tool takes the image of a  *)
(* live row away.                                                          *)
HoldKeepsImages ==
    [][\A i \in Items :
         (session.hold /\ erase \in {"off", "idle"} /\ up[i] = "done" /\ Live(i) /\ HasImage(i))
            => HasImage(i)']_vars

(* Storage errors, failed transactions and everything running beside it    *)
(* only delay the retention job: a session that stays ended, due and free  *)
(* of a hold is in the end marked as purged.                               *)
RetentionCompletes ==
    <>[](session.exists /\ session.ended /\ session.due /\ ~session.hold) => <>session.purged
=============================================================================
