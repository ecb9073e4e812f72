------------------------- MODULE EvidenceStore_proofs -------------------------
(***************************************************************************)
(* Proofs about EvidenceStore, for any images, any crews and any number of *)
(* faults: a live row that no purge has begun to delete has its object;    *)
(* a row that names the new key has no object under the old one; a legal   *)
(* hold keeps every stored image; nothing is left of an image whose purge  *)
(* is complete, but where a delete after the tombstone or a tool failed;   *)
(* and no recording outlives the purge of its session, but one that a      *)
(* failure kept from being undone.                                         *)
(*                                                                         *)
(* The first invariant, IInv, says what each tool may count on while it is *)
(* under way: that its row was written, where the row points meanwhile,    *)
(* and what lies at the place it is about to point the row at.  The second *)
(* one, Order, says which purger may be at work when, and on what.  On     *)
(* these two rest what accounts for every object (Leftovers) and for every *)
(* recording (RecordingsGo).                                               *)
(***************************************************************************)
EXTENDS EvidenceStore, TLAPS

RowType == [state : {"none", "live", "purged", "deleted"}, place : Places, key : Keys \cup {"none"}]
UpSteps == {"idle", "put", "insert", "discard", "recheck", "purge", "done"}
WorkType == [step : {"idle", "rows", "tombstone", "again"}, list : SUBSET Entries,
             cur : Entries \cup {NoEntry}, after : Places]
ToolType == [step : {"off", "idle", "put", "cas", "check", "delete"},
             e : Entries \cup {NoEntry}, got : Keys \cup {"none"}]

(* The types of what the two theorems are about.                           *)
Types ==
    /\ row \in [Items -> RowType]
    /\ blob \in [Items -> [Places -> Keys \cup {"none"}]]
    /\ up \in [Items -> UpSteps]
    /\ work \in [Purgers -> WorkType]
    /\ tool \in [Tools -> ToolType]

Busy(t) == tool[t].step \notin {"off", "idle"}

(* An upload's row is not there before its insert, and its object is.      *)
Uploads ==
    \A i \in Items :
        /\ up[i] \in {"idle", "put", "insert", "discard"} => row[i].state = "none"
        /\ up[i] = "insert" /\ i \notin touched => blob[i]["home"] # "none"

(* A purger past its first delete has an entry, and its item is touched.   *)
Deleting ==
    \A p \in Purgers :
        work[p].step \in {"tombstone", "again"} => work[p].cur \in Entries /\ work[p].cur.i \in touched

(* Only rows that were written get a tombstone in the purge transaction.   *)
TxnType == [by : {"none", "retention", "withdrawal"}, tomb : SUBSET Items, left : BOOLEAN, counted : BOOLEAN]
Tombs == txn \in TxnType /\ \A i \in txn.tomb : row[i].state # "none"

(* A tool at work has an entry of a row that was written, and its object.  *)
ToolRow ==
    \A t \in Tools : Busy(t) =>
        /\ tool[t].e \in Entries /\ tool[t].got # "none"
        /\ row[tool[t].e.i].state # "none"

(* The move works on a row at home, until it has pointed it away.          *)
MoveOrder ==
    LET m == tool["move"] IN
    Busy("move") =>
        /\ m.e.at = "home"
        /\ m.step \in {"put", "cas"} => row[m.e.i].place = "home"
        /\ m.step = "delete" => row[m.e.i].place = "away"
        /\ m.step = "cas" => /\ m.got = "new" => blob[m.e.i]["away"] # "old"
                             /\ m.e.i \notin touched => blob[m.e.i]["away"] # "none"

(* The re-encryption of a moved object stays where the row is.             *)
RekeyOrder ==
    LET r == tool["rekey"] IN
    Busy("rekey") =>
        /\ r.e.at = "away" => row[r.e.i].place = "away"
        /\ r.step = "cas" => blob[r.e.i][r.e.at] # "old"

IInv ==
    /\ Types
    /\ Uploads /\ Deleting /\ Tombs /\ ToolRow /\ MoveOrder /\ RekeyOrder
    /\ LiveRowHasImage /\ KeyIdTrue

-----------------------------------------------------------------------------
(* Nothing is stored and nobody is at work in the beginning.               *)
LEMMA InitInv == Init => IInv
<1> SUFFICES ASSUME Init PROVE IInv OBVIOUS
<1>1. PICK crew \in Crews :
        /\ up = [i \in Items |-> IF i \in crew THEN "idle" ELSE "done"]
        /\ tool = [t \in Tools |-> IF t \in crew THEN NoTool ELSE [NoTool EXCEPT !.step = "off"]]
  BY DEF Init
<1>2. \A i \in Items : row[i] = [state |-> "none", place |-> "home", key |-> "old"] BY DEF Init
<1>3. \A t \in Tools : tool[t] \in ToolType /\ tool[t].step \in {"off", "idle"}
  BY <1>1 DEF NoTool, ToolType
<1>4. \A p \in Purgers : work[p] \in WorkType /\ work[p].step = "idle"
  BY DEF Init, NoWork, WorkType, Places
<1>5. Types
  <2>1. row \in [Items -> RowType] BY DEF Init, RowType, Places, Keys
  <2>2. blob \in [Items -> [Places -> Keys \cup {"none"}]] BY DEF Init
  <2>3. up \in [Items -> UpSteps] BY <1>1 DEF UpSteps
  <2>4. work \in [Purgers -> WorkType] BY <1>4 DEF Init
  <2>5. tool \in [Tools -> ToolType] BY <1>1, <1>3
  <2> QED BY <2>1, <2>2, <2>3, <2>4, <2>5 DEF Types
<1>6. Uploads BY <1>1, <1>2 DEF Uploads
<1>7. Deleting BY <1>4 DEF Deleting
<1>8. \A t \in Tools : ~Busy(t) BY <1>3 DEF Busy
<1>9. ToolRow /\ MoveOrder /\ RekeyOrder BY <1>8 DEF ToolRow, MoveOrder, RekeyOrder, Tools
<1>10. LiveRowHasImage /\ KeyIdTrue BY <1>2 DEF LiveRowHasImage, KeyIdTrue, Live
<1>11. Tombs BY DEF Init, NoTxn, Tombs, TxnType
<1> QED BY <1>5, <1>6, <1>7, <1>9, <1>10, <1>11 DEF IInv

(***************************************************************************)
(* A removal: rows become tombstones or go, objects are deleted, and an    *)
(* object deleted was marked as touched first or is that of no live row    *)
(* and of nothing under way.                                               *)
(***************************************************************************)
RowsOnlyEnd ==
    /\ row' \in [Items -> RowType]
    /\ \A i \in Items :
          /\ row'[i].place = row[i].place /\ row'[i].key = row[i].key
          /\ row'[i].state = row[i].state
             \/ (row[i].state # "none" /\ row'[i].state \in {"purged", "deleted"})

BlobsOnlyGo ==
    /\ blob' \in [Items -> [Places -> Keys \cup {"none"}]]
    /\ \A i \in Items, q \in Places : blob'[i][q] = blob[i][q] \/ (blob'[i][q] = "none" /\ i \in touched')

(* Such a step keeps the invariant.                                        *)
LEMMA RemovalInv ==
    ASSUME IInv, RowsOnlyEnd, BlobsOnlyGo, touched \subseteq touched',
           up' = up, tool' = tool,
           work' \in [Purgers -> WorkType], Deleting', Tombs'
    PROVE  IInv'
<1>1. Types' BY DEF IInv, Types, RowsOnlyEnd, BlobsOnlyGo
<1>2. Uploads' BY DEF IInv, Uploads, RowsOnlyEnd, BlobsOnlyGo, Places
<1>3. ASSUME NEW t \in Tools, Busy(t) PROVE tool[t].e.i \in Items /\ tool[t].e.at \in Places
  BY <1>3 DEF IInv, ToolRow, Entries
<1>4. ToolRow' BY <1>3 DEF IInv, ToolRow, Busy, RowsOnlyEnd
<1>5. MoveOrder' BY <1>3 DEF IInv, MoveOrder, Busy, RowsOnlyEnd, BlobsOnlyGo, Tools, Places
<1>6. RekeyOrder' BY <1>3 DEF IInv, RekeyOrder, Busy, RowsOnlyEnd, BlobsOnlyGo, Tools
<1>7. \A i \in Items : row[i].place \in Places BY DEF IInv, Types, RowType
<1>8. LiveRowHasImage'
  BY <1>7 DEF IInv, LiveRowHasImage, HasImage, Live, RowsOnlyEnd, BlobsOnlyGo
<1>9. KeyIdTrue' BY <1>7 DEF IInv, KeyIdTrue, Live, RowsOnlyEnd, BlobsOnlyGo
<1> QED BY <1>1, <1>2, <1>4, <1>5, <1>6, <1>8, <1>9 DEF IInv

(* Rows and objects that stay are such a removal too.                      *)
LEMMA RowsStay == ASSUME IInv, row' = row PROVE RowsOnlyEnd
BY DEF IInv, Types, RowsOnlyEnd

(* The same of the objects.                                                *)
LEMMA BlobsStay == ASSUME IInv, blob' = blob PROVE BlobsOnlyGo
BY DEF IInv, Types, BlobsOnlyGo

(* The tombstones of the transaction stay those of written rows.           *)
LEMMA TombsStay == ASSUME IInv, txn' = txn, RowsOnlyEnd PROVE Tombs'
BY DEF IInv, Tombs, TxnType, RowsOnlyEnd

(* Steps that leave the images and everybody at work on them alone.        *)
LEMMA KeptInv ==
    ASSUME IInv, row' = row, blob' = blob, up' = up, tool' = tool, work' = work, touched' = touched,
           Tombs'
    PROVE  IInv'
BY DEF IInv, Types, Uploads, Deleting, ToolRow, MoveOrder, RekeyOrder, Busy,
       LiveRowHasImage, HasImage, KeyIdTrue, Live

-----------------------------------------------------------------------------
(***************************************************************************)
(* purgeEvidenceRows and those who call it.                                *)
(***************************************************************************)

(* A purger goes on to work w, of the right type; if that is past a first  *)
(* delete, the item is touched.                                            *)
LEMMA WorkTo ==
    ASSUME IInv, NEW p \in Purgers, NEW w \in WorkType, touched \subseteq touched',
           work' = [work EXCEPT ![p] = w],
           w.step \in {"tombstone", "again"} => w.cur \in Entries /\ w.cur.i \in touched'
    PROVE  work' \in [Purgers -> WorkType] /\ Deleting'
<1>1. work \in [Purgers -> WorkType] BY DEF IInv, Types
<1>2. \A x \in Purgers : work'[x] = IF x = p THEN w ELSE work[x] BY <1>1
<1>3. Deleting' BY <1>2 DEF IInv, Deleting
<1> QED BY <1>1, <1>3

(* The first delete: the object goes, the item is touched.                 *)
LEMMA DeleteBlobInv == ASSUME IInv, NEW p \in Purgers, DeleteBlob(p) PROVE IInv'
<1>1. PICK e \in work[p].list :
        /\ work' = [work EXCEPT ![p] = [work[p] EXCEPT !.step = "tombstone", !.list = @ \ {e}, !.cur = e]]
        /\ blob' = [blob EXCEPT ![e.i][e.at] = "none"]
        /\ touched' = touched \cup {e.i}
  BY DEF DeleteBlob, Purge
<1>2. row' = row /\ up' = up /\ tool' = tool /\ txn' = txn BY DEF DeleteBlob, Purge
<1> DEFINE w == [work[p] EXCEPT !.step = "tombstone", !.list = @ \ {e}, !.cur = e]
<1>3. work[p] \in WorkType BY DEF IInv, Types
<1>4. e \in Entries BY <1>1, <1>3 DEF WorkType
<1>5. w \in WorkType /\ w.cur \in Entries /\ w.cur.i \in touched' BY <1>1, <1>3, <1>4 DEF WorkType
<1>6. work' = [work EXCEPT ![p] = w] BY <1>1
<1> HIDE DEF w
<1>7. touched \subseteq touched' BY <1>1
<1>8. work' \in [Purgers -> WorkType] /\ Deleting' BY <1>5, <1>6, <1>7, WorkTo
<1>9. BlobsOnlyGo BY <1>1, <1>4 DEF BlobsOnlyGo, IInv, Types, Entries
<1> QED BY <1>2, <1>7, <1>8, <1>9, RowsStay, TombsStay, RemovalInv

(* A delete that fails leaves the row for a later purge.                   *)
LEMMA DeleteBlobFailsInv == ASSUME IInv, NEW p \in Purgers, DeleteBlobFails(p) PROVE IInv'
<1>1. PICK e \in work[p].list : work' = [work EXCEPT ![p] = [work[p] EXCEPT !.list = @ \ {e}]]
  BY DEF DeleteBlobFails, Purge
<1>2. row' = row /\ up' = up /\ tool' = tool /\ blob' = blob /\ touched' = touched /\ txn' = txn
  BY DEF DeleteBlobFails, Purge
<1> DEFINE w == [work[p] EXCEPT !.list = @ \ {e}]
<1>3. work[p] \in WorkType /\ work[p].step = "rows" BY DEF IInv, Types, DeleteBlobFails
<1>4. w \in WorkType /\ w.step = "rows" BY <1>3 DEF WorkType
<1>5. work' = [work EXCEPT ![p] = w] BY <1>1
<1> HIDE DEF w
<1>6. work' \in [Purgers -> WorkType] /\ Deleting' BY <1>2, <1>4, <1>5, WorkTo
<1> QED BY <1>2, <1>6, RowsStay, BlobsStay, TombsStay, RemovalInv

(* The tombstone.                                                          *)
LEMMA TombstoneInv == ASSUME IInv, NEW p \in Purgers, Tombstone(p) PROVE IInv'
<1> DEFINE i == work[p].cur.i
           a == IF Live(i) THEN row[i].place ELSE work[p].cur.at
           w == [work[p] EXCEPT !.step = "again", !.after = a]
<1>1. /\ work[p].step = "tombstone" /\ work' = [work EXCEPT ![p] = w]
      /\ up' = up /\ tool' = tool /\ blob' = blob /\ touched' = touched
  BY DEF Tombstone, Purge
<1>2. row' = row \/ (Live(i) /\ row' = [row EXCEPT ![i].state = "purged"]) BY DEF Tombstone
<1>3. work[p] \in WorkType /\ work[p].cur \in Entries /\ i \in touched BY <1>1 DEF IInv, Types, Deleting
<1>4. a \in Places
  <2>1. i \in Items /\ work[p].cur.at \in Places BY <1>3 DEF Entries
  <2>2. row[i].place \in Places BY <2>1 DEF IInv, Types, RowType
  <2> QED BY <2>1, <2>2
<1> HIDE DEF a
<1>5. w \in WorkType /\ w.cur \in Entries /\ w.cur.i \in touched BY <1>3, <1>4 DEF WorkType
<1> HIDE DEF w
<1>6. work' \in [Purgers -> WorkType] /\ Deleting' BY <1>1, <1>5, WorkTo
<1>7. RowsOnlyEnd
  <2>1. CASE row' = row BY <2>1, RowsStay
  <2>2. CASE Live(i) /\ row' = [row EXCEPT ![i].state = "purged"]
    <3>1. \A j \in Items : row[j] \in RowType BY DEF IInv, Types
    <3>2. \A j \in Items : [row[j] EXCEPT !.state = "purged"] \in RowType BY <3>1 DEF RowType
    <3>3. \A j \in Items : row'[j] = IF j = i THEN [row[j] EXCEPT !.state = "purged"] ELSE row[j]
      BY <2>2 DEF IInv, Types
    <3>4. row' \in [Items -> RowType] BY <2>2, <3>1, <3>2 DEF IInv, Types
    <3>5. \A j \in Items : /\ row'[j].place = row[j].place /\ row'[j].key = row[j].key
                           /\ row'[j].state = row[j].state \/ (row[j].state = "live" /\ row'[j].state = "purged")
      BY <2>2, <3>1, <3>3 DEF RowType, Live
    <3> QED BY <3>4, <3>5 DEF RowsOnlyEnd
  <2> QED BY <1>2, <2>1, <2>2
<1>8. Tombs'
  <2>1. txn' = txn \/ (Live(i) /\ row' = row /\ txn' = [txn EXCEPT !.tomb = txn.tomb \cup {i}]) BY DEF Tombstone
  <2>2. CASE txn' = txn BY <1>7, <2>2, TombsStay
  <2>3. CASE Live(i) /\ row' = row /\ txn' = [txn EXCEPT !.tomb = txn.tomb \cup {i}]
    BY <1>3, <2>3 DEF IInv, Tombs, TxnType, Entries, Live
  <2> QED BY <2>1, <2>2, <2>3
<1> QED BY <1>1, <1>6, <1>7, <1>8, BlobsStay, RemovalInv

(* The work after a delete that follows the tombstone: the next place, or  *)
(* the next row.                                                           *)
LEMMA AfterDeleteIs ==
    ASSUME IInv, NEW p \in Purgers, work[p].step = "again"
    PROVE  LET c == work[p].cur
               w == AfterDelete(p) IN
           /\ w \in WorkType /\ w.list = work[p].list
           /\ IF c.at = work[p].after THEN w.step = "rows"
              ELSE w.step = "again" /\ w.cur = [i |-> c.i, at |-> work[p].after] /\ w.after = work[p].after
           /\ w.step = "again" => w.cur \in Entries /\ w.cur.i = c.i
           /\ c \in Entries /\ c.i \in Items /\ c.at \in Places /\ c.i \in touched
<1> DEFINE c == work[p].cur
<1>1. /\ work[p] \in WorkType /\ work[p].after \in Places
      /\ c \in Entries /\ c.i \in Items /\ c.at \in Places /\ c.i \in touched
  BY DEF IInv, Types, Deleting, Entries, WorkType
<1>2. [i |-> c.i, at |-> work[p].after] \in Entries BY <1>1 DEF Entries
<1>3. CASE c.at = work[p].after
  <2>1. AfterDelete(p) = [work[p] EXCEPT !.step = "rows", !.cur = NoEntry, !.after = "home"]
    BY <1>3 DEF AfterDelete
  <2> QED BY <1>1, <1>3, <2>1 DEF WorkType, Places
<1>4. CASE c.at # work[p].after
  <2>1. AfterDelete(p) = [work[p] EXCEPT !.cur = [i |-> c.i, at |-> work[p].after]]
    BY <1>4 DEF AfterDelete
  <2> QED BY <1>1, <1>2, <1>4, <2>1 DEF WorkType
<1> QED BY <1>3, <1>4

(* The deletes after the tombstone, whether they succeed or fail.          *)
LEMMA DeleteBlobAgainInv ==
    ASSUME IInv, NEW p \in Purgers, DeleteBlobAgain(p) \/ DeleteBlobAgainFails(p)
    PROVE  IInv'
<1> DEFINE c == work[p].cur
           w == AfterDelete(p)
<1>1. /\ work[p].step = "again" /\ work' = [work EXCEPT ![p] = w]
      /\ blob' = blob \/ blob' = [blob EXCEPT ![c.i][c.at] = "none"]
      /\ row' = row /\ up' = up /\ tool' = tool /\ touched' = touched /\ txn' = txn
  BY DEF DeleteBlobAgain, DeleteBlobAgainFails, Purge
<1>2. /\ w \in WorkType /\ w.step \in {"rows", "again"}
      /\ w.step = "again" => w.cur \in Entries /\ w.cur.i = c.i
      /\ c.i \in Items /\ c.at \in Places /\ c.i \in touched
  BY <1>1, AfterDeleteIs
<1> HIDE DEF w, c
<1>3. work' \in [Purgers -> WorkType] /\ Deleting' BY <1>1, <1>2, WorkTo
<1>4. BlobsOnlyGo
  <2>1. CASE blob' = blob BY <2>1, BlobsStay
  <2>2. CASE blob' = [blob EXCEPT ![c.i][c.at] = "none"]
    BY <1>1, <1>2, <2>2 DEF BlobsOnlyGo, IInv, Types
  <2> QED BY <1>1, <2>1, <2>2
<1> QED BY <1>1, <1>3, <1>4, RowsStay, TombsStay, RemovalInv

(* The empty work, and work with a list of rows.                           *)
LEMMA WorkValues ==
    /\ NoWork \in WorkType /\ NoWork.step = "idle"
    /\ \A l \in SUBSET Entries :
          LET w == [NoWork EXCEPT !.step = "rows", !.list = l] IN w \in WorkType /\ w.step = "rows"
BY DEF NoWork, WorkType, Places

(* The rows a purge lists are entries.                                     *)
LEMMA ListedRows == ASSUME IInv PROVE LiveEntries \in SUBSET Entries
BY DEF IInv, Types, RowType, LiveEntries, Entries

(* A step that only sets a purger to work, or ends its work.               *)
LEMMA SetWorkInv ==
    ASSUME IInv, NEW p \in Purgers, NEW w \in WorkType, w.step \in {"idle", "rows"},
           work' = [work EXCEPT ![p] = w], RowsOnlyEnd, Tombs',
           blob' = blob, up' = up, tool' = tool, touched' = touched
    PROVE  IInv'
<1>1. work' \in [Purgers -> WorkType] /\ Deleting' BY WorkTo
<1> QED BY <1>1, BlobsStay, RemovalInv

(* Rows that end, all at once: those in S become tombstones or go.         *)
LEMMA RowsEnd ==
    ASSUME IInv, NEW S, \A i \in S : i \in Items => row[i].state # "none", NEW new \in {"purged", "deleted"},
           row' = [i \in Items |-> IF i \in S THEN [row[i] EXCEPT !.state = new] ELSE row[i]]
    PROVE  RowsOnlyEnd
<1>1. \A i \in Items : row[i] \in RowType BY DEF IInv, Types
<1>2. \A i \in Items : [row[i] EXCEPT !.state = new] \in RowType BY <1>1 DEF RowType
<1>3. row' \in [Items -> RowType] BY <1>1, <1>2
<1>4. ASSUME NEW i \in Items
      PROVE  /\ row'[i].place = row[i].place /\ row'[i].key = row[i].key
             /\ row'[i].state = row[i].state \/ (row[i].state # "none" /\ row'[i].state = new)
  <2>1. CASE i \in S BY <1>1, <2>1 DEF RowType
  <2>2. CASE i \notin S BY <2>2
  <2> QED BY <2>1, <2>2
<1> QED BY <1>3, <1>4 DEF RowsOnlyEnd

(* The transaction of a session purge.                                     *)
LEMMA PurgeInv == ASSUME IInv, PurgeNext PROVE IInv'
<1>1. CASE RetentionSelects BY <1>1, RowsStay, TombsStay, KeptInv DEF RetentionSelects
<1>2. ASSUME NEW by \in {"retention", "withdrawal"}, PurgeBegins(by) PROVE IInv'
  <2> DEFINE w == [NoWork EXCEPT !.step = "rows", !.list = LiveEntries]
  <2>1. row' = row /\ blob' = blob /\ up' = up /\ tool' = tool /\ touched' = touched
    BY <1>2 DEF PurgeBegins
  <2>2. \/ work' = work /\ txn' = txn
        \/ work' = [work EXCEPT !["session"] = w] /\ txn' = [NoTxn EXCEPT !.by = by]
    BY <1>2 DEF PurgeBegins
  <2>3. w \in WorkType /\ w.step = "rows" BY WorkValues, ListedRows
  <2>4. CASE work' = work /\ txn' = txn BY <2>1, <2>4, RowsStay, TombsStay, KeptInv
  <2> HIDE DEF w
  <2>5. CASE work' = [work EXCEPT !["session"] = w] /\ txn' = [NoTxn EXCEPT !.by = by]
    <3>1. "session" \in Purgers BY DEF Purgers
    <3>2. Tombs' BY <2>5 DEF Tombs, TxnType, NoTxn
    <3> QED BY <2>1, <2>3, <2>5, <3>1, <3>2, RowsStay, SetWorkInv
  <2> QED BY <2>2, <2>4, <2>5
<1>3. CASE CountRemaining
  <2>1. txn' = [txn EXCEPT !.counted = TRUE, !.left = \E i \in Items : Live(i) /\ i \notin txn.tomb]
    BY <1>3 DEF CountRemaining
  <2>2. txn' \in TxnType /\ txn'.tomb = txn.tomb
    <3> DEFINE l == \E i \in Items : Live(i) /\ i \notin txn.tomb
    <3>1. l \in BOOLEAN OBVIOUS
    <3>2. txn \in TxnType BY DEF IInv, Tombs
    <3>3. txn' = [txn EXCEPT !.counted = TRUE, !.left = l] BY <2>1
    <3> HIDE DEF l
    <3> QED BY <3>1, <3>2, <3>3 DEF TxnType
  <2>3. Tombs' BY <1>3, <2>2 DEF IInv, Tombs, CountRemaining
  <2> QED BY <1>3, <2>3, KeptInv DEF CountRemaining
<1>4. ASSUME PurgeEnds, RowsOnlyEnd PROVE IInv'
  <2>1. /\ work' = [work EXCEPT !["session"] = NoWork] /\ txn' = NoTxn
        /\ blob' = blob /\ up' = up /\ tool' = tool /\ touched' = touched
    BY <1>4 DEF PurgeEnds
  <2>2. "session" \in Purgers BY DEF Purgers
  <2>3. Tombs' BY <2>1 DEF Tombs, TxnType, NoTxn
  <2> QED BY <1>4, <2>1, <2>2, <2>3, WorkValues, SetWorkInv
<1>5. CASE PurgeCommits
  <2>1. /\ PurgeEnds
        /\ row' = [i \in Items |-> IF i \in txn.tomb THEN [row[i] EXCEPT !.state = "purged"] ELSE row[i]]
    BY <1>5 DEF PurgeCommits
  <2>2. \A i \in txn.tomb : i \in Items => row[i].state # "none" BY DEF IInv, Tombs
  <2>3. RowsOnlyEnd BY <2>1, <2>2, RowsEnd
  <2> QED BY <1>4, <2>1, <2>3
<1>6. CASE PurgeRollsBack
  <2>1. PurgeEnds /\ row' = row BY <1>6 DEF PurgeRollsBack
  <2> QED BY <1>4, <2>1, RowsStay
<1> QED BY <1>1, <1>2, <1>3, <1>5, <1>6 DEF PurgeNext

(* Retention of the records, and erasure.                                  *)
LEMMA MetadataInv == ASSUME IInv, purgeEventMetadata PROVE IInv'
<1> DEFINE S == {i \in Items : row[i].state = "purged"}
<1>1. row' = [i \in Items |-> IF i \in S THEN [row[i] EXCEPT !.state = "deleted"] ELSE row[i]]
  BY DEF purgeEventMetadata
<1>2. \A i \in S : i \in Items => row[i].state # "none" OBVIOUS
<1> HIDE DEF S
<1>3. RowsOnlyEnd BY <1>1, <1>2, RowsEnd
<1>4. /\ blob' = blob /\ up' = up /\ tool' = tool /\ work' = work /\ touched' = touched /\ txn' = txn
  BY DEF purgeEventMetadata
<1>5. work' \in [Purgers -> WorkType] /\ Deleting' BY <1>4 DEF IInv, Types, Deleting
<1> QED BY <1>3, <1>4, <1>5, BlobsStay, TombsStay, RemovalInv

(* eraseCandidate: two rounds of purging, then every row goes.             *)
LEMMA EraseInv == ASSUME IInv, EraseBegins \/ EraseNext PROVE IInv'
<1>1. "erase" \in Purgers BY DEF Purgers
<1>2. work["erase"] \in WorkType BY <1>1 DEF IInv, Types
<1>3. CASE EraseBegins
  <2> DEFINE w == [NoWork EXCEPT !.step = "rows", !.list = LiveEntries]
  <2>1. /\ work' = [work EXCEPT !["erase"] = w]
        /\ row' = row /\ blob' = blob /\ up' = up /\ tool' = tool /\ touched' = touched /\ txn' = txn
    BY <1>3 DEF EraseBegins
  <2>2. w \in WorkType /\ w.step = "rows" BY WorkValues, ListedRows
  <2> HIDE DEF w
  <2> QED BY <1>1, <2>1, <2>2, RowsStay, TombsStay, SetWorkInv
<1>4. CASE EraseRoundDone
  <2> DEFINE w == IF erase = "first" THEN [work["erase"] EXCEPT !.list = LiveEntries] ELSE NoWork
  <2>1. /\ work' = [work EXCEPT !["erase"] = w] /\ work["erase"].step = "rows"
        /\ row' = row /\ blob' = blob /\ up' = up /\ tool' = tool /\ touched' = touched /\ txn' = txn
    BY <1>4 DEF EraseRoundDone
  <2>2. w \in WorkType /\ w.step \in {"idle", "rows"}
    <3>1. LET x == [work["erase"] EXCEPT !.list = LiveEntries] IN x \in WorkType /\ x.step = "rows"
      BY <1>2, <2>1, ListedRows DEF WorkType
    <3> QED BY <3>1, WorkValues
  <2> HIDE DEF w
  <2> QED BY <1>1, <2>1, <2>2, RowsStay, TombsStay, SetWorkInv
<1>5. CASE EraseDeletes
  <2> DEFINE S == {i \in Items : row[i].state # "none"}
  <2>1. row' = [i \in Items |-> IF i \in S THEN [row[i] EXCEPT !.state = "deleted"] ELSE row[i]]
    BY <1>5 DEF EraseDeletes
  <2>2. \A i \in S : i \in Items => row[i].state # "none" OBVIOUS
  <2> HIDE DEF S
  <2>3. RowsOnlyEnd BY <2>1, <2>2, RowsEnd
  <2>4. /\ blob' = blob /\ up' = up /\ tool' = tool /\ work' = work /\ touched' = touched /\ txn' = txn
    BY <1>5 DEF EraseDeletes
  <2>5. work' \in [Purgers -> WorkType] /\ Deleting' BY <2>4 DEF IInv, Types, Deleting
  <2> QED BY <2>3, <2>4, <2>5, BlobsStay, TombsStay, RemovalInv
<1> QED BY <1>3, <1>4, <1>5 DEF EraseNext

-----------------------------------------------------------------------------
(***************************************************************************)
(* Uploads: the item has no row yet, or no tool can be at work on it for   *)
(* any other reason.                                                       *)
(***************************************************************************)
ItemOK(i) ==
    /\ up[i] \in {"idle", "put", "insert", "discard"} => row[i].state = "none"
    /\ up[i] = "insert" /\ i \notin touched => blob[i]["home"] # "none"
    /\ Live(i) /\ i \notin touched => HasImage(i)
    /\ Live(i) /\ row[i].key = "new" => blob[i][row[i].place] # "old"

(* A step on one item that no tool is at work on.                          *)
LEMMA OneItemInv ==
    ASSUME IInv, NEW i \in Items,
           \A t \in Tools : Busy(t) => tool[t].e.i # i,
           \A j \in Items : j # i => row'[j] = row[j] /\ blob'[j] = blob[j] /\ up'[j] = up[j],
           tool' = tool, touched' = touched, Types', Deleting', Tombs', ItemOK(i)'
    PROVE  IInv'
<1>1. ASSUME NEW t \in Tools, Busy(t) PROVE tool[t].e.i \in Items /\ tool[t].e.i # i
  BY <1>1 DEF IInv, ToolRow, Entries
<1>2. ASSUME NEW j \in Items PROVE ItemOK(j)'
  <2>1. CASE j = i BY <2>1
  <2>2. CASE j # i
    <3>1. ItemOK(j) BY DEF IInv, Uploads, LiveRowHasImage, KeyIdTrue, ItemOK
    <3> QED BY <2>2, <3>1 DEF ItemOK, Live, HasImage
  <2> QED BY <2>1, <2>2
<1>3. Uploads' /\ LiveRowHasImage' /\ KeyIdTrue' BY <1>2 DEF ItemOK, Uploads, LiveRowHasImage, KeyIdTrue
<1>4. ToolRow' BY <1>1 DEF IInv, ToolRow, Busy
<1>5. MoveOrder' BY <1>1 DEF IInv, MoveOrder, Busy, Tools
<1>6. RekeyOrder' BY <1>1 DEF IInv, RekeyOrder, Busy, Tools
<1> QED BY <1>3, <1>4, <1>5, <1>6 DEF IInv

(* No tool is at work on an item whose row was never written.              *)
LEMMA NotYetATool ==
    ASSUME IInv, NEW i \in Items, row[i].state = "none"
    PROVE  \A t \in Tools : Busy(t) => tool[t].e.i # i
BY DEF IInv, ToolRow

(* The steps that only move the upload on, and may start or end its purge. *)
LEMMA UploadMoves ==
    ASSUME IInv, NEW i \in Items, NEW to \in UpSteps, to # "insert",
           to \in {"idle", "put", "discard"} => row[i].state = "none",
           up' = [up EXCEPT ![i] = to],
           row' = row, blob' = blob, tool' = tool, touched' = touched, txn' = txn,
           work' \in [Purgers -> WorkType], Deleting'
    PROVE  IInv'
<1>1. /\ up' \in [Items -> UpSteps]
      /\ \A j \in Items : up'[j] = IF j = i THEN to ELSE up[j]
  BY DEF IInv, Types
<1>2. Types' BY <1>1 DEF IInv, Types
<1>3. Tombs' BY RowsStay, TombsStay
<1>4. Uploads' BY <1>1 DEF IInv, Uploads
<1>5. ToolRow' /\ MoveOrder' /\ RekeyOrder' BY DEF IInv, ToolRow, MoveOrder, RekeyOrder, Busy
<1>6. LiveRowHasImage' /\ KeyIdTrue' BY DEF IInv, LiveRowHasImage, KeyIdTrue, HasImage, Live
<1> QED BY <1>2, <1>3, <1>4, <1>5, <1>6 DEF IInv

(* The object is written, then the row inserted; a row that is not         *)
(* inserted takes the object with it.                                      *)
LEMMA UploadInv == ASSUME IInv, NEW i \in Items, UploadAccepted(i) \/ UploadNext(i) PROVE IInv'
<1>1. up \in [Items -> UpSteps] /\ work \in [Purgers -> WorkType] BY DEF IInv, Types
<1>2. work' = work /\ touched' = touched => work' \in [Purgers -> WorkType] /\ Deleting'
  BY <1>1 DEF IInv, Deleting
<1>3. i \in Purgers BY DEF Purgers
<1>4. up[i] \in {"idle", "put", "insert", "discard"} => row[i].state = "none" BY DEF IInv, Uploads
<1>5. CASE UploadAccepted(i)
  <2>1. /\ up' = [up EXCEPT ![i] = "put"] /\ up[i] = "idle" /\ work' = work
        /\ row' = row /\ blob' = blob /\ tool' = tool /\ touched' = touched /\ txn' = txn
    BY <1>5 DEF UploadAccepted, Upload
  <2> QED BY <1>2, <1>4, <2>1, UploadMoves DEF UpSteps
<1>6. CASE UploadPut(i)
  <2>1. /\ up' = [up EXCEPT ![i] = "insert"] /\ up[i] = "put" /\ work' = work
        /\ blob' = [blob EXCEPT ![i]["home"] = "old"]
        /\ row' = row /\ tool' = tool /\ touched' = touched /\ txn' = txn
    BY <1>6 DEF UploadPut, Upload
  <2>2. row[i].state = "none" BY <1>4, <2>1
  <2>3. /\ blob' \in [Items -> [Places -> Keys \cup {"none"}]] /\ blob'[i]["home"] = "old"
        /\ \A j \in Items : j # i => blob'[j] = blob[j]
    BY <2>1 DEF IInv, Types, Places, Keys
  <2>4. up' \in [Items -> UpSteps] /\ up'[i] = "insert" /\ \A j \in Items : j # i => up'[j] = up[j]
    BY <1>1, <2>1 DEF UpSteps
  <2>5. Types' BY <2>1, <2>3, <2>4 DEF IInv, Types
  <2>6. ItemOK(i)' BY <2>1, <2>2, <2>3, <2>4 DEF ItemOK, Live
  <2> QED BY <1>2, <2>1, <2>2, <2>3, <2>4, <2>5, <2>6, NotYetATool, RowsStay, TombsStay, OneItemInv
<1>7. CASE storeEvidence(i)
  <2> DEFINE r == [state |-> "live", place |-> "home", key |-> blob[i]["home"]]
  <2>1. /\ up' = [up EXCEPT ![i] = "recheck"] /\ up[i] = "insert" /\ work' = work
        /\ row' = [row EXCEPT ![i] = r]
        /\ blob' = blob /\ tool' = tool /\ touched' = touched /\ txn' = txn
    BY <1>7 DEF storeEvidence, Upload
  <2>2. row[i].state = "none" /\ (i \notin touched => blob[i]["home"] # "none")
    BY <1>4, <2>1 DEF IInv, Uploads
  <2>3. r \in RowType BY DEF RowType, IInv, Types, Places
  <2>4. row' \in [Items -> RowType] /\ row'[i] = r /\ \A j \in Items : j # i => row'[j] = row[j]
    BY <2>1, <2>3 DEF IInv, Types
  <2>5. up' \in [Items -> UpSteps] /\ up'[i] = "recheck" /\ \A j \in Items : j # i => up'[j] = up[j]
    BY <1>1, <2>1 DEF UpSteps
  <2>6. Types' BY <2>1, <2>4, <2>5 DEF IInv, Types
  <2>7. ItemOK(i)' BY <2>1, <2>2, <2>4, <2>5 DEF ItemOK, Live, HasImage
  <2>8. Tombs' BY <2>1, <2>4 DEF IInv, Tombs, TxnType
  <2> QED BY <1>2, <2>1, <2>2, <2>4, <2>5, <2>6, <2>7, <2>8, NotYetATool, OneItemInv
<1>8. CASE InsertFails(i) \/ InsertUnknown(i) \/ UploadCutShort(i) \/ (discardFailedInsert(i) /\ blob' = blob)
  <2>1. /\ row' = row /\ blob' = blob /\ tool' = tool /\ touched' = touched /\ txn' = txn /\ work' = work
        /\ \/ up' = [up EXCEPT ![i] = "discard"] /\ up[i] = "insert"
           \/ up' = [up EXCEPT ![i] = "done"]
    BY <1>8 DEF InsertFails, InsertUnknown, UploadCutShort, discardFailedInsert, Upload
  <2> QED BY <1>2, <1>4, <2>1, UploadMoves DEF UpSteps
<1>9. CASE discardFailedInsert(i) /\ blob' = [blob EXCEPT ![i]["home"] = "none"]
  <2>1. /\ up' = [up EXCEPT ![i] = "done"] /\ up[i] = "discard" /\ work' = work
        /\ blob' = [blob EXCEPT ![i]["home"] = "none"]
        /\ row' = row /\ tool' = tool /\ touched' = touched /\ txn' = txn
    BY <1>9 DEF discardFailedInsert, Upload
  <2>2. row[i].state = "none" BY <1>4, <2>1
  <2>3. /\ blob' \in [Items -> [Places -> Keys \cup {"none"}]]
        /\ \A j \in Items : j # i => blob'[j] = blob[j]
    BY <2>1 DEF IInv, Types, Places, Keys
  <2>4. up' \in [Items -> UpSteps] /\ up'[i] = "done" /\ \A j \in Items : j # i => up'[j] = up[j]
    BY <1>1, <2>1 DEF UpSteps
  <2>5. Types' BY <2>1, <2>3, <2>4 DEF IInv, Types
  <2>6. ItemOK(i)' BY <2>1, <2>2, <2>4 DEF ItemOK, Live
  <2> QED BY <1>2, <2>1, <2>2, <2>3, <2>4, <2>5, <2>6, NotYetATool, RowsStay, TombsStay, OneItemInv
<1>10. CASE UploadRecheck(i)
  <2> DEFINE w == [NoWork EXCEPT !.step = "rows", !.list = {[i |-> i, at |-> "home"]}]
  <2>1. row' = row /\ blob' = blob /\ tool' = tool /\ touched' = touched /\ txn' = txn
    BY <1>10 DEF UploadRecheck, Upload
  <2>2. \/ up' = [up EXCEPT ![i] = "purge"] /\ work' = [work EXCEPT ![i] = w]
        \/ up' = [up EXCEPT ![i] = "done"] /\ work' = work
    BY <1>10 DEF UploadRecheck, Upload
  <2>3. w \in WorkType /\ w.step = "rows"
    <3>1. {[i |-> i, at |-> "home"]} \in SUBSET Entries BY DEF Entries, Places
    <3> QED BY <3>1, WorkValues
  <2> HIDE DEF w
  <2>4. CASE up' = [up EXCEPT ![i] = "done"] /\ work' = work BY <1>2, <2>1, <2>4, UploadMoves DEF UpSteps
  <2>5. CASE up' = [up EXCEPT ![i] = "purge"] /\ work' = [work EXCEPT ![i] = w]
    <3>1. work' \in [Purgers -> WorkType] /\ Deleting' BY <1>3, <2>1, <2>3, <2>5, WorkTo
    <3> QED BY <2>1, <2>5, <3>1, UploadMoves DEF UpSteps
  <2> QED BY <2>2, <2>4, <2>5
<1>11. CASE UploadUndone(i)
  <2>1. /\ up' = [up EXCEPT ![i] = "done"] /\ work' = [work EXCEPT ![i] = NoWork]
        /\ row' = row /\ blob' = blob /\ tool' = tool /\ touched' = touched /\ txn' = txn
    BY <1>11 DEF UploadUndone, Upload
  <2>2. work' \in [Purgers -> WorkType] /\ Deleting' BY <1>3, <2>1, WorkValues, WorkTo
  <2> QED BY <2>1, <2>2, UploadMoves DEF UpSteps
<1> QED BY <1>5, <1>6, <1>7, <1>8, <1>9, <1>10, <1>11 DEF UploadNext, discardFailedInsert

-----------------------------------------------------------------------------
(***************************************************************************)
(* The tools.  Each lemma looks at the two of them in turn: what one does  *)
(* keeps what the other counts on, also on the same image.                 *)
(***************************************************************************)

(* What a tool leaves alone.                                               *)
LEMMA ToolFrame ==
    ASSUME IInv, NEW t \in Tools, NEW to \in ToolType, ToolStep(t, to),
           row' \in [Items -> RowType], \A i \in Items : row'[i].state = row[i].state,
           blob' \in [Items -> [Places -> Keys \cup {"none"}]]
    PROVE  /\ Types' /\ Deleting' /\ Tombs'
           /\ tool'[t] = to /\ \A x \in Tools : x # t => tool'[x] = tool[x]
           /\ up' = up /\ touched' = touched
<1>1. tool' = [tool EXCEPT ![t] = to] /\ up' = up /\ work' = work /\ touched' = touched /\ txn' = txn
  BY DEF ToolStep
<1>2. tool' \in [Tools -> ToolType] /\ tool'[t] = to /\ \A x \in Tools : x # t => tool'[x] = tool[x]
  BY <1>1 DEF IInv, Types
<1>3. Types' BY <1>1, <1>2 DEF IInv, Types
<1>4. Deleting' BY <1>1 DEF IInv, Deleting
<1>5. Tombs' BY <1>1 DEF IInv, Tombs, TxnType
<1> QED BY <1>1, <1>2, <1>3, <1>4, <1>5

(* A tool that ends, fails or is killed leaves the images alone.           *)
LEMMA ToolStopsInv ==
    ASSUME IInv, NEW t \in Tools, ToolStep(t, NoTool), row' = row, blob' = blob
    PROVE  IInv'
<1>1. NoTool \in ToolType /\ NoTool.step = "idle" BY DEF NoTool, ToolType
<1>2. /\ Types' /\ Deleting' /\ Tombs' /\ tool'[t] = NoTool /\ \A x \in Tools : x # t => tool'[x] = tool[x]
      /\ up' = up /\ touched' = touched
  <2>1. row' \in [Items -> RowType] /\ blob' \in [Items -> [Places -> Keys \cup {"none"}]]
    BY DEF IInv, Types
  <2> QED BY <1>1, <2>1, ToolFrame
<1>3. \A x \in Tools : Busy(x)' => x # t /\ Busy(x) /\ tool'[x] = tool[x] BY <1>1, <1>2 DEF Busy
<1>4. ToolRow' BY <1>3 DEF IInv, ToolRow
<1>5. MoveOrder' /\ RekeyOrder' BY <1>2, <1>3 DEF IInv, MoveOrder, RekeyOrder, Tools
<1>6. Uploads' /\ LiveRowHasImage' /\ KeyIdTrue'
  BY <1>2 DEF IInv, Uploads, LiveRowHasImage, KeyIdTrue, HasImage, Live
<1> QED BY <1>2, <1>4, <1>5, <1>6 DEF IInv

(* A tool reads the object of a live row.                                  *)
LEMMA ToolReadsInv == ASSUME IInv, NEW t \in Tools, NEW i \in Items, ToolReads(t, i) PROVE IInv'
<1> DEFINE got == blob[i][row[i].place]
           to == [step |-> IF t = "rekey" /\ got = "new" THEN "cas" ELSE "put",
                  e |-> [i |-> i, at |-> row[i].place], got |-> got]
<1>1. /\ ToolStep(t, to) /\ got # "none" /\ Wanted(t, i) /\ Live(i) /\ row' = row /\ blob' = blob
  BY DEF ToolReads, Wanted
<1>2. row[i].place \in Places /\ got \in Keys \cup {"none"} BY DEF IInv, Types, RowType
<1>3. [i |-> i, at |-> row[i].place] \in Entries BY <1>2 DEF Entries
<1>4. to \in ToolType /\ to.e \in Entries /\ to.e.i = i /\ to.e.at = row[i].place /\ to.got = got
  BY <1>2, <1>3 DEF ToolType
<1>5. to.step \in {"put", "cas"} /\ (to.step = "cas" => t = "rekey" /\ got = "new") OBVIOUS
<1> HIDE DEF to
<1>6. /\ Types' /\ Deleting' /\ Tombs' /\ tool'[t] = to /\ \A x \in Tools : x # t => tool'[x] = tool[x]
      /\ up' = up /\ touched' = touched
  <2>1. row' \in [Items -> RowType] /\ blob' \in [Items -> [Places -> Keys \cup {"none"}]]
    BY <1>1 DEF IInv, Types
  <2> QED BY <1>1, <1>4, <2>1, ToolFrame
<1>7. \A x \in Tools : Busy(x)' /\ x # t => Busy(x) /\ tool'[x] = tool[x] BY <1>6 DEF Busy
<1>8. ToolRow' BY <1>1, <1>4, <1>6, <1>7 DEF IInv, ToolRow, Live
<1>9. CASE t = "rekey"
  <2>1. MoveOrder' BY <1>1, <1>6, <1>7, <1>9 DEF IInv, MoveOrder, Tools
  <2>2. RekeyOrder' BY <1>1, <1>4, <1>5, <1>6, <1>9 DEF RekeyOrder
  <2>3. Uploads' /\ LiveRowHasImage' /\ KeyIdTrue'
    BY <1>1, <1>6 DEF IInv, Uploads, LiveRowHasImage, KeyIdTrue, HasImage, Live
  <2> QED BY <1>6, <1>8, <2>1, <2>2, <2>3 DEF IInv
<1>10. CASE t = "move"
  <2>1. MoveOrder' BY <1>1, <1>4, <1>5, <1>6, <1>10 DEF MoveOrder, Wanted
  <2>2. RekeyOrder' BY <1>1, <1>6, <1>7, <1>10 DEF IInv, RekeyOrder, Tools
  <2>3. Uploads' /\ LiveRowHasImage' /\ KeyIdTrue'
    BY <1>1, <1>6 DEF IInv, Uploads, LiveRowHasImage, KeyIdTrue, HasImage, Live
  <2> QED BY <1>6, <1>8, <2>1, <2>2, <2>3 DEF IInv
<1> QED BY <1>9, <1>10 DEF Tools

(* A tool at work has a row and an object to write.                        *)
LEMMA AtWork ==
    ASSUME IInv, NEW t \in Tools, Busy(t)
    PROVE  /\ tool[t].e.i \in Items /\ tool[t].e.at \in Places /\ tool[t] \in ToolType
           /\ Target(t) \in Places /\ Written(t) \in Keys
           /\ t = "move" => Target(t) = "away" /\ Written(t) = tool[t].got
           /\ t = "rekey" => Target(t) = tool[t].e.at /\ Written(t) = "new"
<1>1. tool[t] \in ToolType /\ tool[t].e \in Entries /\ tool[t].got # "none"
  BY DEF IInv, Types, ToolRow
<1>2. tool[t].got \in Keys BY <1>1 DEF ToolType
<1>3. tool[t].e.i \in Items /\ tool[t].e.at \in Places BY <1>1 DEF Entries
<1> QED BY <1>1, <1>2, <1>3 DEF Target, Written, Tools, Places, Keys

(* It writes the object, under the new key or at the new place.            *)
LEMMA ToolWritesInv == ASSUME IInv, NEW t \in Tools, ToolWrites(t) PROVE IInv'
<1> DEFINE to == [tool[t] EXCEPT !.step = "cas"]
           i == tool[t].e.i
<1>1. /\ ToolStep(t, to) /\ tool[t].step = "put" /\ row' = row
      /\ blob' = [blob EXCEPT ![i][Target(t)] = Written(t)]
  BY DEF ToolWrites
<1>2. Busy(t) BY <1>1 DEF Busy
<1>3. /\ i \in Items /\ tool[t].e.at \in Places /\ tool[t] \in ToolType
      /\ Target(t) \in Places /\ Written(t) \in Keys
      /\ t = "move" => Target(t) = "away" /\ Written(t) = tool[t].got
      /\ t = "rekey" => Target(t) = tool[t].e.at /\ Written(t) = "new"
  BY <1>2, AtWork
<1>4. to \in ToolType /\ to.step = "cas" /\ to.e = tool[t].e /\ to.got = tool[t].got
  BY <1>3 DEF ToolType
<1>5. /\ blob' \in [Items -> [Places -> Keys \cup {"none"}]]
      /\ \A j \in Items, q \in Places :
            blob'[j][q] = IF j = i /\ q = Target(t) THEN Written(t) ELSE blob[j][q]
  BY <1>1, <1>3 DEF IInv, Types
<1>6. /\ Types' /\ Deleting' /\ Tombs' /\ tool'[t] = to /\ \A x \in Tools : x # t => tool'[x] = tool[x]
      /\ up' = up /\ touched' = touched
  <2>1. row' \in [Items -> RowType] /\ \A j \in Items : row'[j].state = row[j].state
    BY <1>1 DEF IInv, Types
  <2> HIDE DEF to
  <2> QED BY <1>1, <1>4, <1>5, <2>1, ToolFrame
<1> HIDE DEF to, i
<1>7. \A x \in Tools : Busy(x)' /\ x # t => Busy(x) /\ tool'[x] = tool[x] BY <1>6 DEF Busy
<1>8. ToolRow' BY <1>1, <1>2, <1>4, <1>6, <1>7 DEF IInv, ToolRow
<1>9. \A j \in Items : row[j].place \in Places BY DEF IInv, Types, RowType
<1>10. Uploads' BY <1>1, <1>3, <1>5, <1>6 DEF IInv, Uploads, Places, Keys
<1>11. LiveRowHasImage' BY <1>1, <1>3, <1>5, <1>6, <1>9 DEF IInv, LiveRowHasImage, HasImage, Live, Keys
<1>12. CASE t = "rekey"
  <2>1. MoveOrder'
    <3>1. Busy("move") => tool["move"].e.i \in Items BY AtWork DEF Tools
    <3> QED BY <1>1, <1>3, <1>5, <1>6, <1>7, <1>12, <3>1 DEF IInv, MoveOrder, Tools, Places
  <2>2. RekeyOrder'
    <3>1. i = tool["rekey"].e.i BY <1>12 DEF i
    <3> QED BY <1>1, <1>2, <1>3, <1>4, <1>5, <1>6, <1>12, <3>1 DEF IInv, RekeyOrder
  <2>3. KeyIdTrue' BY <1>1, <1>3, <1>5, <1>9, <1>12 DEF IInv, KeyIdTrue, Live
  <2> QED BY <1>6, <1>8, <1>10, <1>11, <2>1, <2>2, <2>3 DEF IInv
<1>13. CASE t = "move"
  <2>1. i = tool["move"].e.i /\ row[i].place = "home" /\ tool["move"].e.at = "home" /\ tool["move"].got # "none"
    BY <1>1, <1>2, <1>13 DEF IInv, MoveOrder, ToolRow, i
  <2>2. MoveOrder' BY <1>1, <1>3, <1>4, <1>5, <1>6, <1>13, <2>1 DEF MoveOrder, Places
  <2>3. RekeyOrder'
    <3>1. Busy("rekey") => tool["rekey"].e.i \in Items /\ tool["rekey"].e.at \in Places BY AtWork DEF Tools
    <3> QED BY <1>1, <1>3, <1>5, <1>6, <1>7, <1>13, <2>1, <3>1 DEF IInv, RekeyOrder, Tools
  <2>4. KeyIdTrue' BY <1>1, <1>3, <1>5, <1>9, <1>13, <2>1 DEF IInv, KeyIdTrue, Live
  <2> QED BY <1>6, <1>8, <1>10, <1>11, <2>2, <2>3, <2>4 DEF IInv
<1> QED BY <1>12, <1>13 DEF Tools

(* It points the row at what it wrote, if the row is where it was.         *)
LEMMA ToolPointsRowInv == ASSUME IInv, NEW t \in Tools, ToolPointsRow(t) PROVE IInv'
<1> DEFINE i == tool[t].e.i
           same == Live(i) /\ row[i].place = tool[t].e.at
           r == [row[i] EXCEPT !.place = Target(t), !.key = Written(t)]
           to == IF ~same THEN [tool[t] EXCEPT !.step = "check"]
                 ELSE IF t = "move" THEN [tool[t] EXCEPT !.step = "delete"] ELSE NoTool
<1>1. /\ tool[t].step = "cas" /\ ToolStep(t, to) /\ blob' = blob
      /\ row' = IF same THEN [row EXCEPT ![i] = r] ELSE row
  BY DEF ToolPointsRow
<1>2. Busy(t) BY <1>1 DEF Busy
<1>3. /\ i \in Items /\ tool[t].e.at \in Places /\ tool[t] \in ToolType
      /\ Target(t) \in Places /\ Written(t) \in Keys
      /\ t = "move" => Target(t) = "away" /\ Written(t) = tool[t].got
      /\ t = "rekey" => Target(t) = tool[t].e.at /\ Written(t) = "new"
  BY <1>2, AtWork
<1>4. row[i] \in RowType BY <1>3 DEF IInv, Types
<1>5. r \in RowType /\ r.place = Target(t) /\ r.key = Written(t) /\ r.state = row[i].state
  BY <1>3, <1>4 DEF RowType
<1>6. to \in ToolType BY <1>3 DEF ToolType, NoTool
<1>7. \/ to = NoTool /\ same /\ t # "move"
      \/ to.step = "delete" /\ to.e = tool[t].e /\ to.got = tool[t].got /\ same /\ t = "move"
      \/ to.step = "check" /\ to.e = tool[t].e /\ to.got = tool[t].got /\ ~same
  BY <1>3 DEF ToolType
<1> HIDE DEF r, to
<1>8. /\ row' \in [Items -> RowType]
      /\ \A j \in Items : row'[j] = IF j = i /\ same THEN r ELSE row[j]
  BY <1>1, <1>3, <1>5 DEF IInv, Types
<1>9. \A j \in Items : row'[j].state = row[j].state BY <1>5, <1>8
<1>10. /\ Types' /\ Deleting' /\ Tombs' /\ tool'[t] = to /\ \A x \in Tools : x # t => tool'[x] = tool[x]
       /\ up' = up /\ touched' = touched
  <2>1. blob' \in [Items -> [Places -> Keys \cup {"none"}]] BY <1>1 DEF IInv, Types
  <2> QED BY <1>1, <1>6, <1>8, <1>9, <2>1, ToolFrame
<1> HIDE DEF i, same
<1>11. \A x \in Tools : Busy(x)' /\ x # t => Busy(x) /\ tool'[x] = tool[x] BY <1>10 DEF Busy
<1>12. Busy(t)' => to.e = tool[t].e /\ to.got = tool[t].got BY <1>7, <1>10 DEF Busy, NoTool
<1>13. \A x \in Tools : Busy(x) => tool[x].e.i \in Items BY AtWork
<1>14. ToolRow'
  <2>1. ASSUME NEW x \in Tools, Busy(x)'
        PROVE  tool'[x].e = tool[x].e /\ tool'[x].got = tool[x].got /\ Busy(x)
    <3>1. CASE x = t BY <1>2, <1>10, <1>12, <2>1, <3>1
    <3>2. CASE x # t BY <1>11, <2>1, <3>2
    <3> QED BY <3>1, <3>2
  <2> QED BY <1>9, <1>13, <2>1 DEF IInv, ToolRow
<1>15. Uploads' BY <1>1, <1>9, <1>10 DEF IInv, Uploads
<1>16. CASE t = "rekey"
  <2>1. i = tool["rekey"].e.i /\ blob[i][tool["rekey"].e.at] # "old"
    BY <1>1, <1>2, <1>16 DEF IInv, RekeyOrder, i
  <2>2. same => row[i].place = Target(t) BY <1>3, <1>16 DEF same
  <2>3. \A j \in Items : row'[j].place = row[j].place BY <1>5, <1>8, <2>2
  <2>4. MoveOrder' BY <1>1, <1>10, <1>11, <1>13, <1>16, <2>3 DEF IInv, MoveOrder, Tools
  <2>5. RekeyOrder'
    <3>1. to = NoTool \/ to.step = "check" BY <1>7, <1>16
    <3>2. Busy("rekey")' => to.step = "check" /\ to.e = tool["rekey"].e
      BY <1>10, <1>12, <1>16, <3>1 DEF Busy, NoTool
    <3> QED BY <1>2, <1>10, <1>13, <1>16, <2>3, <3>2 DEF IInv, RekeyOrder
  <2>6. LiveRowHasImage' BY <1>1, <1>9, <1>10, <2>3 DEF IInv, LiveRowHasImage, HasImage, Live
  <2>7. KeyIdTrue'
    <3>1. ASSUME NEW j \in Items, Live(j)', row'[j].key = "new" PROVE blob'[j][row'[j].place] # "old"
      <4>1. CASE j = i /\ same BY <1>1, <1>3, <1>16, <2>1, <2>2, <2>3, <4>1
      <4>2. CASE ~(j = i /\ same) BY <1>1, <1>8, <3>1, <4>2 DEF IInv, KeyIdTrue, Live
      <4> QED BY <4>1, <4>2
    <3> QED BY <3>1 DEF KeyIdTrue
  <2> QED BY <1>10, <1>14, <1>15, <2>4, <2>5, <2>6, <2>7 DEF IInv
<1>17. CASE t = "move"
  <2>1. /\ i = tool["move"].e.i /\ tool["move"].e.at = "home" /\ row[i].place = "home"
        /\ tool["move"].got = "new" => blob[i]["away"] # "old"
        /\ i \notin touched => blob[i]["away"] # "none"
    BY <1>1, <1>2, <1>17 DEF IInv, MoveOrder, i
  <2>2. MoveOrder'
    <3>1. CASE same
      <4>1. to.step = "delete" /\ to.e = tool["move"].e BY <1>7, <1>17, <3>1 DEF NoTool
      <4>2. row'[i].place = "away" BY <1>3, <1>5, <1>8, <1>17, <3>1
      <4> QED BY <1>10, <1>17, <2>1, <4>1, <4>2 DEF MoveOrder
    <3>2. CASE ~same
      <4>1. to.step = "check" /\ to.e = tool["move"].e BY <1>7, <1>17, <3>2
      <4> QED BY <1>10, <1>17, <2>1, <4>1 DEF MoveOrder
    <3> QED BY <3>1, <3>2
  <2>3. \A j \in Items : row[j].place = "away" => row'[j].place = "away" BY <1>3, <1>5, <1>8, <1>17
  <2>4. RekeyOrder' BY <1>1, <1>10, <1>11, <1>13, <1>17, <2>3 DEF IInv, RekeyOrder, Tools
  <2>5. LiveRowHasImage'
    <3>1. ASSUME NEW j \in Items, Live(j)', j \notin touched PROVE blob'[j][row'[j].place] # "none"
      <4>1. CASE j = i /\ same BY <1>1, <1>3, <1>5, <1>8, <1>17, <2>1, <3>1, <4>1
      <4>2. CASE ~(j = i /\ same) BY <1>1, <1>8, <3>1, <4>2 DEF IInv, LiveRowHasImage, HasImage, Live
      <4> QED BY <4>1, <4>2
    <3> QED BY <1>10, <3>1 DEF LiveRowHasImage, HasImage
  <2>6. KeyIdTrue'
    <3>1. ASSUME NEW j \in Items, Live(j)', row'[j].key = "new" PROVE blob'[j][row'[j].place] # "old"
      <4>1. CASE j = i /\ same BY <1>1, <1>3, <1>5, <1>8, <1>17, <2>1, <3>1, <4>1
      <4>2. CASE ~(j = i /\ same) BY <1>1, <1>8, <3>1, <4>2 DEF IInv, KeyIdTrue, Live
      <4> QED BY <4>1, <4>2
    <3> QED BY <3>1 DEF KeyIdTrue
  <2> QED BY <1>10, <1>14, <1>15, <2>2, <2>4, <2>5, <2>6 DEF IInv
<1> QED BY <1>16, <1>17 DEF Tools

(* An object at a place that no live row points at is deleted, by a tool   *)
(* that then ends.                                                         *)
LEMMA ToolDeletesInv ==
    ASSUME IInv, NEW t \in Tools, Busy(t), ToolStep(t, NoTool), row' = row,
           NEW q \in Places,
           blob' = [blob EXCEPT ![tool[t].e.i][q] = "none"],
           Live(tool[t].e.i) => row[tool[t].e.i].place # q,
           t = "rekey" /\ q = "away" => row[tool[t].e.i].place = "away"
    PROVE  IInv'
<1> DEFINE i == tool[t].e.i
<1>1. i \in Items /\ row[i].state # "none" BY AtWork DEF IInv, ToolRow
<1>2. /\ blob' \in [Items -> [Places -> Keys \cup {"none"}]]
      /\ \A j \in Items, p \in Places : blob'[j][p] = IF j = i /\ p = q THEN "none" ELSE blob[j][p]
  BY <1>1 DEF IInv, Types
<1>3. NoTool \in ToolType /\ NoTool.step = "idle" BY DEF NoTool, ToolType
<1>4. /\ Types' /\ Deleting' /\ Tombs' /\ tool'[t] = NoTool /\ \A x \in Tools : x # t => tool'[x] = tool[x]
      /\ up' = up /\ touched' = touched
  <2>1. row' \in [Items -> RowType] BY DEF IInv, Types
  <2> QED BY <1>2, <1>3, <2>1, ToolFrame
<1> HIDE DEF i
<1>5. \A x \in Tools : Busy(x)' => x # t /\ Busy(x) /\ tool'[x] = tool[x] BY <1>3, <1>4 DEF Busy
<1>6. ToolRow' BY <1>5 DEF IInv, ToolRow
<1>7. Uploads' BY <1>1, <1>2, <1>4 DEF IInv, Uploads, Places
<1>8. \A j \in Items : row[j].place \in Places BY DEF IInv, Types, RowType
<1>9. LiveRowHasImage' BY <1>2, <1>4, <1>8 DEF IInv, LiveRowHasImage, HasImage, Live, i
<1>10. KeyIdTrue' BY <1>2, <1>8 DEF IInv, KeyIdTrue, Live
<1>11. \A x \in Tools : Busy(x) => tool[x].e.i \in Items /\ tool[x].e.at \in Places BY AtWork
<1>12. RekeyOrder' BY <1>2, <1>5, <1>11 DEF IInv, RekeyOrder, Tools
<1>13. MoveOrder'
  <2>1. CASE t = "move" BY <1>5, <2>1 DEF MoveOrder
  <2>2. CASE t = "rekey"
    <3>1. Busy("move") /\ tool["move"].step = "cas" => ~(tool["move"].e.i = i /\ q = "away")
      BY <2>2 DEF IInv, MoveOrder, i
    <3> QED BY <1>2, <1>4, <1>5, <1>11, <2>2, <3>1 DEF IInv, MoveOrder, Tools, Places
  <2> QED BY <2>1, <2>2 DEF Tools
<1> QED BY <1>4, <1>6, <1>7, <1>9, <1>10, <1>12, <1>13 DEF IInv

(* The steps of a tool, and of the move, that end it.                      *)
LEMMA ToolInv ==
    ASSUME IInv, NEW t \in Tools, ToolNext(t) \/ (\E i \in Items : ToolReads(t, i))
    PROVE  IInv'
<1>1. CASE ToolWrites(t) BY <1>1, ToolWritesInv
<1>2. CASE ToolPointsRow(t) BY <1>2, ToolPointsRowInv
<1>3. CASE ToolCleansUp(t)
  <2>1. Busy(t) /\ ToolStep(t, NoTool) /\ row' = row BY <1>3 DEF ToolCleansUp, Busy
  <2>2. CASE Live(tool[t].e.i) /\ row[tool[t].e.i].place = Target(t)
    BY <1>3, <2>1, <2>2, ToolStopsInv DEF ToolCleansUp
  <2>3. CASE ~(Live(tool[t].e.i) /\ row[tool[t].e.i].place = Target(t))
    <3>1. blob' = [blob EXCEPT ![tool[t].e.i][Target(t)] = "none"] BY <1>3, <2>3 DEF ToolCleansUp
    <3>2. Target(t) \in Places /\ (t = "rekey" => Target(t) = tool[t].e.at) BY <2>1, AtWork
    <3>3. t = "rekey" /\ Target(t) = "away" => row[tool[t].e.i].place = "away"
      BY <2>1, <3>2 DEF IInv, RekeyOrder
    <3> QED BY <2>1, <2>3, <3>1, <3>2, <3>3, ToolDeletesInv
  <2> QED BY <2>2, <2>3
<1>4. CASE ToolFails(t) BY <1>4, ToolStopsInv DEF ToolFails
<1>5. ASSUME NEW i \in Items, ToolReads(t, i) PROVE IInv' BY <1>5, ToolReadsInv
<1> QED BY <1>1, <1>2, <1>3, <1>4, <1>5 DEF ToolNext

(* The move deletes the old object: the row points away; or its own copy,  *)
(* which could not be read back: the row is still at home.                 *)
LEMMA MoveDeletesInv == ASSUME IInv, MoveDeletesOld \/ CopyUnverified PROVE IInv'
<1> DEFINE m == tool["move"]
<1>1. "move" \in Tools BY DEF Tools
<1>2. CASE MoveDeletesOld
  <2>1. /\ m.step = "delete" /\ Busy("move") /\ ToolStep("move", NoTool) /\ row' = row
        /\ blob' = [blob EXCEPT ![m.e.i][m.e.at] = "none"]
    BY <1>2 DEF MoveDeletesOld, Busy
  <2>2. m.e.at = "home" /\ row[m.e.i].place = "away" /\ m.e.at \in Places
    BY <2>1 DEF IInv, MoveOrder, Places
  <2> QED BY <1>1, <2>1, <2>2, ToolDeletesInv
<1>3. CASE CopyUnverified
  <2>1. /\ m.step = "cas" /\ Busy("move") /\ ToolStep("move", NoTool) /\ row' = row
        /\ blob' = [blob EXCEPT ![m.e.i]["away"] = "none"]
    BY <1>3 DEF CopyUnverified, Busy
  <2>2. row[m.e.i].place = "home" /\ "away" \in Places BY <2>1 DEF IInv, MoveOrder, Places
  <2> QED BY <1>1, <2>1, <2>2, ToolDeletesInv
<1> QED BY <1>2, <1>3

-----------------------------------------------------------------------------
(* Every step keeps the invariant.                                         *)
LEMMA NextInv == IInv /\ [Next]_vars => IInv'
<1> SUFFICES ASSUME IInv, [Next]_vars PROVE IInv' OBVIOUS
<1>1. ASSUME NEW s, SessionStep(s) PROVE IInv'
  BY <1>1, RowsStay, TombsStay, KeptInv DEF SessionStep
<1>2. CASE finalizeSession \/ withdrawConsent \/ reopenSession \/ DeadlinePasses
  BY <1>1, <1>2 DEF finalizeSession, withdrawConsent, reopenSession, DeadlinePasses
<1>3. ASSUME NEW enabled \in BOOLEAN, setLegalHold(enabled) PROVE IInv' BY <1>1, <1>3 DEF setLegalHold
<1>4. ASSUME NEW i \in Items, UploadAccepted(i) \/ UploadNext(i) PROVE IInv' BY <1>4, UploadInv
<1>5. ASSUME NEW p \in Purgers, PurgerNext(p) PROVE IInv'
  BY <1>5, DeleteBlobInv, DeleteBlobFailsInv, TombstoneInv, DeleteBlobAgainInv DEF PurgerNext
<1>6. CASE PurgeNext \/ purgeEventMetadata BY <1>6, PurgeInv, MetadataInv
<1>7. CASE EraseBegins \/ EraseNext BY <1>7, EraseInv
<1>8. ASSUME NEW t \in Tools, ToolNext(t) \/ \E i \in Items : ToolReads(t, i) PROVE IInv'
  BY <1>8, ToolInv
<1>9. CASE CopyUnverified \/ MoveDeletesOld BY <1>9, MoveDeletesInv
<1>10. CASE UNCHANGED vars BY <1>10, RowsStay, TombsStay, KeptInv DEF vars
<1> QED BY <1>2, <1>3, <1>4, <1>5, <1>6, <1>7, <1>8, <1>9, <1>10 DEF Next

(* A live row that no purge has begun to delete points at a complete       *)
(* object, at every step of uploads, re-encryption and moves, whoever else *)
(* works on the image and wherever a tool is killed.                       *)
THEOREM ImageAlwaysThere == Spec => []LiveRowHasImage
<1>1. IInv => LiveRowHasImage BY DEF IInv
<1> QED BY <1>1, InitInv, NextInv, PTL DEF Spec

(* A row that names the new key has no object under the old one, so that   *)
(* the old key can be removed once every row names the new one.            *)
THEOREM KeyIdAlwaysTrue == Spec => []KeyIdTrue
<1>1. IInv => KeyIdTrue BY DEF IInv
<1> QED BY <1>1, InitInv, NextInv, PTL DEF Spec

-----------------------------------------------------------------------------
(***************************************************************************)
(* Who may delete what, and when.  The locks and the order of each         *)
(* purger's work say which images a step can reach; from that follow what  *)
(* a legal hold keeps, that nothing is left of a purged image and that no  *)
(* recording outlives the purge of its session.                            *)
(***************************************************************************)

(* A hold is not set, and the session's rows are not purged, beside an     *)
(* open purge transaction; what it counted stays the whole of it.          *)
Locks ==
    /\ session.hold => txn.by = "none"
    /\ txn.by = "none" => work["session"].step = "idle" /\ txn.tomb = {} /\ ~txn.counted
    /\ txn.counted => work["session"].step = "rows" /\ work["session"].list = {}

(* The erasure works in its two rounds, an upload while it undoes itself,  *)
(* and that on nothing but its own image.                                  *)
EraseWork == erase \notin {"first", "leftovers"} => work["erase"].step = "idle"
UploadWork ==
    \A i \in Items :
        /\ up[i] # "purge" => work[i].step = "idle"
        /\ \A e \in work[i].list : e.i = i
        /\ work[i].step \in {"tombstone", "again"} => work[i].cur.i = i

(* The row was moved: it stays where it is.                                *)
Moved(i) == row[i].state # "none" /\ row[i].place = "away"

(* A purger looks away from home only for rows that were moved.            *)
Looks(w) ==
    /\ \A e \in w.list : e.at = "away" => Moved(e.i)
    /\ w.step \in {"tombstone", "again"} => (w.cur.at = "away" => Moved(w.cur.i))
    /\ w.step = "again" => (w.after = "away" => Moved(w.cur.i))
Looking == \A p \in Purgers : Looks(work[p])

(* The move's copy is there when the row is pointed at it, touched or not; *)
(* a tool cleans up only what no live row points at.                       *)
MoveCopy == tool["move"].step = "cas" => blob[tool["move"].e.i]["away"] # "none"
CleansStray ==
    \A t \in Tools : tool[t].step = "check" => ~(Live(tool[t].e.i) /\ row[tool[t].e.i].place = Target(t))

Order == Locks /\ EraseWork /\ UploadWork /\ Looking /\ MoveCopy /\ CleansStray

-----------------------------------------------------------------------------
(***************************************************************************)
(* What the steps of a purger do, entry by entry.                          *)
(***************************************************************************)

(* One purger's work changes.                                              *)
OnlyWork(p, w) == work'[p] = w /\ \A x \in Purgers : x # p => work'[x] = work[x]

(* So it reads for a purger and its new work.                              *)
LEMMA OneWork ==
    ASSUME IInv, NEW p \in Purgers, NEW w, work' = [work EXCEPT ![p] = w]
    PROVE  OnlyWork(p, w)
BY DEF IInv, Types, OnlyWork

(* One object goes.                                                        *)
OnlyBlob(i, Q) ==
    /\ \A j \in Items, q \in Places : ~(j = i /\ q \in Q) => blob'[j][q] = blob[j][q]
    /\ \A q \in Q : blob'[i][q] = "none"

(* The first delete.                                                       *)
LEMMA DeleteBlobDoes ==
    ASSUME IInv, NEW p \in Purgers, DeleteBlob(p)
    PROVE  \E e \in work[p].list, w \in WorkType :
              /\ e \in Entries /\ work[p].step = "rows" /\ OnlyWork(p, w)
              /\ w.step = "tombstone" /\ w.list = work[p].list \ {e} /\ w.cur = e
              /\ OnlyBlob(e.i, {e.at})
              /\ UNCHANGED <<session, row, up, txn, erase, tool, stray, skipped>>
<1>1. PICK e \in work[p].list :
        /\ work' = [work EXCEPT ![p] = [work[p] EXCEPT !.step = "tombstone", !.list = @ \ {e}, !.cur = e]]
        /\ blob' = [blob EXCEPT ![e.i][e.at] = "none"]
  BY DEF DeleteBlob, Purge
<1> DEFINE w == [work[p] EXCEPT !.step = "tombstone", !.list = @ \ {e}, !.cur = e]
<1>2. work[p] \in WorkType BY DEF IInv, Types
<1>3. e \in Entries BY <1>1, <1>2 DEF WorkType
<1>4. w \in WorkType /\ w.step = "tombstone" /\ w.list = work[p].list \ {e} /\ w.cur = e
  BY <1>2, <1>3 DEF WorkType
<1>5. work' = [work EXCEPT ![p] = w] BY <1>1
<1> HIDE DEF w
<1>6. OnlyWork(p, w) BY <1>5, OneWork
<1>7. OnlyBlob(e.i, {e.at}) BY <1>1, <1>3 DEF OnlyBlob, IInv, Types, Entries
<1>8. work[p].step = "rows" /\ UNCHANGED <<session, row, up, txn, erase, tool, stray, skipped>>
  BY DEF DeleteBlob, Purge
<1> QED BY <1>3, <1>4, <1>6, <1>7, <1>8

(* A delete that fails.                                                    *)
LEMMA DeleteBlobFailsDoes ==
    ASSUME IInv, NEW p \in Purgers, DeleteBlobFails(p)
    PROVE  \E e \in work[p].list, w \in WorkType :
              /\ e \in Entries /\ work[p].step = "rows" /\ OnlyWork(p, w)
              /\ w.step = "rows" /\ w.list = work[p].list \ {e}
              /\ skipped' = skipped \cup {e.i}
              /\ UNCHANGED <<session, row, blob, up, txn, erase, tool, stray>>
<1>1. PICK e \in work[p].list :
        /\ work' = [work EXCEPT ![p] = [work[p] EXCEPT !.list = @ \ {e}]]
        /\ skipped' = skipped \cup {e.i}
  BY DEF DeleteBlobFails, Purge
<1> DEFINE w == [work[p] EXCEPT !.list = @ \ {e}]
<1>2. work[p] \in WorkType /\ work[p].step = "rows" BY DEF IInv, Types, DeleteBlobFails
<1>3. e \in Entries BY <1>1, <1>2 DEF WorkType
<1>4. w \in WorkType /\ w.step = "rows" /\ w.list = work[p].list \ {e} BY <1>2 DEF WorkType
<1>5. work' = [work EXCEPT ![p] = w] BY <1>1
<1> HIDE DEF w
<1>6. OnlyWork(p, w) BY <1>5, OneWork
<1>7. UNCHANGED <<session, row, blob, up, txn, erase, tool, stray>> BY DEF DeleteBlobFails, Purge
<1> QED BY <1>1, <1>2, <1>3, <1>4, <1>6, <1>7

(* The tombstone: the row's, or the transaction's.                         *)
LEMMA TombstoneDoes ==
    ASSUME IInv, NEW p \in Purgers, Tombstone(p)
    PROVE  \E w \in WorkType :
              LET i == work[p].cur.i IN
              /\ i \in Items /\ work[p].step = "tombstone" /\ OnlyWork(p, w)
              /\ w.step = "again" /\ w.list = work[p].list /\ w.cur = work[p].cur
              /\ w.after = IF Live(i) THEN row[i].place ELSE work[p].cur.at
              /\ i \notin txn.tomb
              /\ p = "session" => /\ row' = row
                                  /\ IF Live(i) THEN txn' = [txn EXCEPT !.tomb = txn.tomb \cup {i}]
                                                ELSE txn' = txn
              /\ p # "session" => /\ txn' = txn
                                  /\ IF Live(i) THEN row' = [row EXCEPT ![i].state = "purged"]
                                                ELSE row' = row
              /\ UNCHANGED <<session, blob, up, erase, tool, stray, skipped>>
<1> DEFINE i == work[p].cur.i
           a == IF Live(i) THEN row[i].place ELSE work[p].cur.at
           w == [work[p] EXCEPT !.step = "again", !.after = a]
<1>1. /\ work[p].step = "tombstone" /\ work' = [work EXCEPT ![p] = w] /\ i \notin txn.tomb
      /\ UNCHANGED <<session, blob, up, erase, tool, stray, skipped>>
  BY DEF Tombstone, Purge, RowFree
<1>2. /\ p = "session" => /\ row' = row
                          /\ IF Live(i) THEN txn' = [txn EXCEPT !.tomb = txn.tomb \cup {i}] ELSE txn' = txn
      /\ p # "session" => /\ txn' = txn
                          /\ IF Live(i) THEN row' = [row EXCEPT ![i].state = "purged"] ELSE row' = row
  BY DEF Tombstone
<1>3. work[p] \in WorkType /\ i \in Items /\ work[p].cur.at \in Places
  BY <1>1 DEF IInv, Types, Deleting, Entries
<1>4. a \in Places BY <1>3 DEF IInv, Types, RowType
<1> HIDE DEF a
<1>5. w \in WorkType /\ w.step = "again" /\ w.list = work[p].list /\ w.cur = work[p].cur /\ w.after = a
  BY <1>3, <1>4 DEF WorkType
<1> HIDE DEF w
<1>6. OnlyWork(p, w) BY <1>1, OneWork
<1> QED BY <1>1, <1>2, <1>3, <1>5, <1>6 DEF a

(* A delete after it: the purger goes on to the other place, or row.       *)
AgainTo(p, w) ==
    /\ OnlyWork(p, w) /\ w.list = work[p].list
    /\ IF work[p].cur.at = work[p].after THEN w.step = "rows"
       ELSE /\ w.step = "again" /\ w.after = work[p].after
            /\ w.cur = [i |-> work[p].cur.i, at |-> work[p].after]

(* It deletes the object, or leaves a stray.                               *)
LEMMA DeleteBlobAgainDoes ==
    ASSUME IInv, NEW p \in Purgers, DeleteBlobAgain(p) \/ DeleteBlobAgainFails(p)
    PROVE  \E w \in WorkType :
              /\ work[p].step = "again" /\ work[p].cur \in Entries /\ AgainTo(p, w)
              /\ \/ OnlyBlob(work[p].cur.i, {work[p].cur.at}) /\ stray' = stray
                 \/ blob' = blob /\ stray' = stray \cup {work[p].cur}
              /\ UNCHANGED <<session, row, up, txn, erase, tool, skipped>>
<1> DEFINE c == work[p].cur
           w == AfterDelete(p)
<1>1. /\ work[p].step = "again" /\ work' = [work EXCEPT ![p] = w]
      /\ UNCHANGED <<session, row, up, txn, erase, tool, skipped>>
      /\ \/ blob' = [blob EXCEPT ![c.i][c.at] = "none"] /\ stray' = stray
         \/ blob' = blob /\ stray' = stray \cup {c}
  BY DEF DeleteBlobAgain, DeleteBlobAgainFails, Purge
<1>2. /\ w \in WorkType /\ w.list = work[p].list
      /\ IF c.at = work[p].after THEN w.step = "rows"
         ELSE w.step = "again" /\ w.cur = [i |-> c.i, at |-> work[p].after] /\ w.after = work[p].after
      /\ c \in Entries /\ c.i \in Items /\ c.at \in Places
  BY <1>1, AfterDeleteIs
<1>3. blob' = [blob EXCEPT ![c.i][c.at] = "none"] => OnlyBlob(c.i, {c.at})
  BY <1>2 DEF OnlyBlob, IInv, Types
<1> HIDE DEF w
<1>4. OnlyWork(p, w) BY <1>1, OneWork
<1> QED BY <1>1, <1>2, <1>3, <1>4 DEF AgainTo

-----------------------------------------------------------------------------
(***************************************************************************)
(* The order is kept.                                                      *)
(***************************************************************************)

(* A row that was moved stays moved.                                       *)
MovedStays == \A i \in Items : Moved(i) => row'[i].state # "none" /\ row'[i].place = "away"

(* No row comes to life, or to another place.                              *)
NoRowBegins ==
    \A i \in Items : /\ row'[i].place = row[i].place
                     /\ row'[i].state = "live" => row[i].state = "live"
                     /\ row'[i].state = "none" <=> row[i].state = "none"

(* Such rows stay moved when they were.                                    *)
LEMMA NoRowMoves == ASSUME NoRowBegins PROVE MovedStays
BY DEF NoRowBegins, MovedStays, Moved

(* One purger's new work looks where it may.                               *)
LEMMA LookingKept ==
    ASSUME IInv, IInv', Looking, MovedStays,
           NEW p \in Purgers, NEW w, OnlyWork(p, w), Looks(w)
    PROVE  Looking'
<1>1. ASSUME NEW x \in Purgers PROVE Looks(work'[x])
  BY DEF OnlyWork, Looking
<1>2. ASSUME NEW x \in Purgers
      PROVE  /\ \A e \in work'[x].list : e.i \in Items
             /\ work'[x].step \in {"tombstone", "again"} => work'[x].cur.i \in Items
  BY DEF IInv, Types, WorkType, Entries, Deleting
<1> QED BY <1>1, <1>2 DEF Looking, Looks, MovedStays, Moved

(* Nobody's work changes.                                                  *)
LEMMA LookingStays == ASSUME IInv, IInv', Looking, MovedStays, work' = work PROVE Looking'
<1>1. "session" \in Purgers /\ OnlyWork("session", work["session"]) /\ Looks(work["session"])
  BY DEF Purgers, OnlyWork, Looking
<1> QED BY <1>1, LookingKept

(* The purgers are different ones.                                         *)
LEMMA Roles ==
    /\ "session" \in Purgers /\ "erase" \in Purgers /\ Items \subseteq Purgers
    /\ "session" \notin Items /\ "erase" \notin Items
    /\ \A p \in Purgers : p = "session" \/ p = "erase" \/ p \in Items
BY EvidenceAssumption DEF Purgers

(* What a purger leaves to the others.                                     *)
LEMMA PurgerLeaves ==
    ASSUME NEW p, PurgerNext(p)
    PROVE  /\ UNCHANGED <<session, up, waiting, erase, tool>>
           /\ skipped \subseteq skipped' /\ stray \subseteq stray'
<1>1. ASSUME NEW w, Purge(p, w) PROVE UNCHANGED <<session, up, waiting, erase, tool>>
  BY <1>1 DEF Purge
<1>2. UNCHANGED <<session, up, waiting, erase, tool>>
  BY <1>1 DEF PurgerNext, DeleteBlob, DeleteBlobFails, Tombstone, DeleteBlobAgain, DeleteBlobAgainFails
<1>3. \/ skipped' = skipped
      \/ \E e \in work[p].list : skipped' = skipped \cup {e.i}
  BY DEF PurgerNext, DeleteBlob, DeleteBlobFails, Tombstone, DeleteBlobAgain, DeleteBlobAgainFails
<1>4. stray' = stray \/ stray' = stray \cup {work[p].cur}
  BY DEF PurgerNext, DeleteBlob, DeleteBlobFails, Tombstone, DeleteBlobAgain, DeleteBlobAgainFails
<1> QED BY <1>2, <1>3, <1>4

(* A purger goes on with what it had.                                      *)
LEMMA PurgerGoesOn ==
    ASSUME IInv, Order, NEW p \in Purgers, NEW w, OnlyWork(p, w),
           work[p].step # "idle", p = "session" => ~txn.counted,
           txn'.by = txn.by, txn'.counted = txn.counted, txn.by = "none" => txn' = txn,
           session' = session, erase' = erase, up' = up,
           \A e \in w.list : e \in work[p].list,
           w.step \in {"tombstone", "again"} =>
              w.cur \in work[p].list \/ (w.cur.i = work[p].cur.i /\ work[p].step \in {"tombstone", "again"})
    PROVE  Locks' /\ EraseWork' /\ UploadWork'
<1>1. Locks'
  <2>1. CASE p = "session"
    BY <2>1 DEF Order, Locks
  <2>2. CASE p # "session"
    <3>1. work'["session"] = work["session"] BY <2>2, Roles DEF OnlyWork
    <3> QED BY <3>1 DEF Order, Locks
  <2> QED BY <2>1, <2>2
<1>2. EraseWork'
  <2>1. CASE p = "erase"
    BY <2>1 DEF Order, EraseWork
  <2>2. CASE p # "erase"
    <3>1. work'["erase"] = work["erase"] BY <2>2, Roles DEF OnlyWork
    <3> QED BY <3>1 DEF Order, EraseWork
  <2> QED BY <2>1, <2>2
<1>3. UploadWork'
  <2> SUFFICES ASSUME NEW i \in Items
               PROVE  /\ up[i] # "purge" => work'[i].step = "idle"
                      /\ \A e \in work'[i].list : e.i = i
                      /\ work'[i].step \in {"tombstone", "again"} => work'[i].cur.i = i
    BY DEF UploadWork
  <2>1. /\ up[i] # "purge" => work[i].step = "idle"
        /\ \A e \in work[i].list : e.i = i
        /\ work[i].step \in {"tombstone", "again"} => work[i].cur.i = i
    BY DEF Order, UploadWork
  <2>2. CASE p = i BY <2>1, <2>2 DEF OnlyWork
  <2>3. CASE p # i
    <3>1. work'[i] = work[i] BY <2>3, Roles DEF OnlyWork
    <3> QED BY <2>1, <3>1
  <2> QED BY <2>2, <2>3
<1> QED BY <1>1, <1>2, <1>3

(* The tools go on undisturbed when no row begins and no copy away from    *)
(* home goes but those of moved rows.                                      *)
LEMMA ToolsUndisturbed ==
    ASSUME IInv, Order, tool' = tool, NoRowBegins,
           \A i \in Items : ~Moved(i) => blob'[i]["away"] = blob[i]["away"]
    PROVE  MoveCopy' /\ CleansStray'
<1>1. \A t \in Tools : Busy(t) => tool[t].e.i \in Items /\ row[tool[t].e.i].state # "none"
  BY DEF IInv, ToolRow, Entries
<1>2. MoveCopy'
  <2> SUFFICES ASSUME tool["move"].step = "cas" PROVE blob'[tool["move"].e.i]["away"] # "none"
    BY DEF MoveCopy
  <2>1. tool["move"].e.i \in Items /\ row[tool["move"].e.i].place = "home"
    BY <1>1 DEF IInv, MoveOrder, Busy, Tools
  <2> QED BY <2>1 DEF Order, MoveCopy, Moved
<1>3. CleansStray'
  <2> SUFFICES ASSUME NEW t \in Tools, tool[t].step = "check"
               PROVE  ~(row'[tool[t].e.i].state = "live" /\ row'[tool[t].e.i].place = Target(t)')
    BY DEF CleansStray, Live
  <2>1. Busy(t) BY DEF Busy
  <2>2. Target(t)' = Target(t) BY DEF Target
  <2> QED BY <1>1, <2>1, <2>2 DEF Order, CleansStray, Live, NoRowBegins
<1> QED BY <1>2, <1>3

(* The steps of a purger.                                                  *)
LEMMA PurgerOrder == ASSUME IInv, IInv', Order, NEW p \in Purgers, PurgerNext(p) PROVE Order'
<1>0. Looks(work[p]) BY DEF Order, Looking
<1>1. CASE DeleteBlob(p)
  <2>1. PICK e \in work[p].list, w \in WorkType :
              /\ e \in Entries /\ work[p].step = "rows" /\ OnlyWork(p, w)
              /\ w.step = "tombstone" /\ w.list = work[p].list \ {e} /\ w.cur = e
              /\ OnlyBlob(e.i, {e.at})
              /\ UNCHANGED <<session, row, up, txn, erase, tool, stray, skipped>>
    BY <1>1, DeleteBlobDoes
  <2>2. p = "session" => ~txn.counted BY <2>1 DEF Order, Locks
  <2>3. Locks' /\ EraseWork' /\ UploadWork' BY <2>1, <2>2, PurgerGoesOn
  <2>4. Looks(w) BY <1>0, <2>1 DEF Looks
  <2>5. NoRowBegins BY <2>1 DEF NoRowBegins
  <2>6. Looking' BY <2>1, <2>4, <2>5, NoRowMoves, LookingKept DEF Order
  <2>7. e.at = "away" => Moved(e.i) BY <1>0, <2>1 DEF Looks
  <2>8. \A i \in Items : ~Moved(i) => blob'[i]["away"] = blob[i]["away"]
    BY <2>1, <2>7 DEF OnlyBlob, Places
  <2> QED BY <2>1, <2>3, <2>5, <2>6, <2>8, ToolsUndisturbed DEF Order
<1>2. CASE DeleteBlobFails(p)
  <2>1. PICK e \in work[p].list, w \in WorkType :
              /\ e \in Entries /\ work[p].step = "rows" /\ OnlyWork(p, w)
              /\ w.step = "rows" /\ w.list = work[p].list \ {e}
              /\ skipped' = skipped \cup {e.i}
              /\ UNCHANGED <<session, row, blob, up, txn, erase, tool, stray>>
    BY <1>2, DeleteBlobFailsDoes
  <2>2. p = "session" => ~txn.counted BY <2>1 DEF Order, Locks
  <2>3. Locks' /\ EraseWork' /\ UploadWork' BY <2>1, <2>2, PurgerGoesOn
  <2>4. Looks(w) BY <1>0, <2>1 DEF Looks
  <2>5. NoRowBegins BY <2>1 DEF NoRowBegins
  <2>6. Looking' BY <2>1, <2>4, <2>5, NoRowMoves, LookingKept DEF Order
  <2> QED BY <2>1, <2>3, <2>5, <2>6, ToolsUndisturbed DEF Order
<1>3. CASE Tombstone(p)
  <2> DEFINE i == work[p].cur.i
  <2>1. PICK w \in WorkType :
              /\ i \in Items /\ work[p].step = "tombstone" /\ OnlyWork(p, w)
              /\ w.step = "again" /\ w.list = work[p].list /\ w.cur = work[p].cur
              /\ w.after = IF Live(i) THEN row[i].place ELSE work[p].cur.at
              /\ i \notin txn.tomb
              /\ p = "session" => /\ row' = row
                                  /\ IF Live(i) THEN txn' = [txn EXCEPT !.tomb = txn.tomb \cup {i}]
                                                ELSE txn' = txn
              /\ p # "session" => /\ txn' = txn
                                  /\ IF Live(i) THEN row' = [row EXCEPT ![i].state = "purged"]
                                                ELSE row' = row
              /\ UNCHANGED <<session, blob, up, erase, tool, stray, skipped>>
    BY <1>3, TombstoneDoes
  <2>2. p = "session" => ~txn.counted /\ txn.by # "none" BY <2>1 DEF Order, Locks
  <2>3. txn'.by = txn.by /\ txn'.counted = txn.counted /\ (txn.by = "none" => txn' = txn)
    <3>1. txn \in TxnType BY DEF IInv, Tombs
    <3> QED BY <2>1, <2>2, <3>1 DEF TxnType
  <2>4. Locks' /\ EraseWork' /\ UploadWork' BY <2>1, <2>2, <2>3, PurgerGoesOn
  <2>5. Looks(w) BY <1>0, <2>1 DEF Looks, Live, Moved
  <2>6. NoRowBegins BY <2>1 DEF NoRowBegins, IInv, Types, RowType, Live
  <2>7. Looking' BY <2>1, <2>5, <2>6, NoRowMoves, LookingKept DEF Order
  <2> QED BY <2>1, <2>4, <2>6, <2>7, ToolsUndisturbed DEF Order
<1>4. CASE DeleteBlobAgain(p) \/ DeleteBlobAgainFails(p)
  <2>1. PICK w \in WorkType :
              /\ work[p].step = "again" /\ work[p].cur \in Entries /\ AgainTo(p, w)
              /\ OnlyBlob(work[p].cur.i, {work[p].cur.at}) \/ blob' = blob
              /\ UNCHANGED <<session, row, up, txn, erase, tool>>
    BY <1>4, DeleteBlobAgainDoes
  <2>2. OnlyWork(p, w) /\ w.list = work[p].list /\ w.step \in {"rows", "again"}
    BY <2>1 DEF AgainTo
  <2>3. w.step = "again" => w.cur.i = work[p].cur.i /\ w.cur.at = work[p].after /\ w.after = work[p].after
    BY <2>1 DEF AgainTo
  <2>4. p = "session" => ~txn.counted BY <2>1 DEF Order, Locks
  <2>5. Locks' /\ EraseWork' /\ UploadWork' BY <2>1, <2>2, <2>3, <2>4, PurgerGoesOn
  <2>6. Looks(w) BY <1>0, <2>1, <2>2, <2>3 DEF Looks
  <2>7. NoRowBegins BY <2>1 DEF NoRowBegins
  <2>8. Looking' BY <2>2, <2>6, <2>7, NoRowMoves, LookingKept DEF Order
  <2>9. work[p].cur.at = "away" => Moved(work[p].cur.i) BY <1>0, <2>1 DEF Looks
  <2>10. \A i \in Items : ~Moved(i) => blob'[i]["away"] = blob[i]["away"]
    BY <2>1, <2>9 DEF OnlyBlob, Places
  <2> QED BY <2>1, <2>5, <2>7, <2>8, <2>10, ToolsUndisturbed DEF Order
<1> QED BY <1>1, <1>2, <1>3, <1>4 DEF PurgerNext

(* Rows that end, all at once, row by row.                                 *)
LEMMA RowsSet ==
    ASSUME IInv, NEW S, NEW new,
           row' = [i \in Items |-> IF i \in S THEN [row[i] EXCEPT !.state = new] ELSE row[i]]
    PROVE  \A i \in Items : /\ row'[i].place = row[i].place
                            /\ row'[i].state = IF i \in S THEN new ELSE row[i].state
<1>1. \A i \in Items : row[i] \in RowType BY DEF IInv, Types
<1> QED BY <1>1 DEF RowType

(* The purge transaction, the deletion of records and the erasure's own    *)
(* steps end rows and leave the objects to the purgers.                    *)
LEMMA RowsOnlyEndBeside ==
    ASSUME IInv, PurgeNext \/ purgeEventMetadata \/ EraseBegins \/ EraseNext
    PROVE  NoRowBegins /\ blob' = blob
<1>1. blob' = blob
  BY DEF PurgeNext, RetentionSelects, PurgeBegins, CountRemaining, PurgeCommits, PurgeRollsBack, PurgeEnds,
         purgeEventMetadata, EraseBegins, EraseNext, EraseRoundDone, EraseDeletes
<1> SUFFICES NoRowBegins BY <1>1
<1>2. ASSUME row' = row PROVE NoRowBegins BY <1>2 DEF NoRowBegins
<1>3. CASE PurgeNext
  <2>1. CASE PurgeCommits
    <3>1. row' = [i \in Items |-> IF i \in txn.tomb THEN [row[i] EXCEPT !.state = "purged"] ELSE row[i]]
      BY <2>1 DEF PurgeCommits
    <3>2. \A i \in txn.tomb : row[i].state # "none" BY DEF IInv, Tombs
    <3> QED BY <3>1, <3>2, RowsSet DEF NoRowBegins
  <2>2. CASE ~PurgeCommits
    BY <1>2, <1>3, <2>2 DEF PurgeNext, RetentionSelects, PurgeBegins, CountRemaining, PurgeRollsBack
  <2> QED BY <2>1, <2>2
<1>4. CASE purgeEventMetadata
  <2> DEFINE S == {i \in Items : row[i].state = "purged"}
  <2>1. row' = [i \in Items |-> IF i \in S THEN [row[i] EXCEPT !.state = "deleted"] ELSE row[i]]
    BY <1>4 DEF purgeEventMetadata
  <2>2. \A i \in S : row[i].state = "purged" OBVIOUS
  <2> HIDE DEF S
  <2> QED BY <2>1, <2>2, RowsSet DEF NoRowBegins
<1>5. CASE EraseDeletes
  <2> DEFINE S == {i \in Items : row[i].state # "none"}
  <2>1. row' = [i \in Items |-> IF i \in S THEN [row[i] EXCEPT !.state = "deleted"] ELSE row[i]]
    BY <1>5 DEF EraseDeletes
  <2>2. \A i \in S : row[i].state # "none" OBVIOUS
  <2> HIDE DEF S
  <2> QED BY <2>1, <2>2, RowsSet DEF NoRowBegins
<1>6. CASE EraseBegins \/ EraseRoundDone BY <1>2, <1>6 DEF EraseBegins, EraseRoundDone
<1> QED BY <1>3, <1>4, <1>5, <1>6 DEF EraseNext

(* A list of the live rows looks where it may.                             *)
LEMMA ListLooks ==
    ASSUME NEW w, w.step = "rows", w.list = LiveEntries
    PROVE  Looks(w)
BY DEF Looks, LiveEntries, Moved, Live

(* Empty work looks nowhere.                                               *)
LEMMA NoWorkLooks == Looks(NoWork)
BY DEF Looks, NoWork

(* Nobody's work, and no lock, changes.                                    *)
LEMMA WorkStays ==
    ASSUME Order, UNCHANGED <<work, txn, erase, up>>, session'.hold = session.hold
    PROVE  Locks' /\ EraseWork' /\ UploadWork'
BY DEF Order, Locks, EraseWork, UploadWork

(* The steps of the session: a hold is set beside no purge only.           *)
LEMMA SessionOrder ==
    ASSUME IInv, IInv', Order, NEW s, SessionStep(s), s.hold = session.hold \/ Unlocked
    PROVE  Order'
<1>1. UNCHANGED <<row, blob, up, txn, work, erase, tool>> /\ session' = s BY DEF SessionStep
<1>2. NoRowBegins BY <1>1 DEF NoRowBegins
<1>3. Looking' BY <1>1, <1>2, NoRowMoves, LookingStays DEF Order
<1>4. MoveCopy' /\ CleansStray' BY <1>1, <1>2, ToolsUndisturbed
<1>5. EraseWork' /\ UploadWork' BY <1>1 DEF Order, EraseWork, UploadWork
<1>6. Locks' BY <1>1 DEF Order, Locks, Unlocked
<1> QED BY <1>3, <1>4, <1>5, <1>6 DEF Order

(* The purge transaction.                                                  *)
LEMMA PurgeOrder == ASSUME IInv, IInv', Order, PurgeNext PROVE Order'
<1>1. UNCHANGED <<blob, up, erase, tool>>
  BY DEF PurgeNext, RetentionSelects, PurgeBegins, CountRemaining, PurgeCommits, PurgeRollsBack, PurgeEnds
<1>2. CASE RetentionSelects \/ CountRemaining
  <2>1. UNCHANGED <<session, row, work>> BY <1>2 DEF RetentionSelects, CountRemaining
  <2>2. NoRowBegins BY <2>1 DEF NoRowBegins
  <2>3. Looking' BY <2>1, <2>2, NoRowMoves, LookingStays DEF Order
  <2>4. MoveCopy' /\ CleansStray' BY <1>1, <2>2, ToolsUndisturbed
  <2>5. EraseWork' /\ UploadWork' BY <1>1, <2>1 DEF Order, EraseWork, UploadWork
  <2>6. Locks'
    <3>1. CASE RetentionSelects BY <2>1, <3>1 DEF Order, Locks, RetentionSelects
    <3>2. CASE CountRemaining
      <4>1. /\ txn'.by = txn.by /\ txn'.tomb = txn.tomb /\ txn.by # "none"
            /\ work["session"].step = "rows" /\ work["session"].list = {}
        BY <3>2 DEF CountRemaining, IInv, Tombs, TxnType
      <4> QED BY <2>1, <4>1 DEF Order, Locks
    <3> QED BY <1>2, <3>1, <3>2
  <2> QED BY <2>3, <2>4, <2>5, <2>6 DEF Order
<1>3. ASSUME NEW by \in {"retention", "withdrawal"}, PurgeBegins(by) PROVE Order'
  <2> DEFINE w == [NoWork EXCEPT !.step = "rows", !.list = LiveEntries]
  <2>1. UNCHANGED <<session, row>> /\ txn.by = "none" BY <1>3 DEF PurgeBegins, Unlocked
  <2>2. NoRowBegins BY <2>1 DEF NoRowBegins
  <2>3. MoveCopy' /\ CleansStray' BY <1>1, <2>2, ToolsUndisturbed
  <2>4. CASE ~StillDue(by)
    <3>1. work' = work /\ txn' = txn BY <1>3, <2>4 DEF PurgeBegins
    <3>2. Looking' BY <2>2, <3>1, NoRowMoves, LookingStays DEF Order
    <3>3. Locks' /\ EraseWork' /\ UploadWork' BY <1>1, <2>1, <3>1, WorkStays
    <3> QED BY <2>3, <3>2, <3>3 DEF Order
  <2>5. CASE StillDue(by)
    <3>1. work' = [work EXCEPT !["session"] = w] /\ txn' = [NoTxn EXCEPT !.by = by] /\ ~session.hold
      BY <1>3, <2>5 DEF PurgeBegins, StillDue
    <3>2. w.step = "rows" /\ w.list = LiveEntries BY DEF NoWork
    <3> HIDE DEF w
    <3>3. OnlyWork("session", w) BY <3>1, Roles, OneWork
    <3>4. Looking' BY <2>2, <3>2, <3>3, Roles, ListLooks, NoRowMoves, LookingKept DEF Order
    <3>5. txn'.by = by /\ ~txn'.counted /\ by # "none" BY <3>1 DEF NoTxn
    <3>6. Locks' BY <2>1, <3>1, <3>5 DEF Order, Locks
    <3>7. EraseWork' /\ UploadWork' BY <1>1, <3>3, Roles DEF Order, EraseWork, UploadWork, OnlyWork
    <3> QED BY <2>3, <3>4, <3>6, <3>7 DEF Order
  <2> QED BY <2>4, <2>5
<1>4. CASE PurgeCommits \/ PurgeRollsBack
  <2>1. work' = [work EXCEPT !["session"] = NoWork] /\ txn' = NoTxn
    BY <1>4 DEF PurgeCommits, PurgeRollsBack, PurgeEnds
  <2>2. NoRowBegins BY RowsOnlyEndBeside
  <2>3. OnlyWork("session", NoWork) BY <2>1, Roles, OneWork
  <2>4. Looking' BY <2>2, <2>3, Roles, NoWorkLooks, NoRowMoves, LookingKept DEF Order
  <2>5. MoveCopy' /\ CleansStray' BY <1>1, <2>2, ToolsUndisturbed
  <2>6. Locks' BY <2>1, <2>3 DEF Locks, OnlyWork, NoTxn, NoWork
  <2>7. EraseWork' /\ UploadWork' BY <1>1, <2>3, Roles DEF Order, EraseWork, UploadWork, OnlyWork
  <2> QED BY <2>4, <2>5, <2>6, <2>7 DEF Order
<1> QED BY <1>2, <1>3, <1>4 DEF PurgeNext

(* The records are deleted.                                                *)
LEMMA MetadataOrder == ASSUME IInv, IInv', Order, purgeEventMetadata PROVE Order'
<1>1. NoRowBegins BY RowsOnlyEndBeside
<1>2. UNCHANGED <<session, blob, up, txn, work, erase, tool>> BY DEF purgeEventMetadata
<1>3. Looking' BY <1>1, <1>2, NoRowMoves, LookingStays DEF Order
<1>4. MoveCopy' /\ CleansStray' BY <1>1, <1>2, ToolsUndisturbed
<1>5. Locks' /\ EraseWork' /\ UploadWork' BY <1>2, WorkStays
<1> QED BY <1>3, <1>4, <1>5 DEF Order

(* The erasure.                                                            *)
LEMMA EraseOrder == ASSUME IInv, IInv', Order, EraseBegins \/ EraseNext PROVE Order'
<1>1. UNCHANGED <<blob, up, txn, tool>> BY DEF EraseBegins, EraseNext, EraseRoundDone, EraseDeletes
<1>2. NoRowBegins BY RowsOnlyEndBeside
<1>3. MoveCopy' /\ CleansStray' BY <1>1, <1>2, ToolsUndisturbed
<1>4. CASE EraseDeletes
  <2>1. work' = work /\ session'.hold = session.hold /\ erase = "delete"
    <3>1. session' = [session EXCEPT !.exists = FALSE] /\ work' = work /\ erase = "delete"
      BY <1>4 DEF EraseDeletes
    <3> QED BY <3>1
  <2>2. Looking' BY <1>2, <2>1, NoRowMoves, LookingStays DEF Order
  <2>3. Locks' /\ UploadWork' BY <1>1, <2>1 DEF Order, Locks, UploadWork
  <2>4. EraseWork' BY <2>1 DEF Order, EraseWork
  <2> QED BY <1>3, <2>2, <2>3, <2>4 DEF Order
<1>5. ASSUME NEW w, work' = [work EXCEPT !["erase"] = w], session' = session, Looks(w),
             erase' \notin {"first", "leftovers"} => w.step = "idle"
      PROVE  Order'
  <2>1. OnlyWork("erase", w) BY <1>5, Roles, OneWork
  <2>2. Looking' BY <1>2, <1>5, <2>1, Roles, NoRowMoves, LookingKept DEF Order
  <2>3. Locks' /\ UploadWork'
    BY <1>1, <1>5, <2>1, Roles DEF Order, Locks, UploadWork, OnlyWork
  <2>4. EraseWork' BY <1>5, <2>1 DEF EraseWork, OnlyWork
  <2> QED BY <1>3, <2>2, <2>3, <2>4 DEF Order
<1>6. CASE EraseBegins
  <2> DEFINE w == [NoWork EXCEPT !.step = "rows", !.list = LiveEntries]
  <2>1. work' = [work EXCEPT !["erase"] = w] /\ session' = session /\ erase' = "first"
    BY <1>6 DEF EraseBegins
  <2>2. w.step = "rows" /\ w.list = LiveEntries BY DEF NoWork
  <2> HIDE DEF w
  <2> QED BY <1>5, <2>1, <2>2, ListLooks
<1>7. CASE EraseRoundDone
  <2> DEFINE w == IF erase = "first" THEN [work["erase"] EXCEPT !.list = LiveEntries] ELSE NoWork
  <2>1. /\ work' = [work EXCEPT !["erase"] = w] /\ session' = session /\ work["erase"].step = "rows"
        /\ erase' = IF erase = "first" THEN "leftovers" ELSE "delete"
    BY <1>7 DEF EraseRoundDone
  <2>2. work["erase"] \in WorkType BY Roles DEF IInv, Types
  <2>3. CASE erase = "first"
    <3>1. w.step = "rows" /\ w.list = LiveEntries BY <2>1, <2>2, <2>3 DEF WorkType
    <3> HIDE DEF w
    <3> QED BY <1>5, <2>1, <2>3, <3>1, ListLooks
  <2>4. CASE erase # "first"
    <3>1. w = NoWork /\ NoWork.step = "idle" BY <2>4 DEF NoWork
    <3> HIDE DEF w
    <3> QED BY <1>5, <2>1, <3>1, NoWorkLooks
  <2> QED BY <2>3, <2>4
<1> QED BY <1>4, <1>6, <1>7 DEF EraseNext

(***************************************************************************)
(* The uploads, entry by entry.                                            *)
(***************************************************************************)
OnlyUp(i, from, to) ==
    /\ up[i] = from /\ up'[i] = to
    /\ \A j \in Items : j # i => up'[j] = up[j]

(* An upload's step.                                                       *)
LEMMA UploadStepDoes ==
    ASSUME IInv, NEW i \in Items, NEW from, NEW to, Upload(i, from, to)
    PROVE  OnlyUp(i, from, to) /\ UNCHANGED <<session, txn, erase, tool, skipped, stray>>
BY DEF IInv, Types, Upload, OnlyUp

(* The steps before the row is there: only its object at home changes.     *)
BeforeInsert(i) ==
    /\ \E from \in {"idle", "put", "insert", "discard"}, to \in {"put", "insert", "discard", "done"} :
          OnlyUp(i, from, to)
    /\ \A j \in Items, q \in Places : ~(j = i /\ q = "home") => blob'[j][q] = blob[j][q]
    /\ UNCHANGED <<row, work>>

(* The row is inserted, beside no purge when it is a recording's.          *)
Inserted(i) ==
    /\ OnlyUp(i, "insert", "recheck")
    /\ row'[i].state = "live" /\ row'[i].place = "home"
    /\ \A j \in Items : j # i => row'[j] = row[j]
    /\ i \in Recordings => txn.by = "none"
    /\ UNCHANGED <<blob, work>>

(* The session is looked at again, unless the upload is cut short.         *)
Rechecked(i) ==
    /\ \/ /\ OnlyUp(i, "recheck", "purge")
          /\ work'[i].step = "rows" /\ work'[i].list = {[i |-> i, at |-> "home"]}
       \/ /\ ~(session.exists /\ Closed) \/ i \in skipped'
          /\ OnlyUp(i, "recheck", "done") /\ work'[i] = work[i]
    /\ \A p \in Purgers : p # i => work'[p] = work[p]
    /\ UNCHANGED <<row, blob>>

(* The upload has undone itself.                                           *)
Undone(i) ==
    /\ OnlyUp(i, "purge", "done")
    /\ work[i].step = "rows" /\ work[i].list = {}
    /\ work'[i] = NoWork
    /\ \A p \in Purgers : p # i => work'[p] = work[p]
    /\ UNCHANGED <<row, blob>>

(* A step of an upload is one of these.                                    *)
LEMMA UploadDoes ==
    ASSUME IInv, NEW i \in Items, UploadAccepted(i) \/ UploadNext(i)
    PROVE  /\ BeforeInsert(i) \/ Inserted(i) \/ Rechecked(i) \/ Undone(i)
           /\ UNCHANGED <<session, txn, erase, tool, stray>> /\ skipped \subseteq skipped'
<1>1. i \in Purgers BY Roles
<1>2. CASE UploadAccepted(i)
  <2>1. Upload(i, "idle", "put") /\ UNCHANGED <<row, blob, work>> BY <1>2 DEF UploadAccepted
  <2>2. OnlyUp(i, "idle", "put") /\ UNCHANGED <<session, txn, erase, tool, skipped, stray>>
    BY <2>1, UploadStepDoes
  <2> QED BY <2>1, <2>2 DEF BeforeInsert
<1>3. CASE UploadPut(i)
  <2>1. Upload(i, "put", "insert") /\ blob' = [blob EXCEPT ![i]["home"] = "old"] /\ UNCHANGED <<row, work>>
    BY <1>3 DEF UploadPut
  <2>2. OnlyUp(i, "put", "insert") /\ UNCHANGED <<session, txn, erase, tool, skipped, stray>>
    BY <2>1, UploadStepDoes
  <2>3. \A j \in Items, q \in Places : ~(j = i /\ q = "home") => blob'[j][q] = blob[j][q]
    BY <2>1 DEF IInv, Types
  <2> QED BY <2>1, <2>2, <2>3 DEF BeforeInsert
<1>4. CASE storeEvidence(i)
  <2>1. Upload(i, "insert", "recheck") /\ UNCHANGED <<blob, work>> BY <1>4 DEF storeEvidence
  <2>2. OnlyUp(i, "insert", "recheck") /\ UNCHANGED <<session, txn, erase, tool, skipped, stray>>
    BY <2>1, UploadStepDoes
  <2>3. /\ row'[i].state = "live" /\ row'[i].place = "home"
        /\ \A j \in Items : j # i => row'[j] = row[j]
    BY <1>4 DEF storeEvidence, IInv, Types
  <2>4. i \in Recordings => txn.by = "none" BY <1>4 DEF storeEvidence, Unlocked
  <2> QED BY <2>1, <2>2, <2>3, <2>4 DEF Inserted
<1>5. CASE InsertFails(i) \/ InsertUnknown(i)
  <2>1. PICK to \in {"discard", "done"} : Upload(i, "insert", to) /\ UNCHANGED <<row, blob, work>>
    BY <1>5 DEF InsertFails, InsertUnknown
  <2>2. OnlyUp(i, "insert", to) /\ UNCHANGED <<session, txn, erase, tool, skipped, stray>>
    BY <2>1, UploadStepDoes
  <2> QED BY <2>1, <2>2 DEF BeforeInsert
<1>6. CASE discardFailedInsert(i)
  <2>1. /\ Upload(i, "discard", "done") /\ UNCHANGED <<row, work>>
        /\ blob' = blob \/ blob' = [blob EXCEPT ![i]["home"] = "none"]
    BY <1>6 DEF discardFailedInsert
  <2>2. OnlyUp(i, "discard", "done") /\ UNCHANGED <<session, txn, erase, tool, skipped, stray>>
    BY <2>1, UploadStepDoes
  <2>3. \A j \in Items, q \in Places : ~(j = i /\ q = "home") => blob'[j][q] = blob[j][q]
    BY <2>1 DEF IInv, Types
  <2> QED BY <2>1, <2>2, <2>3 DEF BeforeInsert
<1>7. CASE UploadRecheck(i)
  <2>1. UNCHANGED <<row, blob>> BY <1>7 DEF UploadRecheck
  <2>2. CASE session.exists /\ Closed
    <3> DEFINE w == [NoWork EXCEPT !.step = "rows", !.list = {[i |-> i, at |-> "home"]}]
    <3>1. Upload(i, "recheck", "purge") /\ work' = [work EXCEPT ![i] = w]
      BY <1>7, <2>2 DEF UploadRecheck
    <3>2. w.step = "rows" /\ w.list = {[i |-> i, at |-> "home"]} BY DEF NoWork
    <3> HIDE DEF w
    <3>3. OnlyUp(i, "recheck", "purge") /\ UNCHANGED <<session, txn, erase, tool, skipped, stray>>
      BY <3>1, UploadStepDoes
    <3>4. OnlyWork(i, w) BY <1>1, <3>1, OneWork
    <3> QED BY <2>1, <2>2, <3>2, <3>3, <3>4 DEF Rechecked, OnlyWork
  <2>3. CASE ~(session.exists /\ Closed)
    <3>1. Upload(i, "recheck", "done") /\ work' = work BY <1>7, <2>3 DEF UploadRecheck
    <3>2. OnlyUp(i, "recheck", "done") /\ UNCHANGED <<session, txn, erase, tool, skipped, stray>>
      BY <3>1, UploadStepDoes
    <3> QED BY <2>1, <2>3, <3>1, <3>2 DEF Rechecked
  <2> QED BY <2>2, <2>3
<1>8. CASE UploadUndone(i)
  <2>1. /\ Upload(i, "purge", "done") /\ work' = [work EXCEPT ![i] = NoWork] /\ UNCHANGED <<row, blob>>
        /\ work[i].step = "rows" /\ work[i].list = {}
    BY <1>8 DEF UploadUndone
  <2>2. OnlyUp(i, "purge", "done") /\ UNCHANGED <<session, txn, erase, tool, skipped, stray>>
    BY <2>1, UploadStepDoes
  <2>3. OnlyWork(i, NoWork) BY <1>1, <2>1, OneWork
  <2> QED BY <2>1, <2>2, <2>3 DEF Undone, OnlyWork
<1>9. CASE UploadCutShort(i)
  <2>1. /\ up[i] = "recheck" /\ up' = [up EXCEPT ![i] = "done"] /\ skipped' = skipped \cup {i}
        /\ UNCHANGED <<session, row, blob, txn, work, erase, tool, stray>>
    BY <1>9 DEF UploadCutShort
  <2>2. OnlyUp(i, "recheck", "done") BY <2>1 DEF OnlyUp, IInv, Types
  <2>3. i \in skipped' /\ skipped \subseteq skipped' BY <2>1
  <2> QED BY <2>1, <2>2, <2>3 DEF Rechecked
<1> QED BY <1>2, <1>3, <1>4, <1>5, <1>6, <1>7, <1>8, <1>9 DEF UploadNext

(* A row that is not there yet.                                            *)
LEMMA NoRowYet ==
    ASSUME IInv, NEW i \in Items, up[i] \in {"idle", "put", "insert", "discard"}
    PROVE  row[i].state = "none" /\ \A t \in Tools : Busy(t) => tool[t].e.i # i
BY NotYetATool DEF IInv, Uploads

(* The uploads keep the order.                                             *)
LEMMA UploadOrder ==
    ASSUME IInv, IInv', Order, NEW i \in Items, UploadAccepted(i) \/ UploadNext(i)
    PROVE  Order'
<1>0. /\ BeforeInsert(i) \/ Inserted(i) \/ Rechecked(i) \/ Undone(i)
      /\ UNCHANGED <<session, txn, erase, tool, stray>>
  BY UploadDoes
<1>1. CASE BeforeInsert(i)
  <2>1. /\ UNCHANGED <<row, work>> /\ up[i] # "purge" /\ \A j \in Items : j # i => up'[j] = up[j]
        /\ \A j \in Items : blob'[j]["away"] = blob[j]["away"]
    BY <1>1 DEF BeforeInsert, OnlyUp, Places
  <2>2. NoRowBegins BY <2>1 DEF NoRowBegins
  <2>3. Looking' BY <2>1, <2>2, NoRowMoves, LookingStays DEF Order
  <2>4. MoveCopy' /\ CleansStray' BY <1>0, <2>1, <2>2, ToolsUndisturbed
  <2>5. Locks' /\ EraseWork' BY <1>0, <2>1 DEF Order, Locks, EraseWork
  <2>6. UploadWork' BY <2>1 DEF Order, UploadWork
  <2> QED BY <2>3, <2>4, <2>5, <2>6 DEF Order
<1>2. CASE Inserted(i)
  <2>1. /\ UNCHANGED <<blob, work>> /\ up[i] = "insert" /\ \A j \in Items : j # i => up'[j] = up[j]
        /\ row'[i].place = "home" /\ \A j \in Items : j # i => row'[j] = row[j]
    BY <1>2 DEF Inserted, OnlyUp
  <2>2. row[i].state = "none" /\ \A t \in Tools : Busy(t) => tool[t].e.i # i BY <2>1, NoRowYet
  <2>3. MovedStays BY <2>1, <2>2 DEF MovedStays, Moved
  <2>4. Looking' BY <2>1, <2>3, LookingStays DEF Order
  <2>5. MoveCopy' BY <1>0, <2>1 DEF Order, MoveCopy
  <2>6. CleansStray'
    <3> SUFFICES ASSUME NEW t \in Tools, tool[t].step = "check"
                 PROVE  ~(row'[tool[t].e.i].state = "live" /\ row'[tool[t].e.i].place = Target(t)')
      BY <1>0 DEF CleansStray, Live
    <3>1. Busy(t) BY DEF Busy
    <3>2. Target(t)' = Target(t) BY <1>0 DEF Target
    <3>3. tool[t].e.i \in Items BY <3>1, AtWork
    <3> QED BY <2>1, <2>2, <3>1, <3>2, <3>3 DEF Order, CleansStray, Live
  <2>7. Locks' /\ EraseWork' BY <1>0, <2>1 DEF Order, Locks, EraseWork
  <2>8. UploadWork' BY <2>1 DEF Order, UploadWork
  <2> QED BY <2>4, <2>5, <2>6, <2>7, <2>8 DEF Order
<1>3. CASE Rechecked(i) \/ Undone(i)
  <2>1. /\ UNCHANGED <<row, blob>> /\ \A p \in Purgers : p # i => work'[p] = work[p]
        /\ \A j \in Items : j # i => up'[j] = up[j]
        /\ up[i] = "recheck" \/ up'[i] # "purge"
    BY <1>3 DEF Rechecked, Undone, OnlyUp
  <2>2. \/ work'[i].step = "rows" /\ work'[i].list = {[i |-> i, at |-> "home"]} /\ up'[i] = "purge"
        \/ work'[i] = work[i] /\ up[i] # "purge"
        \/ work'[i] = NoWork
    BY <1>3 DEF Rechecked, Undone, OnlyUp
  <2>3. NoRowBegins BY <2>1 DEF NoRowBegins
  <2>4. Looks(work'[i])
    BY <2>2, NoWorkLooks, Roles DEF Looks, Order, Looking
  <2>5. OnlyWork(i, work'[i]) BY <2>1 DEF OnlyWork
  <2>6. Looking' BY <2>3, <2>4, <2>5, Roles, NoRowMoves, LookingKept DEF Order
  <2>7. MoveCopy' /\ CleansStray' BY <1>0, <2>1, <2>3, ToolsUndisturbed
  <2>8. Locks' /\ EraseWork' BY <1>0, <2>1, Roles DEF Order, Locks, EraseWork
  <2>9. UploadWork'
    <3> SUFFICES ASSUME NEW j \in Items
                 PROVE  /\ up'[j] # "purge" => work'[j].step = "idle"
                        /\ \A e \in work'[j].list : e.i = j
                        /\ work'[j].step \in {"tombstone", "again"} => work'[j].cur.i = j
      BY DEF UploadWork
    <3>1. /\ up[j] # "purge" => work[j].step = "idle"
          /\ \A e \in work[j].list : e.i = j
          /\ work[j].step \in {"tombstone", "again"} => work[j].cur.i = j
      BY DEF Order, UploadWork
    <3>2. CASE j # i BY <2>1, <3>1, <3>2, Roles
    <3>3. CASE j = i BY <2>2, <3>1, <3>3 DEF NoWork
    <3> QED BY <3>2, <3>3
  <2> QED BY <2>6, <2>7, <2>8, <2>9 DEF Order
<1> QED BY <1>0, <1>1, <1>2, <1>3

(***************************************************************************)
(* The tools, entry by entry.                                              *)
(***************************************************************************)
OnlyTool(t, to) ==
    /\ tool'[t] = to
    /\ \A x \in Tools : x # t => tool'[x] = tool[x]
    /\ UNCHANGED <<session, up, txn, work, erase, skipped>>

(* A tool's step.                                                          *)
LEMMA ToolStepDoes ==
    ASSUME IInv, NEW t \in Tools, NEW to, ToolStep(t, to)
    PROVE  OnlyTool(t, to)
BY DEF IInv, Types, ToolStep, OnlyTool

(* It takes up a live row, has written its object, has pointed the row at  *)
(* it, found the row elsewhere, has deleted an object, or stops on a fault.*)
Taken(t, i) ==
    \E to \in ToolType :
        /\ OnlyTool(t, to) /\ to.step \in {"put", "cas"} /\ (to.step = "cas" => t = "rekey")
        /\ tool[t].step = "idle" /\ Live(i) /\ UNCHANGED <<row, blob, stray>>
WrittenBy(t) ==
    \E to \in ToolType :
        /\ OnlyTool(t, to) /\ tool[t].step = "put" /\ to.step = "cas" /\ to.e = tool[t].e
        /\ blob'[tool[t].e.i][Target(t)] = Written(t)
        /\ \A j \in Items, q \in Places : ~(j = tool[t].e.i /\ q = Target(t)) => blob'[j][q] = blob[j][q]
        /\ UNCHANGED <<row, stray>>
PointedBy(t) ==
    LET i == tool[t].e.i IN
    \E to \in ToolType :
        /\ OnlyTool(t, to) /\ tool[t].step = "cas"
        /\ IF t = "move" THEN to.step = "delete" /\ to.e = tool[t].e ELSE to = NoTool
        /\ Live(i) /\ i \notin txn.tomb /\ row[i].place = tool[t].e.at
        /\ row'[i].state = "live" /\ row'[i].place = Target(t)
        /\ \A j \in Items : j # i => row'[j] = row[j]
        /\ UNCHANGED <<blob, stray>>
MissedBy(t) ==
    LET i == tool[t].e.i IN
    \E to \in ToolType :
        /\ OnlyTool(t, to) /\ tool[t].step = "cas" /\ to.step = "check" /\ to.e = tool[t].e
        /\ ~(Live(i) /\ row[i].place = tool[t].e.at)
        /\ UNCHANGED <<row, blob, stray>>
DeletedBy(t) ==
    \E q \in Places :
        /\ OnlyTool(t, NoTool)
        /\ \/ tool[t].step = "check" /\ q = Target(t)
           \/ t = "move" /\ tool[t].step = "delete" /\ q = tool[t].e.at
           \/ t = "move" /\ tool[t].step = "cas" /\ q = "away"
        /\ OnlyBlob(tool[t].e.i, {q})
        /\ UNCHANGED <<row, stray>>
LeftBy(t) ==
    /\ OnlyTool(t, NoTool) /\ Busy(t)
    /\ stray' = stray \cup {[i |-> tool[t].e.i, at |-> IF tool[t].step = "delete" THEN tool[t].e.at ELSE Target(t)]}
    /\ UNCHANGED <<row, blob>>

(* A step of a tool is one of these.                                       *)
LEMMA ToolDoes ==
    ASSUME IInv, CleansStray, NEW t \in Tools,
           ToolNext(t) \/ (\E i \in Items : ToolReads(t, i)) \/ (t = "move" /\ (CopyUnverified \/ MoveDeletesOld))
    PROVE  \/ \E i \in Items : Taken(t, i)
           \/ WrittenBy(t) \/ PointedBy(t) \/ MissedBy(t) \/ DeletedBy(t) \/ LeftBy(t)
<1>0. /\ tool[t] \in ToolType
      /\ Busy(t) => tool[t].e.i \in Items /\ tool[t].e.at \in Places /\ Target(t) \in Places
  BY AtWork DEF IInv, Types
<1>1. ASSUME NEW i \in Items, ToolReads(t, i) PROVE Taken(t, i)
  <2> DEFINE got == blob[i][row[i].place]
             to == [step |-> IF t = "rekey" /\ got = "new" THEN "cas" ELSE "put",
                    e |-> [i |-> i, at |-> row[i].place], got |-> got]
  <2>1. ToolStep(t, to) /\ tool[t].step = "idle" /\ Live(i) /\ UNCHANGED <<row, blob, stray>>
    BY <1>1 DEF ToolReads, Wanted
  <2>2. row[i].place \in Places /\ got \in Keys \cup {"none"} BY DEF IInv, Types, RowType
  <2>3. [i |-> i, at |-> row[i].place] \in Entries BY <2>2 DEF Entries
  <2>4. to \in ToolType /\ to.step \in {"put", "cas"} /\ (to.step = "cas" => t = "rekey")
    BY <2>2, <2>3 DEF ToolType
  <2> HIDE DEF to
  <2>5. OnlyTool(t, to) BY <2>1, ToolStepDoes
  <2> QED BY <2>1, <2>4, <2>5 DEF Taken
<1>2. CASE ToolWrites(t)
  <2> DEFINE to == [tool[t] EXCEPT !.step = "cas"]
  <2>1. /\ ToolStep(t, to) /\ tool[t].step = "put" /\ UNCHANGED <<row, stray>>
        /\ blob' = [blob EXCEPT ![tool[t].e.i][Target(t)] = Written(t)]
    BY <1>2 DEF ToolWrites
  <2>2. to \in ToolType /\ to.step = "cas" /\ to.e = tool[t].e BY <1>0 DEF ToolType
  <2> HIDE DEF to
  <2>3. OnlyTool(t, to) BY <2>1, ToolStepDoes
  <2>4. tool[t].e.i \in Items /\ Target(t) \in Places BY <1>0, <2>1 DEF Busy
  <2>5. /\ blob'[tool[t].e.i][Target(t)] = Written(t)
        /\ \A j \in Items, q \in Places : ~(j = tool[t].e.i /\ q = Target(t)) => blob'[j][q] = blob[j][q]
    BY <2>1, <2>4 DEF IInv, Types
  <2> QED BY <2>1, <2>2, <2>3, <2>5 DEF WrittenBy
<1>3. CASE ToolPointsRow(t)
  <2> DEFINE i == tool[t].e.i
             same == Live(i) /\ row[i].place = tool[t].e.at
             to == IF ~same THEN [tool[t] EXCEPT !.step = "check"]
                   ELSE IF t = "move" THEN [tool[t] EXCEPT !.step = "delete"] ELSE NoTool
  <2>1. /\ tool[t].step = "cas" /\ ToolStep(t, to) /\ UNCHANGED <<blob, stray>> /\ i \notin txn.tomb
        /\ row' = IF same THEN [row EXCEPT ![i] = [row[i] EXCEPT !.place = Target(t), !.key = Written(t)]] ELSE row
    BY <1>3 DEF ToolPointsRow, RowFree
  <2>2. OnlyTool(t, to) BY <2>1, ToolStepDoes
  <2>3. i \in Items /\ row[i] \in RowType BY <1>0, <2>1 DEF Busy, IInv, Types
  <2>4. CASE same
    <3>1. /\ row'[i].state = "live" /\ row'[i].place = Target(t)
          /\ \A j \in Items : j # i => row'[j] = row[j]
      BY <2>1, <2>3, <2>4 DEF IInv, Types, RowType, Live
    <3>2. to \in ToolType /\ IF t = "move" THEN to.step = "delete" /\ to.e = tool[t].e ELSE to = NoTool
      BY <1>0, <2>4 DEF ToolType, NoTool
    <3> HIDE DEF to
    <3> QED BY <2>1, <2>2, <2>4, <3>1, <3>2 DEF PointedBy
  <2>5. CASE ~same
    <3>1. to \in ToolType /\ to.step = "check" /\ to.e = tool[t].e BY <1>0, <2>5 DEF ToolType
    <3> HIDE DEF to
    <3> QED BY <2>1, <2>2, <2>5, <3>1 DEF MissedBy
  <2> QED BY <2>4, <2>5
<1>4. ASSUME Busy(t), ToolStep(t, NoTool), UNCHANGED <<row, stray>>, NEW q \in Places,
             blob' = [blob EXCEPT ![tool[t].e.i][q] = "none"],
             \/ tool[t].step = "check" /\ q = Target(t)
             \/ t = "move" /\ tool[t].step = "delete" /\ q = tool[t].e.at
             \/ t = "move" /\ tool[t].step = "cas" /\ q = "away"
      PROVE  DeletedBy(t)
  <2>1. OnlyTool(t, NoTool) BY <1>4, ToolStepDoes
  <2>2. OnlyBlob(tool[t].e.i, {q}) BY <1>0, <1>4 DEF OnlyBlob, IInv, Types
  <2> QED BY <1>4, <2>1, <2>2 DEF DeletedBy
<1>5. CASE ToolCleansUp(t)
  <2>1. /\ tool[t].step = "check" /\ Busy(t) /\ ToolStep(t, NoTool) /\ UNCHANGED <<row, stray>>
        /\ blob' = [blob EXCEPT ![tool[t].e.i][Target(t)] = "none"]
    BY <1>5 DEF ToolCleansUp, Busy, CleansStray
  <2> QED BY <1>0, <1>4, <2>1
<1>6. CASE ToolFails(t)
  <2>1. /\ Busy(t) /\ ToolStep(t, NoTool) /\ UNCHANGED <<row, blob>>
        /\ stray' = stray \cup {IF tool[t].step = "delete" THEN tool[t].e
                               ELSE [i |-> tool[t].e.i, at |-> Target(t)]}
    BY <1>6 DEF ToolFails, Busy
  <2>2. tool[t].e \in Entries BY <2>1 DEF IInv, ToolRow
  <2>3. tool[t].e = [i |-> tool[t].e.i, at |-> tool[t].e.at] BY <2>2 DEF Entries
  <2>4. OnlyTool(t, NoTool) BY <2>1, ToolStepDoes
  <2>5. CASE tool[t].step = "delete" BY <2>1, <2>3, <2>4, <2>5 DEF LeftBy
  <2>6. CASE tool[t].step # "delete" BY <2>1, <2>4, <2>6 DEF LeftBy
  <2> QED BY <2>5, <2>6
<1>7. CASE t = "move" /\ MoveDeletesOld
  <2>1. /\ tool[t].step = "delete" /\ Busy(t) /\ ToolStep(t, NoTool) /\ UNCHANGED <<row, stray>>
        /\ blob' = [blob EXCEPT ![tool[t].e.i][tool[t].e.at] = "none"]
    BY <1>7 DEF MoveDeletesOld, Busy
  <2> QED BY <1>0, <1>4, <1>7, <2>1
<1>8. CASE t = "move" /\ CopyUnverified
  <2>1. /\ tool[t].step = "cas" /\ Busy(t) /\ ToolStep(t, NoTool) /\ UNCHANGED <<row, stray>>
        /\ blob' = [blob EXCEPT ![tool[t].e.i]["away"] = "none"]
    BY <1>8 DEF CopyUnverified, Busy
  <2> QED BY <1>0, <1>4, <1>8, <2>1 DEF Places
<1> QED BY <1>1, <1>2, <1>3, <1>5, <1>6, <1>7, <1>8 DEF ToolNext

(* What the tools leave to the purgers.                                    *)
LEMMA ToolLeavesWork ==
    ASSUME IInv, IInv', Order, NEW t \in Tools, NEW to, OnlyTool(t, to), MovedStays
    PROVE  Locks' /\ EraseWork' /\ UploadWork' /\ Looking'
<1>1. UNCHANGED <<session, up, txn, work, erase>> BY DEF OnlyTool
<1>2. Looking' BY <1>1, LookingStays DEF Order
<1>3. Locks' /\ EraseWork' /\ UploadWork' BY <1>1, WorkStays
<1> QED BY <1>2, <1>3

(* The tools keep the order.                                               *)
LEMMA ToolOrder ==
    ASSUME IInv, IInv', Order, NEW t \in Tools,
           ToolNext(t) \/ (\E i \in Items : ToolReads(t, i)) \/ (t = "move" /\ (CopyUnverified \/ MoveDeletesOld))
    PROVE  Order'
<1>0. t \in {"rekey", "move"} /\ \A x \in Tools : x = "rekey" \/ x = "move" BY DEF Tools
<1>1. \A x \in Tools : Busy(x) => /\ tool[x].e.i \in Items /\ tool[x].e.at \in Places
                                  /\ row[tool[x].e.i].state # "none"
                                  /\ x = "move" => Target(x) = "away" /\ tool[x].got # "none"
                                  /\ x = "rekey" => Target(x) = tool[x].e.at
  BY AtWork DEF IInv, ToolRow
<1>2. tool["move"].step = "cas" => row[tool["move"].e.i].place = "home" /\ Busy("move")
  BY DEF IInv, MoveOrder, Busy
<1>3. ASSUME NEW to, OnlyTool(t, to), row' = row,
             \/ to.step \notin {"cas", "check"}
             \/ to.step = "cas" /\ (t = "move" => blob'[to.e.i]["away"] # "none")
             \/ /\ to.step = "check" /\ to.e = tool[t].e
                /\ ~(Live(to.e.i) /\ row[to.e.i].place = Target(t)),
             t # "move" /\ tool["move"].step = "cas" => blob'[tool["move"].e.i]["away"] # "none"
      PROVE  Order'
  <2>1. MovedStays BY <1>3 DEF MovedStays, Moved
  <2>2. Locks' /\ EraseWork' /\ UploadWork' /\ Looking' BY <1>3, <2>1, ToolLeavesWork
  <2>3. MoveCopy' BY <1>0, <1>3 DEF MoveCopy, OnlyTool, Tools
  <2>4. CleansStray'
    <3> SUFFICES ASSUME NEW x \in Tools, tool'[x].step = "check"
                 PROVE  ~(row'[tool'[x].e.i].state = "live" /\ row'[tool'[x].e.i].place = Target(x)')
      BY DEF CleansStray, Live
    <3>1. tool'[x].e = tool[x].e => Target(x)' = Target(x) BY DEF Target
    <3>2. CASE x = t BY <1>3, <3>1, <3>2 DEF OnlyTool, Live
    <3>3. CASE x # t BY <1>3, <3>1, <3>3 DEF OnlyTool, Live, Order, CleansStray
    <3> QED BY <3>2, <3>3
  <2> QED BY <2>2, <2>3, <2>4 DEF Order
<1>4. tool["move"].step = "cas" => blob[tool["move"].e.i]["away"] # "none" BY DEF Order, MoveCopy
<1>5. ASSUME NEW i \in Items, Taken(t, i) PROVE Order'
  <2>1. PICK to \in ToolType : /\ OnlyTool(t, to) /\ to.step \in {"put", "cas"} /\ (to.step = "cas" => t = "rekey")
                               /\ UNCHANGED <<row, blob, stray>>
    BY <1>5 DEF Taken
  <2> QED BY <1>3, <1>4, <2>1
<1>6. CASE WrittenBy(t)
  <2>1. PICK to \in ToolType :
        /\ OnlyTool(t, to) /\ tool[t].step = "put" /\ to.step = "cas" /\ to.e = tool[t].e
        /\ blob'[tool[t].e.i][Target(t)] = Written(t)
        /\ \A j \in Items, q \in Places : ~(j = tool[t].e.i /\ q = Target(t)) => blob'[j][q] = blob[j][q]
        /\ UNCHANGED <<row, stray>>
    BY <1>6 DEF WrittenBy
  <2>2. Busy(t) BY <2>1 DEF Busy
  <2>3. Written(t) # "none" BY <2>2, AtWork DEF Keys
  <2>4. t = "move" => blob'[to.e.i]["away"] # "none" BY <1>1, <2>1, <2>2, <2>3
  <2>5. t # "move" /\ tool["move"].step = "cas" => blob'[tool["move"].e.i]["away"] # "none"
    BY <1>0, <1>1, <1>2, <1>4, <2>1, <2>3 DEF Tools, Places
  <2> QED BY <1>3, <2>1, <2>4, <2>5
<1>7. CASE PointedBy(t)
  <2> DEFINE i == tool[t].e.i
  <2>1. PICK to \in ToolType :
        /\ OnlyTool(t, to) /\ tool[t].step = "cas"
        /\ IF t = "move" THEN to.step = "delete" /\ to.e = tool[t].e ELSE to = NoTool
        /\ Live(i) /\ row[i].place = tool[t].e.at
        /\ row'[i].state = "live" /\ row'[i].place = Target(t)
        /\ \A j \in Items : j # i => row'[j] = row[j]
        /\ UNCHANGED <<blob, stray>>
    BY <1>7 DEF PointedBy
  <2>2. Busy(t) BY <2>1 DEF Busy
  <2>3. to.step \notin {"cas", "check"} BY <2>1 DEF NoTool
  <2>4. MovedStays BY <1>0, <1>1, <2>1, <2>2 DEF MovedStays, Moved
  <2>5. Locks' /\ EraseWork' /\ UploadWork' /\ Looking' BY <2>1, <2>4, ToolLeavesWork
  <2>6. MoveCopy' BY <1>0, <1>4, <2>1, <2>3 DEF MoveCopy, OnlyTool, Tools
  <2>7. CleansStray'
    <3> SUFFICES ASSUME NEW x \in Tools, tool'[x].step = "check"
                 PROVE  ~(row'[tool'[x].e.i].state = "live" /\ row'[tool'[x].e.i].place = Target(x)')
      BY DEF CleansStray, Live
    <3>1. x # t /\ tool'[x] = tool[x] BY <2>1, <2>3 DEF OnlyTool
    <3>2. Target(x)' = Target(x) BY <3>1 DEF Target
    <3>3. ~(Live(tool[x].e.i) /\ row[tool[x].e.i].place = Target(x)) BY <3>1 DEF Order, CleansStray
    <3>4. Busy(x) /\ tool[x].e.i \in Items BY <1>1, <3>1 DEF Busy
    <3>5. CASE tool[x].e.i # i BY <2>1, <3>1, <3>2, <3>3, <3>4, <3>5 DEF Live
    <3>6. CASE tool[x].e.i = i /\ t = "rekey" BY <1>1, <2>1, <2>2, <3>1, <3>2, <3>3, <3>6 DEF Live
    <3>7. CASE tool[x].e.i = i /\ t = "move"
      <4>1. x = "rekey" /\ row[i].place = "home" BY <1>0, <1>2, <2>1, <3>1, <3>7
      <4>2. tool[x].e.at # "away" BY <3>4, <3>7, <4>1 DEF IInv, RekeyOrder
      <4> QED BY <1>1, <2>1, <2>2, <3>1, <3>2, <3>4, <3>7, <4>1, <4>2
    <3> QED BY <1>0, <3>5, <3>6, <3>7
  <2> QED BY <2>5, <2>6, <2>7 DEF Order
<1>8. CASE MissedBy(t)
  <2> DEFINE i == tool[t].e.i
  <2>1. PICK to \in ToolType :
        /\ OnlyTool(t, to) /\ tool[t].step = "cas" /\ to.step = "check" /\ to.e = tool[t].e
        /\ ~(Live(i) /\ row[i].place = tool[t].e.at)
        /\ UNCHANGED <<row, blob, stray>>
    BY <1>8 DEF MissedBy
  <2>2. Busy(t) BY <2>1 DEF Busy
  <2>3. ~(Live(i) /\ row[i].place = Target(t)) BY <1>0, <1>1, <1>2, <2>1, <2>2
  <2> QED BY <1>3, <1>4, <2>1, <2>3
<1>9. CASE DeletedBy(t)
  <2>1. PICK q \in Places :
        /\ OnlyTool(t, NoTool)
        /\ \/ tool[t].step = "check" /\ q = Target(t)
           \/ t = "move"
        /\ OnlyBlob(tool[t].e.i, {q})
        /\ UNCHANGED <<row, stray>>
    BY <1>9 DEF DeletedBy
  <2>2. t # "move" /\ tool["move"].step = "cas" => blob'[tool["move"].e.i]["away"] # "none"
    <3> SUFFICES ASSUME t = "rekey", tool["move"].step = "cas"
                 PROVE  blob'[tool["move"].e.i]["away"] # "none"
      BY <1>0
    <3>1. Busy("rekey") /\ q = tool["rekey"].e.at BY <1>1, <2>1 DEF Busy
    <3>2. q = "away" => row[tool["rekey"].e.i].place = "away" BY <3>1 DEF IInv, RekeyOrder
    <3>3. tool["move"].e.i \in Items BY <1>1, <1>2 DEF Tools
    <3> QED BY <1>2, <1>4, <2>1, <3>2, <3>3 DEF OnlyBlob, Places
  <2> QED BY <1>3, <2>1, <2>2 DEF NoTool
<1>10. CASE LeftBy(t)
  BY <1>3, <1>4, <1>10 DEF LeftBy, NoTool
<1> QED BY <1>5, <1>6, <1>7, <1>8, <1>9, <1>10, ToolDoes DEF Order

(* The order at the start.                                                 *)
LEMMA InitOrder == Init => Order
<1> SUFFICES ASSUME Init PROVE Order OBVIOUS
<1>1. /\ work = [p \in Purgers |-> NoWork] /\ txn = NoTxn
      /\ ~session.hold /\ \A t \in Tools : tool[t].step \in {"idle", "off"}
  BY DEF Init, NoTool
<1>2. \A p \in Purgers : work[p] = NoWork BY <1>1
<1>3. Locks BY <1>1, <1>2, Roles DEF Locks, NoTxn, NoWork
<1>4. EraseWork /\ UploadWork BY <1>2, Roles DEF EraseWork, UploadWork, NoWork
<1>5. Looking BY <1>2, NoWorkLooks DEF Looking
<1>6. MoveCopy /\ CleansStray BY <1>1 DEF MoveCopy, CleansStray, Tools
<1> QED BY <1>3, <1>4, <1>5, <1>6 DEF Order

(* Every step keeps the order.                                             *)
LEMMA NextOrder == IInv /\ Order /\ [Next]_vars => Order'
<1> SUFFICES ASSUME IInv, Order, [Next]_vars PROVE Order' OBVIOUS
<1>0. IInv' BY NextInv
<1>1. ASSUME NEW s, SessionStep(s), s.hold = session.hold \/ Unlocked PROVE Order'
  BY <1>0, <1>1, SessionOrder
<1>2. CASE finalizeSession
  <2>1. SessionStep([session EXCEPT !.ended = TRUE]) BY <1>2 DEF finalizeSession
  <2> QED BY <1>1, <1>2, <2>1 DEF finalizeSession
<1>3. CASE withdrawConsent
  <2>1. SessionStep([session EXCEPT !.ended = TRUE, !.withdrew = TRUE]) BY <1>3 DEF withdrawConsent
  <2> QED BY <1>1, <1>3, <2>1 DEF withdrawConsent
<1>4. CASE reopenSession
  <2>1. SessionStep([session EXCEPT !.ended = FALSE, !.due = FALSE]) BY <1>4 DEF reopenSession
  <2> QED BY <1>1, <1>4, <2>1 DEF reopenSession
<1>5. CASE DeadlinePasses
  <2>1. SessionStep([session EXCEPT !.due = TRUE]) BY <1>5 DEF DeadlinePasses
  <2>2. [session EXCEPT !.due = TRUE].hold = session.hold OBVIOUS
  <2> QED BY <1>1, <2>1, <2>2
<1>6. ASSUME NEW enabled \in BOOLEAN, setLegalHold(enabled) PROVE Order'
  <2>1. SessionStep([session EXCEPT !.hold = enabled]) BY <1>6 DEF setLegalHold
  <2> QED BY <1>1, <1>6, <2>1 DEF setLegalHold
<1>7. ASSUME NEW i \in Items, UploadAccepted(i) \/ UploadNext(i) PROVE Order'
  BY <1>0, <1>7, UploadOrder
<1>8. ASSUME NEW p \in Purgers, PurgerNext(p) PROVE Order' BY <1>0, <1>8, PurgerOrder
<1>9. CASE PurgeNext \/ purgeEventMetadata BY <1>0, <1>9, PurgeOrder, MetadataOrder
<1>10. CASE EraseBegins \/ EraseNext BY <1>0, <1>10, EraseOrder
<1>11. ASSUME NEW t \in Tools, ToolNext(t) \/ \E i \in Items : ToolReads(t, i) PROVE Order'
  BY <1>0, <1>11, ToolOrder
<1>12. CASE CopyUnverified \/ MoveDeletesOld
  <2>1. "move" \in Tools BY DEF Tools
  <2> QED BY <1>0, <1>12, <2>1, ToolOrder
<1>13. CASE UNCHANGED vars
  <2>1. UNCHANGED <<session, row, blob, txn, work, erase, up, tool>> BY <1>13 DEF vars
  <2>2. NoRowBegins BY <2>1 DEF NoRowBegins
  <2>3. Looking' BY <1>0, <2>1, <2>2, NoRowMoves, LookingStays DEF Order
  <2>4. Locks' /\ EraseWork' /\ UploadWork' BY <2>1, WorkStays
  <2>5. MoveCopy' /\ CleansStray' BY <2>1, <2>2, ToolsUndisturbed
  <2> QED BY <2>3, <2>4, <2>5 DEF Order
<1> QED BY <1>2, <1>3, <1>4, <1>5, <1>6, <1>7, <1>8, <1>9, <1>10, <1>11, <1>12, <1>13 DEF Next

-----------------------------------------------------------------------------
(***************************************************************************)
(* What a legal hold keeps.                                                *)
(***************************************************************************)
Kept(i) == session.hold /\ erase \in {"off", "idle"} /\ up[i] = "done" /\ Live(i) /\ HasImage(i)

(* No purger that may run beside a hold works on the image.                *)
LEMMA HeldFromPurgers ==
    ASSUME IInv, Order, NEW i \in Items, Kept(i), NEW p \in Purgers, work[p].step # "idle"
    PROVE  /\ p \in Items /\ p # i
           /\ \A e \in work[p].list : e.i # i
           /\ work[p].step \in {"tombstone", "again"} => work[p].cur.i # i
<1>1. work["session"].step = "idle" /\ work["erase"].step = "idle"
  BY DEF Kept, Order, Locks, EraseWork
<1>2. p \in Items BY <1>1, Roles
<1>3. /\ up[p] = "purge" /\ \A e \in work[p].list : e.i = p
      /\ work[p].step \in {"tombstone", "again"} => work[p].cur.i = p
  BY <1>2 DEF Order, UploadWork
<1>4. p # i BY <1>3 DEF Kept
<1> QED BY <1>2, <1>3, <1>4

(* A step that leaves the image, and where its row points, alone.          *)
LEMMA ImageAlone ==
    ASSUME NEW i \in Items, HasImage(i), row'[i].place = row[i].place,
           \A q \in Places : blob'[i][q] = blob[i][q], row[i].place \in Places
    PROVE  HasImage(i)'
BY DEF HasImage

(* The purgers leave it alone.                                             *)
LEMMA HeldByPurgers ==
    ASSUME IInv, Order, NEW i \in Items, Kept(i), NEW p \in Purgers, PurgerNext(p)
    PROVE  HasImage(i)'
<1>0. row[i].place \in Places /\ HasImage(i) BY DEF IInv, Types, RowType, Kept
<1>1. CASE DeleteBlob(p)
  <2>1. PICK e \in work[p].list : work[p].step = "rows" /\ OnlyBlob(e.i, {e.at}) /\ row' = row
    BY <1>1, DeleteBlobDoes
  <2>2. e.i # i BY <2>1, HeldFromPurgers
  <2> QED BY <1>0, <2>1, <2>2, ImageAlone DEF OnlyBlob
<1>2. CASE DeleteBlobFails(p)
  BY <1>0, <1>2, ImageAlone DEF DeleteBlobFails
<1>3. CASE Tombstone(p)
  <2>1. work[p].step = "tombstone" /\ blob' = blob BY <1>3, TombstoneDoes
  <2>2. p \in Items /\ work[p].cur.i # i BY <2>1, HeldFromPurgers
  <2>3. p # "session" BY <2>2, Roles
  <2>4. \/ row' = row \/ row' = [row EXCEPT ![work[p].cur.i].state = "purged"]
    BY <1>3, <2>3, TombstoneDoes
  <2>5. row'[i] = row[i] BY <2>2, <2>4 DEF IInv, Types
  <2> QED BY <1>0, <2>1, <2>5, ImageAlone
<1>4. CASE DeleteBlobAgain(p) \/ DeleteBlobAgainFails(p)
  <2>1. /\ work[p].step = "again" /\ row' = row
        /\ OnlyBlob(work[p].cur.i, {work[p].cur.at}) \/ blob' = blob
    BY <1>4, DeleteBlobAgainDoes
  <2>2. work[p].cur.i # i BY <2>1, HeldFromPurgers
  <2> QED BY <1>0, <2>1, <2>2, ImageAlone DEF OnlyBlob
<1> QED BY <1>1, <1>2, <1>3, <1>4 DEF PurgerNext

(* The uploads of others leave it alone.                                   *)
LEMMA HeldByUploads ==
    ASSUME IInv, Order, NEW i \in Items, Kept(i), NEW j \in Items, UploadAccepted(j) \/ UploadNext(j)
    PROVE  HasImage(i)'
<1>0. row[i].place \in Places /\ HasImage(i) /\ up[i] = "done" BY DEF IInv, Types, RowType, Kept
<1>1. BeforeInsert(j) \/ Inserted(j) \/ Rechecked(j) \/ Undone(j) BY UploadDoes
<1>2. j # i BY <1>0, <1>1 DEF BeforeInsert, Inserted, Rechecked, Undone, OnlyUp
<1> QED BY <1>0, <1>1, <1>2, ImageAlone DEF BeforeInsert, Inserted, Rechecked, Undone

(* The tools take nothing away before the row points elsewhere.            *)
LEMMA HeldByTools ==
    ASSUME IInv, Order, NEW i \in Items, Live(i), HasImage(i), NEW t \in Tools,
           ToolNext(t) \/ (\E j \in Items : ToolReads(t, j)) \/ (t = "move" /\ (CopyUnverified \/ MoveDeletesOld))
    PROVE  HasImage(i)'
<1>0. row[i].place \in Places /\ (t = "rekey" \/ t = "move") BY DEF IInv, Types, RowType, Tools
<1>1. Busy(t) => tool[t].e.i \in Items /\ Target(t) \in Places /\ Written(t) # "none"
  BY AtWork DEF Keys
<1>2. CASE (\E j \in Items : Taken(t, j)) \/ MissedBy(t) \/ LeftBy(t)
  BY <1>0, <1>2, ImageAlone DEF Taken, MissedBy, LeftBy
<1>3. CASE WrittenBy(t)
  <2>1. /\ blob'[tool[t].e.i][Target(t)] = Written(t) /\ Busy(t) /\ row' = row
        /\ \A j \in Items, q \in Places : ~(j = tool[t].e.i /\ q = Target(t)) => blob'[j][q] = blob[j][q]
    BY <1>3 DEF WrittenBy, Busy
  <2> QED BY <1>0, <1>1, <2>1 DEF HasImage
<1>4. CASE PointedBy(t)
  <2>1. /\ tool[t].step = "cas" /\ Busy(t) /\ blob' = blob
        /\ row[tool[t].e.i].place = tool[t].e.at /\ row'[tool[t].e.i].place = Target(t)
        /\ \A j \in Items : j # tool[t].e.i => row'[j] = row[j]
    BY <1>4 DEF PointedBy, Busy
  <2>2. CASE tool[t].e.i # i BY <1>0, <2>1, <2>2, ImageAlone
  <2>3. CASE tool[t].e.i = i /\ t = "rekey"
    BY <1>0, <2>1, <2>3, ImageAlone DEF Target
  <2>4. CASE tool[t].e.i = i /\ t = "move"
    BY <2>1, <2>4 DEF HasImage, Target, Order, MoveCopy
  <2> QED BY <1>0, <2>2, <2>3, <2>4
<1>5. CASE DeletedBy(t)
  <2>1. PICK q \in Places :
        /\ \/ tool[t].step = "check" /\ q = Target(t)
           \/ t = "move" /\ tool[t].step = "delete" /\ q = tool[t].e.at
           \/ t = "move" /\ tool[t].step = "cas" /\ q = "away"
        /\ OnlyBlob(tool[t].e.i, {q}) /\ row' = row
    BY <1>5 DEF DeletedBy
  <2>2. ~(tool[t].e.i = i /\ row[i].place = q)
    <3>1. CASE tool[t].step = "check" BY <2>1, <3>1 DEF Order, CleansStray
    <3>2. CASE t = "move" /\ tool[t].step \in {"cas", "delete"} BY <2>1, <3>2 DEF IInv, MoveOrder, Busy
    <3> QED BY <2>1, <3>1, <3>2
  <2> QED BY <1>0, <2>1, <2>2 DEF OnlyBlob, HasImage
<1> QED BY <1>2, <1>3, <1>4, <1>5, ToolDoes DEF Order

(* A legal hold keeps every stored image: while it is on, and no erasure   *)
(* is under way, no step of a purge, an upload or a tool takes the object  *)
(* of a live row away.                                                     *)
THEOREM HoldIsKept == Spec => HoldKeepsImages
<1>1. ASSUME IInv, Order, [Next]_vars, NEW i \in Items, Kept(i) PROVE HasImage(i)'
  <2>0. row[i].place \in Places /\ HasImage(i) /\ Live(i) BY <1>1 DEF IInv, Types, RowType, Kept
  <2>1. CASE \/ finalizeSession \/ withdrawConsent \/ reopenSession \/ DeadlinePasses
             \/ \E enabled \in BOOLEAN : setLegalHold(enabled)
    <3>1. UNCHANGED <<row, blob>>
      BY <2>1 DEF finalizeSession, withdrawConsent, reopenSession, DeadlinePasses, setLegalHold, SessionStep
    <3> QED BY <2>0, <3>1, ImageAlone
  <2>2. CASE UNCHANGED vars BY <2>0, <2>2, ImageAlone DEF vars
  <2>3. ASSUME NEW j \in Items, UploadAccepted(j) \/ UploadNext(j) PROVE HasImage(i)'
    BY <1>1, <2>3, HeldByUploads
  <2>4. ASSUME NEW p \in Purgers, PurgerNext(p) PROVE HasImage(i)' BY <1>1, <2>4, HeldByPurgers
  <2>5. CASE PurgeNext \/ purgeEventMetadata \/ EraseBegins \/ EraseNext
    <3>1. NoRowBegins /\ blob' = blob BY <1>1, <2>5, RowsOnlyEndBeside
    <3> QED BY <2>0, <3>1, ImageAlone DEF NoRowBegins
  <2>6. ASSUME NEW t \in Tools,
               ToolNext(t) \/ (\E j \in Items : ToolReads(t, j)) \/ (t = "move" /\ (CopyUnverified \/ MoveDeletesOld))
        PROVE  HasImage(i)'
    BY <1>1, <2>0, <2>6, HeldByTools
  <2>7. CASE CopyUnverified \/ MoveDeletesOld BY <2>6, <2>7 DEF Tools
  <2> QED BY <1>1, <2>1, <2>2, <2>3, <2>4, <2>5, <2>6, <2>7 DEF Next
<1>2. IInv /\ Order /\ [Next]_vars =>
        [\A i \in Items :
           (session.hold /\ erase \in {"off", "idle"} /\ up[i] = "done" /\ Live(i) /\ HasImage(i))
              => HasImage(i)']_vars
  BY <1>1 DEF Kept
<1> QED BY <1>2, InitInv, NextInv, InitOrder, NextOrder, PTL DEF Spec, HoldKeepsImages

-----------------------------------------------------------------------------
(***************************************************************************)
(* Nothing is left of a purged image: as long as the session exists, every *)
(* object is one that a live row points at, that an upload has yet to      *)
(* insert or discard (or may not tell whether it did), that a tool is      *)
(* about to point its row at or to clean up, that a purger is about to     *)
(* delete again, or a stray, which a delete after the tombstone that       *)
(* failed, or a tool that failed or was killed, left.                      *)
(***************************************************************************)
Covers(s, t, i, q) ==
    /\ s.e.i = i
    /\ \/ s.step \in {"put", "cas", "check"} /\ q = IF t = "rekey" THEN s.e.at ELSE "away"
       \/ s.step = "delete" /\ q = s.e.at
Finishing(w, i, q) == w.step = "again" /\ w.cur.i = i /\ q \in {w.cur.at, w.after}
Accounted(i, q) ==
    \/ row[i].state = "none" /\ q = "home"
    \/ Live(i) /\ i \notin txn.tomb /\ row[i].place = q
    \/ [i |-> i, at |-> q] \in stray
    \/ \E t \in Tools : Covers(tool[t], t, i, q)
    \/ \E p \in Purgers : Finishing(work[p], i, q)
Leftovers == session.exists => \A i \in Items, q \in Places : blob[i][q] # "none" => Accounted(i, q)

(* Nothing is left at the start.                                           *)
LEMMA InitLeftovers == Init => Leftovers
<1> SUFFICES ASSUME Init, NEW i \in Items, NEW q \in Places PROVE blob[i][q] = "none" BY DEF Leftovers
<1> QED BY DEF Init

(* What accounted for an object still does.                                *)
LEMMA StillAccounted ==
    ASSUME NEW i \in Items, NEW q \in Places, Accounted(i, q), stray \subseteq stray',
           row[i].state = "none" => row'[i].state = "none",
           Live(i) /\ i \notin txn.tomb => /\ row'[i].state = "live" /\ row'[i].place = row[i].place
                                           /\ i \notin txn'.tomb,
           \A t \in Tools : Covers(tool[t], t, i, q) => Covers(tool'[t], t, i, q),
           \A p \in Purgers : Finishing(work[p], i, q) => Finishing(work'[p], i, q)
    PROVE  Accounted(i, q)'
BY DEF Accounted, Live

(* A step of the session, or none, changes nothing of it.                  *)
LEMMA LeftoversStay ==
    ASSUME Leftovers, UNCHANGED <<row, blob, txn, work, tool, stray>>, session'.exists => session.exists
    PROVE  Leftovers'
<1>1. \A i \in Items, q \in Places : Accounted(i, q) => Accounted(i, q)' BY DEF Accounted, Live
<1> QED BY <1>1 DEF Leftovers

(* The uploads.                                                            *)
LEMMA UploadLeftovers ==
    ASSUME IInv, Order, Leftovers, NEW i \in Items, UploadAccepted(i) \/ UploadNext(i)
    PROVE  Leftovers'
<1>0. /\ BeforeInsert(i) \/ Inserted(i) \/ Rechecked(i) \/ Undone(i)
      /\ UNCHANGED <<session, txn, tool, stray>>
  BY UploadDoes
<1> SUFFICES ASSUME session.exists, NEW j \in Items, NEW q \in Places, blob'[j][q] # "none"
             PROVE  Accounted(j, q)'
  BY <1>0 DEF Leftovers
<1>1. ASSUME blob[j][q] # "none" PROVE Accounted(j, q) BY <1>1 DEF Leftovers
<1>2. CASE BeforeInsert(i)
  <2>1. /\ UNCHANGED <<row, work>> /\ up[i] \in {"idle", "put", "insert", "discard"}
        /\ ~(j = i /\ q = "home") => blob'[j][q] = blob[j][q]
    BY <1>2 DEF BeforeInsert, OnlyUp
  <2>2. CASE j = i /\ q = "home" BY <2>1, <2>2, NoRowYet DEF Accounted
  <2>3. CASE ~(j = i /\ q = "home")
    <3>1. Accounted(j, q) BY <1>1, <2>1, <2>3
    <3> QED BY <1>0, <2>1, <3>1, StillAccounted DEF Live
  <2> QED BY <2>2, <2>3
<1>3. CASE Inserted(i)
  <2>1. /\ UNCHANGED <<blob, work>> /\ up[i] = "insert" /\ row'[i].state = "live" /\ row'[i].place = "home"
        /\ j # i => row'[j] = row[j]
    BY <1>3 DEF Inserted, OnlyUp
  <2>2. row[i].state = "none" /\ i \notin txn.tomb BY <2>1, NoRowYet DEF IInv, Tombs
  <2>3. Accounted(j, q) BY <1>1, <2>1
  <2>4. CASE j # i BY <1>0, <2>1, <2>3, <2>4, StillAccounted DEF Live
  <2>5. CASE j = i /\ q = "home" BY <1>0, <2>1, <2>2, <2>5 DEF Accounted, Live
  <2>6. CASE j = i /\ q = "away" BY <1>0, <2>1, <2>2, <2>3, <2>6 DEF Accounted, Live
  <2> QED BY <2>4, <2>5, <2>6 DEF Places
<1>4. CASE Rechecked(i) \/ Undone(i)
  <2>1. /\ UNCHANGED <<row, blob>> /\ \A p \in Purgers : p # i => work'[p] = work[p]
        /\ up[i] = "recheck" \/ work[i].step = "rows"
    BY <1>4 DEF Rechecked, Undone, OnlyUp
  <2>2. work[i].step # "again" BY <2>1 DEF Order, UploadWork
  <2>3. \A p \in Purgers : Finishing(work[p], j, q) => Finishing(work'[p], j, q) BY <2>1, <2>2 DEF Finishing
  <2> QED BY <1>0, <1>1, <2>1, <2>3, StillAccounted DEF Live
<1> QED BY <1>0, <1>2, <1>3, <1>4

(* The purgers.                                                            *)
LEMMA PurgerLeftovers ==
    ASSUME IInv, Leftovers, NEW p \in Purgers, PurgerNext(p)
    PROVE  Leftovers'
<1>0. UNCHANGED <<session, tool>> /\ stray \subseteq stray' BY PurgerLeaves
<1> SUFFICES ASSUME session.exists, NEW j \in Items, NEW q \in Places, blob'[j][q] # "none"
             PROVE  Accounted(j, q)'
  BY <1>0 DEF Leftovers
<1>1. ASSUME blob[j][q] # "none" PROVE Accounted(j, q) BY <1>1 DEF Leftovers
<1>2. CASE DeleteBlob(p)
  <2>1. PICK e \in work[p].list, w \in WorkType :
          work[p].step = "rows" /\ OnlyWork(p, w) /\ OnlyBlob(e.i, {e.at}) /\ UNCHANGED <<row, txn>>
    BY <1>2, DeleteBlobDoes
  <2>2. Accounted(j, q) BY <1>1, <2>1 DEF OnlyBlob
  <2>3. \A x \in Purgers : Finishing(work[x], j, q) => Finishing(work'[x], j, q) BY <2>1 DEF OnlyWork, Finishing
  <2> QED BY <1>0, <2>1, <2>2, <2>3, StillAccounted DEF Live
<1>3. CASE DeleteBlobFails(p)
  <2>1. PICK e \in work[p].list, w \in WorkType :
          work[p].step = "rows" /\ OnlyWork(p, w) /\ UNCHANGED <<row, blob, txn>>
    BY <1>3, DeleteBlobFailsDoes
  <2>2. Accounted(j, q) BY <1>1, <2>1
  <2>3. \A x \in Purgers : Finishing(work[x], j, q) => Finishing(work'[x], j, q) BY <2>1 DEF OnlyWork, Finishing
  <2> QED BY <1>0, <2>1, <2>2, <2>3, StillAccounted DEF Live
<1>4. CASE Tombstone(p)
  <2> DEFINE i == work[p].cur.i
  <2>1. PICK w \in WorkType :
          /\ i \in Items /\ work[p].step = "tombstone" /\ OnlyWork(p, w)
          /\ w.step = "again" /\ w.cur = work[p].cur
          /\ w.after = IF Live(i) THEN row[i].place ELSE work[p].cur.at
          /\ p = "session" => /\ row' = row
                              /\ IF Live(i) THEN txn' = [txn EXCEPT !.tomb = txn.tomb \cup {i}] ELSE txn' = txn
          /\ p # "session" => /\ txn' = txn
                              /\ IF Live(i) THEN row' = [row EXCEPT ![i].state = "purged"] ELSE row' = row
          /\ blob' = blob
    BY <1>4, TombstoneDoes
  <2>2. Accounted(j, q) BY <1>1, <2>1
  <2>3. \A x \in Purgers : Finishing(work[x], j, q) => Finishing(work'[x], j, q) BY <2>1 DEF OnlyWork, Finishing
  <2>4. CASE j = i /\ Live(j) /\ row[j].place = q
    <3>1. Finishing(work'[p], j, q) BY <2>1, <2>4 DEF OnlyWork, Finishing
    <3> QED BY <3>1 DEF Accounted
  <2>5. CASE j # i \/ ~Live(j)
    <3>1. row'[j] = row[j] /\ (j \in txn'.tomb => j \in txn.tomb)
      BY <2>1, <2>5 DEF IInv, Types, Tombs, TxnType
    <3> QED BY <1>0, <2>2, <2>3, <3>1, StillAccounted DEF Live
  <2>6. CASE j = i /\ Live(j) /\ row[j].place # q
    BY <1>0, <2>2, <2>3, <2>6 DEF Accounted, Live
  <2> QED BY <2>4, <2>5, <2>6
<1>5. CASE DeleteBlobAgain(p) \/ DeleteBlobAgainFails(p)
  <2> DEFINE c == work[p].cur
  <2>1. PICK w \in WorkType :
          /\ AgainTo(p, w) /\ c \in Entries
          /\ OnlyBlob(c.i, {c.at}) \/ (blob' = blob /\ stray' = stray \cup {c})
          /\ UNCHANGED <<row, txn>>
    BY <1>5, DeleteBlobAgainDoes
  <2>2. c = [i |-> c.i, at |-> c.at] BY <2>1 DEF Entries
  <2>3. CASE j = c.i /\ q = c.at
    <3>1. c \in stray' BY <2>1, <2>3 DEF OnlyBlob
    <3> QED BY <2>2, <2>3, <3>1 DEF Accounted
  <2>4. CASE ~(j = c.i /\ q = c.at)
    <3>1. Accounted(j, q) BY <1>1, <2>1, <2>4 DEF OnlyBlob
    <3>2. \A x \in Purgers : Finishing(work[x], j, q) => Finishing(work'[x], j, q)
      BY <2>1, <2>4 DEF AgainTo, OnlyWork, Finishing
    <3> QED BY <1>0, <2>1, <3>1, <3>2, StillAccounted DEF Live
  <2> QED BY <2>3, <2>4
<1> QED BY <1>2, <1>3, <1>4, <1>5 DEF PurgerNext

(* The purge transaction: it puts its tombstones only once each is done.   *)
LEMMA PurgeLeftovers == ASSUME IInv, Order, Leftovers, PurgeNext PROVE Leftovers'
<1>0. UNCHANGED <<blob, tool, stray>> /\ session'.exists = session.exists
  <2>1. /\ UNCHANGED <<blob, tool, stray>>
        /\ session' = session \/ session' = [session EXCEPT !.purged = session.purged \/ ~txn.left]
    BY DEF PurgeNext, RetentionSelects, PurgeBegins, CountRemaining, PurgeCommits, PurgeRollsBack, PurgeEnds
  <2>2. ASSUME NEW v, session' = [session EXCEPT !.purged = v] PROVE session'.exists = session.exists
    BY <2>2
  <2> QED BY <2>1, <2>2
<1>1. work' = work \/ (work' = [work EXCEPT !["session"] = work'["session"]] /\ work["session"].step # "again")
  <2>1. CASE RetentionSelects \/ CountRemaining BY <2>1 DEF RetentionSelects, CountRemaining
  <2>2. ASSUME NEW w, work' = [work EXCEPT !["session"] = w] PROVE work'["session"] = w
    BY <2>2, Roles DEF IInv, Types
  <2>3. ASSUME NEW by \in {"retention", "withdrawal"}, PurgeBegins(by), StillDue(by)
        PROVE  work["session"].step = "idle"
    BY <2>3 DEF PurgeBegins, Unlocked, Order, Locks
  <2>4. ASSUME NEW by \in {"retention", "withdrawal"}, PurgeBegins(by)
        PROVE  work' = work \/ (\E w : work' = [work EXCEPT !["session"] = w] /\ work["session"].step # "again")
    BY <2>3, <2>4 DEF PurgeBegins
  <2>5. CASE PurgeCommits \/ PurgeRollsBack
    <3>1. work' = [work EXCEPT !["session"] = NoWork] /\ work["session"].step # "again"
      BY <2>5 DEF PurgeCommits, PurgeRollsBack, PurgeEnds, Order, Locks
    <3> QED BY <2>2, <3>1
  <2> QED BY <2>1, <2>2, <2>4, <2>5 DEF PurgeNext
<1> SUFFICES ASSUME session.exists, NEW j \in Items, NEW q \in Places, blob[j][q] # "none"
             PROVE  Accounted(j, q)'
  BY <1>0 DEF Leftovers
<1>2. Accounted(j, q) BY DEF Leftovers
<1>3. \A p \in Purgers : Finishing(work[p], j, q) => Finishing(work'[p], j, q)
  BY <1>1 DEF IInv, Types, Finishing
<1>4. NoRowBegins BY RowsOnlyEndBeside
<1>5. j \notin txn.tomb => row'[j] = row[j] /\ j \notin txn'.tomb
  <2>1. CASE RetentionSelects BY <2>1 DEF RetentionSelects
  <2>2. CASE CountRemaining BY <2>2 DEF CountRemaining, IInv, Tombs, TxnType
  <2>3. ASSUME NEW by \in {"retention", "withdrawal"}, PurgeBegins(by) PROVE row' = row /\ txn'.tomb = txn.tomb
    BY <2>3 DEF PurgeBegins, Unlocked, Order, Locks, NoTxn
  <2>4. CASE PurgeCommits BY <2>4 DEF PurgeCommits, PurgeEnds, NoTxn
  <2>5. CASE PurgeRollsBack BY <2>5 DEF PurgeRollsBack, PurgeEnds, NoTxn
  <2> QED BY <2>1, <2>2, <2>3, <2>4, <2>5 DEF PurgeNext
<1> QED BY <1>0, <1>2, <1>3, <1>4, <1>5, StillAccounted DEF Live, NoRowBegins

(* The records deleted are those of images that are gone.                  *)
LEMMA MetadataLeftovers == ASSUME IInv, Leftovers, purgeEventMetadata PROVE Leftovers'
<1>1. UNCHANGED <<session, blob, txn, work, tool, stray>> BY DEF purgeEventMetadata
<1> SUFFICES ASSUME session.exists, NEW j \in Items, NEW q \in Places, blob[j][q] # "none"
             PROVE  Accounted(j, q)'
  BY <1>1 DEF Leftovers
<1>2. Accounted(j, q) BY DEF Leftovers
<1>3. NoRowBegins BY RowsOnlyEndBeside
<1>4. Live(j) => row'[j] = row[j] BY DEF purgeEventMetadata, Live
<1> QED BY <1>1, <1>2, <1>3, <1>4, StillAccounted DEF Live, NoRowBegins

(* The erasure: its purger is between two images when it goes on.          *)
LEMMA EraseLeftovers == ASSUME IInv, Order, Leftovers, EraseBegins \/ EraseNext PROVE Leftovers'
<1>1. CASE EraseDeletes
  <2>1. session' = [session EXCEPT !.exists = FALSE] BY <1>1 DEF EraseDeletes
  <2>2. session'.exists = FALSE \/ session'.exists = session.exists
    BY <2>1
  <2>3. CASE session'.exists = FALSE BY <2>3 DEF Leftovers
  <2> QED BY <2>1, <2>3 DEF Leftovers
<1>2. CASE EraseBegins \/ EraseRoundDone
  <2>1. UNCHANGED <<session, row, blob, txn, tool, stray>> BY <1>2 DEF EraseBegins, EraseRoundDone
  <2>2. /\ \A p \in Purgers : p # "erase" => work'[p] = work[p]
        /\ work["erase"].step # "again"
    <3>1. CASE EraseBegins BY <3>1 DEF EraseBegins, Order, EraseWork, IInv, Types
    <3>2. CASE EraseRoundDone BY <3>2 DEF EraseRoundDone, IInv, Types
    <3> QED BY <1>2, <3>1, <3>2
  <2> SUFFICES ASSUME session.exists, NEW j \in Items, NEW q \in Places, blob[j][q] # "none"
               PROVE  Accounted(j, q)'
    BY <2>1 DEF Leftovers
  <2>3. Accounted(j, q) BY DEF Leftovers
  <2>4. \A p \in Purgers : Finishing(work[p], j, q) => Finishing(work'[p], j, q) BY <2>2 DEF Finishing
  <2> QED BY <2>1, <2>3, <2>4, StillAccounted DEF Live
<1> QED BY <1>1, <1>2 DEF EraseNext

(* The tools.                                                              *)
LEMMA ToolLeftovers ==
    ASSUME IInv, Order, Leftovers, NEW t \in Tools,
           ToolNext(t) \/ (\E i \in Items : ToolReads(t, i)) \/ (t = "move" /\ (CopyUnverified \/ MoveDeletesOld))
    PROVE  Leftovers'
<1>0. /\ t = "rekey" \/ t = "move"
      /\ Busy(t) => tool[t].e.i \in Items
  BY AtWork DEF Tools
<1>1. ASSUME NEW to, OnlyTool(t, to) PROVE UNCHANGED <<session, txn, work>> BY <1>1 DEF OnlyTool
<1>2. ASSUME NEW j \in Items, NEW q \in Places, session.exists, blob[j][q] # "none" PROVE Accounted(j, q)
  BY <1>2 DEF Leftovers
<1>3. ASSUME NEW to, OnlyTool(t, to), NEW j, NEW q, Covers(tool[t], t, j, q) => Covers(to, t, j, q)
      PROVE  \A x \in Tools : Covers(tool[x], x, j, q) => Covers(tool'[x], x, j, q)
  BY <1>3 DEF OnlyTool
<1>4. ASSUME NEW i \in Items, Taken(t, i) PROVE Leftovers'
  <2>1. PICK to : OnlyTool(t, to) /\ tool[t].step = "idle" /\ UNCHANGED <<row, blob, stray>>
    BY <1>4 DEF Taken
  <2> SUFFICES ASSUME session.exists, NEW j \in Items, NEW q \in Places, blob[j][q] # "none"
               PROVE  Accounted(j, q)'
    BY <1>1, <2>1 DEF Leftovers
  <2>2. \A x \in Tools : Covers(tool[x], x, j, q) => Covers(tool'[x], x, j, q)
    <3>1. Covers(tool[t], t, j, q) => Covers(to, t, j, q) BY <2>1 DEF Covers
    <3> QED BY <1>3, <2>1, <3>1
  <2> QED BY <1>1, <1>2, <2>1, <2>2, StillAccounted DEF Live
<1>5. CASE WrittenBy(t)
  <2>1. PICK to : /\ OnlyTool(t, to) /\ tool[t].step = "put" /\ to.step = "cas" /\ to.e = tool[t].e
                  /\ \A j \in Items, q \in Places :
                        ~(j = tool[t].e.i /\ q = Target(t)) => blob'[j][q] = blob[j][q]
                  /\ UNCHANGED <<row, stray>>
    BY <1>5 DEF WrittenBy
  <2> SUFFICES ASSUME session.exists, NEW j \in Items, NEW q \in Places, blob'[j][q] # "none"
               PROVE  Accounted(j, q)'
    BY <1>1, <2>1 DEF Leftovers
  <2>2. \A x \in Tools : Covers(tool[x], x, j, q) => Covers(tool'[x], x, j, q)
    <3>1. Covers(tool[t], t, j, q) => Covers(to, t, j, q) BY <2>1 DEF Covers
    <3> QED BY <1>3, <2>1, <3>1
  <2>3. CASE j = tool[t].e.i /\ q = Target(t)
    <3>1. Covers(tool'[t], t, j, q) BY <2>1, <2>3 DEF OnlyTool, Covers, Target
    <3> QED BY <3>1 DEF Accounted
  <2>4. CASE ~(j = tool[t].e.i /\ q = Target(t))
    <3>1. Accounted(j, q) BY <1>2, <2>1, <2>4
    <3> QED BY <1>1, <2>1, <2>2, <3>1, StillAccounted DEF Live
  <2> QED BY <2>3, <2>4
<1>6. CASE PointedBy(t)
  <2> DEFINE i == tool[t].e.i
  <2>1. PICK to : /\ OnlyTool(t, to) /\ tool[t].step = "cas"
                  /\ IF t = "move" THEN to.step = "delete" /\ to.e = tool[t].e ELSE to = NoTool
                  /\ Live(i) /\ i \notin txn.tomb /\ row[i].place = tool[t].e.at
                  /\ row'[i].state = "live" /\ row'[i].place = Target(t)
                  /\ \A j \in Items : j # i => row'[j] = row[j]
                  /\ UNCHANGED <<blob, stray>>
    BY <1>6 DEF PointedBy
  <2> SUFFICES ASSUME session.exists, NEW j \in Items, NEW q \in Places, blob[j][q] # "none"
               PROVE  Accounted(j, q)'
    BY <1>1, <2>1 DEF Leftovers
  <2>2. Accounted(j, q) BY <1>2
  <2>3. CASE j # i
    <3>1. \A x \in Tools : Covers(tool[x], x, j, q) => Covers(tool'[x], x, j, q)
      <4>1. Covers(tool[t], t, j, q) => Covers(to, t, j, q) BY <2>1, <2>3 DEF Covers
      <4> QED BY <1>3, <2>1, <4>1
    <3> QED BY <1>1, <2>1, <2>2, <2>3, <3>1, StillAccounted DEF Live
  <2>4. CASE j = i /\ q = Target(t)
    BY <1>1, <2>1, <2>4 DEF Accounted, Live
  <2>5. CASE j = i /\ q # Target(t)
    <3>1. row[i].place = q => t = "move" BY <1>0, <2>1, <2>5 DEF Target
    <3>2. row[i].place = q => Covers(tool'[t], t, j, q) BY <2>1, <2>5, <3>1 DEF OnlyTool, Covers
    <3>3. \A x \in Tools : Covers(tool[x], x, j, q) => Covers(tool'[x], x, j, q)
      <4>1. Covers(tool[t], t, j, q) => Covers(to, t, j, q) BY <1>0, <2>1, <2>5 DEF Covers, Target
      <4> QED BY <1>3, <2>1, <4>1
    <3>4. CASE row[i].place = q BY <3>2, <3>4 DEF Accounted
    <3>5. CASE row[i].place # q
      BY <1>1, <2>1, <2>2, <2>5, <3>3, <3>5 DEF Accounted, Live
    <3> QED BY <3>4, <3>5
  <2> QED BY <2>3, <2>4, <2>5
<1>7. CASE MissedBy(t)
  <2>1. PICK to : /\ OnlyTool(t, to) /\ tool[t].step = "cas" /\ to.step = "check" /\ to.e = tool[t].e
                  /\ UNCHANGED <<row, blob, stray>>
    BY <1>7 DEF MissedBy
  <2> SUFFICES ASSUME session.exists, NEW j \in Items, NEW q \in Places, blob[j][q] # "none"
               PROVE  Accounted(j, q)'
    BY <1>1, <2>1 DEF Leftovers
  <2>2. \A x \in Tools : Covers(tool[x], x, j, q) => Covers(tool'[x], x, j, q)
    <3>1. Covers(tool[t], t, j, q) => Covers(to, t, j, q) BY <2>1 DEF Covers
    <3> QED BY <1>3, <2>1, <3>1
  <2> QED BY <1>1, <1>2, <2>1, <2>2, StillAccounted DEF Live
<1>8. CASE DeletedBy(t)
  <2>1. PICK d \in Places :
        /\ OnlyTool(t, NoTool)
        /\ \/ tool[t].step = "check" /\ d = Target(t)
           \/ t = "move" /\ tool[t].step = "delete" /\ d = tool[t].e.at
           \/ t = "move" /\ tool[t].step = "cas" /\ d = "away"
        /\ OnlyBlob(tool[t].e.i, {d})
        /\ UNCHANGED <<row, stray>>
    BY <1>8 DEF DeletedBy
  <2> SUFFICES ASSUME session.exists, NEW j \in Items, NEW q \in Places, blob'[j][q] # "none"
               PROVE  Accounted(j, q)'
    BY <1>1, <2>1 DEF Leftovers
  <2>2. ~(j = tool[t].e.i /\ q = d) /\ blob[j][q] # "none" BY <2>1 DEF OnlyBlob
  <2>3. ~Covers(tool[t], t, j, q) BY <2>1, <2>2 DEF Covers, Target
  <2>4. \A x \in Tools : Covers(tool[x], x, j, q) => Covers(tool'[x], x, j, q) BY <1>3, <2>1, <2>3
  <2> QED BY <1>1, <1>2, <2>1, <2>2, <2>4, StillAccounted DEF Live
<1>9. CASE LeftBy(t)
  <2> DEFINE d == IF tool[t].step = "delete" THEN tool[t].e.at ELSE Target(t)
  <2>1. /\ OnlyTool(t, NoTool) /\ stray' = stray \cup {[i |-> tool[t].e.i, at |-> d]}
        /\ UNCHANGED <<row, blob>>
    BY <1>9 DEF LeftBy
  <2> SUFFICES ASSUME session.exists, NEW j \in Items, NEW q \in Places, blob[j][q] # "none"
               PROVE  Accounted(j, q)'
    BY <1>1, <2>1 DEF Leftovers
  <2>2. CASE j = tool[t].e.i /\ q = d
    <3>1. [i |-> j, at |-> q] \in stray' BY <2>1, <2>2
    <3> QED BY <3>1 DEF Accounted
  <2>3. CASE ~(j = tool[t].e.i /\ q = d)
    <3>1. ~Covers(tool[t], t, j, q) BY <2>3 DEF Covers, Target
    <3>2. \A x \in Tools : Covers(tool[x], x, j, q) => Covers(tool'[x], x, j, q) BY <1>3, <2>1, <3>1
    <3>3. stray \subseteq stray' BY <2>1
    <3> QED BY <1>1, <1>2, <2>1, <3>2, <3>3, StillAccounted DEF Live
  <2> QED BY <2>2, <2>3
<1> QED BY <1>4, <1>5, <1>6, <1>7, <1>8, <1>9, ToolDoes DEF Order

(* The session's steps, and a step of nothing.                             *)
SessionSteps ==
    \/ finalizeSession \/ withdrawConsent \/ reopenSession \/ DeadlinePasses
    \/ \E enabled \in BOOLEAN : setLegalHold(enabled)

(* They touch nothing of the images, nor whether the session is there and  *)
(* marked.                                                                 *)
LEMMA SessionDoes ==
    ASSUME SessionSteps \/ UNCHANGED vars
    PROVE  /\ UNCHANGED <<row, blob, up, txn, work, tool, stray, skipped>>
           /\ session'.exists = session.exists /\ session'.purged = session.purged
<1>1. UNCHANGED <<row, blob, up, txn, work, tool, stray, skipped>>
  BY DEF SessionSteps, finalizeSession, withdrawConsent, reopenSession, DeadlinePasses, setLegalHold,
         SessionStep, vars
<1>2. CASE UNCHANGED vars BY <1>1, <1>2 DEF vars
<1>3. CASE finalizeSession
  <2>1. session' = [session EXCEPT !.ended = TRUE] BY <1>3 DEF finalizeSession, SessionStep
  <2> QED BY <1>1, <2>1
<1>4. CASE withdrawConsent
  <2>1. session' = [session EXCEPT !.ended = TRUE, !.withdrew = TRUE] BY <1>4 DEF withdrawConsent, SessionStep
  <2> QED BY <1>1, <2>1
<1>5. CASE reopenSession
  <2>1. session' = [session EXCEPT !.ended = FALSE, !.due = FALSE] BY <1>5 DEF reopenSession, SessionStep
  <2> QED BY <1>1, <2>1
<1>6. CASE DeadlinePasses
  <2>1. session' = [session EXCEPT !.due = TRUE] BY <1>6 DEF DeadlinePasses, SessionStep
  <2> QED BY <1>1, <2>1
<1>7. ASSUME NEW enabled \in BOOLEAN, setLegalHold(enabled)
      PROVE  session'.exists = session.exists /\ session'.purged = session.purged
  <2>1. session' = [session EXCEPT !.hold = enabled] BY <1>7 DEF setLegalHold, SessionStep
  <2> QED BY <2>1
<1> QED BY <1>1, <1>2, <1>3, <1>4, <1>5, <1>6, <1>7 DEF SessionSteps

(* Every step leaves every object accounted for.                           *)
LEMMA NextLeftovers == IInv /\ Order /\ Leftovers /\ [Next]_vars => Leftovers'
<1> SUFFICES ASSUME IInv, Order, Leftovers, [Next]_vars PROVE Leftovers' OBVIOUS
<1>1. CASE SessionSteps \/ UNCHANGED vars BY <1>1, SessionDoes, LeftoversStay
<1>2. ASSUME NEW i \in Items, UploadAccepted(i) \/ UploadNext(i) PROVE Leftovers' BY <1>2, UploadLeftovers
<1>3. ASSUME NEW p \in Purgers, PurgerNext(p) PROVE Leftovers' BY <1>3, PurgerLeftovers
<1>4. CASE PurgeNext \/ purgeEventMetadata BY <1>4, PurgeLeftovers, MetadataLeftovers
<1>5. CASE EraseBegins \/ EraseNext BY <1>5, EraseLeftovers
<1>6. ASSUME NEW t \in Tools,
             ToolNext(t) \/ (\E i \in Items : ToolReads(t, i)) \/ (t = "move" /\ (CopyUnverified \/ MoveDeletesOld))
      PROVE  Leftovers'
  BY <1>6, ToolLeftovers
<1>7. CASE CopyUnverified \/ MoveDeletesOld BY <1>6, <1>7 DEF Tools
<1> QED BY <1>1, <1>2, <1>3, <1>4, <1>5, <1>6, <1>7 DEF Next, SessionSteps

(* What has a tombstone is gone from every store once nobody works on it:  *)
(* neither an upload nor a re-encryption nor a move that was under way     *)
(* leaves a copy behind.  Two kinds of copies are excepted, which nothing  *)
(* in the code comes back to: one whose delete after the tombstone failed  *)
(* (deleteQuietly logs it), and one left by a tool that was killed or had  *)
(* a failed call.                                                          *)
THEOREM TombstoneIsFinal == Spec => []TombstoneMeansGone
<1>1. ASSUME Leftovers PROVE TombstoneMeansGone
  <2> SUFFICES ASSUME NEW i \in Items, NEW q \in Places, blob[i][q] # "none", session.exists,
                      row[i].state \in {"purged", "deleted"}, Quiet(i), [i |-> i, at |-> q] \notin stray
               PROVE  FALSE
    BY DEF TombstoneMeansGone
  <2>1. Accounted(i, q) BY <1>1 DEF Leftovers
  <2> QED BY <2>1 DEF Accounted, Live, Quiet, Covers, Finishing
<1> QED BY <1>1, InitInv, NextInv, InitOrder, NextOrder, InitLeftovers, NextLeftovers, PTL DEF Spec

-----------------------------------------------------------------------------
(***************************************************************************)
(* No recording outlives the purge: the count that lets a purge mark the   *)
(* session waits with every insert for the session lock, and whoever       *)
(* inserts after the mark finds it and undoes the upload.                  *)
(***************************************************************************)

(* The upload is going to put the tombstone itself.                        *)
Undoing(i) ==
    \/ up[i] = "recheck"
    \/ /\ up[i] = "purge"
       /\ \/ work[i].step = "rows" /\ [i |-> i, at |-> "home"] \in work[i].list
          \/ work[i].step = "tombstone" /\ work[i].cur.i = i

(* What the purge counted stays true until it ends.                        *)
Counted == txn.counted /\ ~txn.left => \A i \in Recordings : Live(i) => i \in txn.tomb
LateUndone == session.purged => \A i \in Recordings : Live(i) /\ i \notin skipped => Undoing(i)
RecordingsGo == session.exists => Counted /\ LateUndone

(* The recordings are among the images, and those among the purgers.       *)
LEMMA RecordingsAre == Recordings \subseteq Items /\ Items \subseteq Purgers
<1>1. Recordings \subseteq Items BY DEF Items
<1> QED BY <1>1, Roles

(* They hold at the start.                                                 *)
LEMMA InitRecordings == Init => RecordingsGo
BY DEF Init, RecordingsGo, Counted, LateUndone, NoTxn

(* Steps that bring no row to life and leave the uploads and what is       *)
(* counted alone.                                                          *)
LEMMA RecordingsStay ==
    ASSUME IInv, RecordingsGo, session'.exists = session.exists, session'.purged = session.purged,
           \A i \in Items : row'[i].state = "live" => row[i].state = "live",
           up' = up, \A i \in Items : work'[i] = work[i], skipped \subseteq skipped', txn' = txn
    PROVE  RecordingsGo'
<1>1. Recordings \subseteq Items BY RecordingsAre
<1> QED BY <1>1 DEF RecordingsGo, Counted, LateUndone, Live, Undoing

(* The uploads.                                                            *)
LEMMA UploadRecordings ==
    ASSUME IInv, Order, RecordingsGo, NEW i \in Items, UploadAccepted(i) \/ UploadNext(i)
    PROVE  RecordingsGo'
<1>0. /\ BeforeInsert(i) \/ Inserted(i) \/ Rechecked(i) \/ Undone(i)
      /\ UNCHANGED <<session, txn, tool, stray>> /\ skipped \subseteq skipped'
  BY UploadDoes
<1>1. Recordings \subseteq Items /\ Items \subseteq Purgers BY RecordingsAre
<1> SUFFICES ASSUME session.exists PROVE Counted' /\ LateUndone' BY <1>0 DEF RecordingsGo
<1>2. Counted /\ LateUndone BY DEF RecordingsGo
<1>3. ASSUME NEW j \in Items, j # i PROVE row'[j] = row[j] /\ up'[j] = up[j] /\ work'[j] = work[j]
  BY <1>0, <1>1, <1>3 DEF BeforeInsert, Inserted, Rechecked, Undone, OnlyUp
<1>4. \A j \in Items : j # i => (Undoing(j) => Undoing(j)') BY <1>3 DEF Undoing
<1>5. ASSUME ~Inserted(i) PROVE row' = row BY <1>0, <1>5 DEF BeforeInsert, Rechecked, Undone
<1>6. Counted'
  <2>1. CASE Inserted(i)
    <3>1. i \in Recordings => ~txn.counted BY <2>1 DEF Inserted, Order, Locks
    <3> QED BY <1>0, <1>1, <1>2, <1>3, <3>1 DEF Counted, Live
  <2>2. CASE ~Inserted(i) BY <1>0, <1>2, <1>5, <2>2 DEF Counted, Live
  <2> QED BY <2>1, <2>2
<1>7. LateUndone'
  <2> SUFFICES ASSUME session.purged, NEW j \in Recordings, row'[j].state = "live", j \notin skipped'
               PROVE  Undoing(j)'
    BY <1>0 DEF LateUndone, Live
  <2>1. j \in Items BY <1>1
  <2>2. Live(j) => Undoing(j) BY <1>0, <1>2 DEF LateUndone
  <2>3. CASE j # i BY <1>3, <1>4, <2>1, <2>2, <2>3 DEF Live
  <2>4. CASE j = i /\ Inserted(i) BY <2>4 DEF Undoing, Inserted, OnlyUp
  <2>5. CASE j = i /\ BeforeInsert(i)
    <3>1. row[i].state = "none" /\ row' = row BY <2>5, NoRowYet DEF BeforeInsert, OnlyUp
    <3> QED BY <2>5, <3>1
  <2>6. CASE j = i /\ Rechecked(i) BY <2>6 DEF Undoing, Rechecked, OnlyUp, Closed
  <2>7. CASE j = i /\ Undone(i)
    <3>1. ~Undoing(i) /\ row' = row BY <2>7 DEF Undoing, Undone, OnlyUp
    <3> QED BY <2>2, <2>7, <3>1 DEF Live
  <2> QED BY <1>0, <2>3, <2>4, <2>5, <2>6, <2>7
<1> QED BY <1>6, <1>7

(* The purgers.                                                            *)
LEMMA PurgerRecordings ==
    ASSUME IInv, Order, RecordingsGo, NEW p \in Purgers, PurgerNext(p)
    PROVE  RecordingsGo'
<1>0. Recordings \subseteq Items /\ Items \subseteq Purgers BY RecordingsAre
<1>1. UNCHANGED <<session, up>> /\ skipped \subseteq skipped' BY PurgerLeaves
<1> SUFFICES ASSUME session.exists PROVE Counted' /\ LateUndone' BY <1>1 DEF RecordingsGo
<1>2. Counted /\ LateUndone BY DEF RecordingsGo
<1>3. ASSUME NEW j \in Items, work'[j] = work[j], Undoing(j) PROVE Undoing(j)' BY <1>1, <1>3 DEF Undoing
<1>4. ASSUME row' = row, txn' = txn,
             p \in Items /\ Undoing(p) /\ p \notin skipped' => Undoing(p)',
             \A j \in Items : j # p => work'[j] = work[j]
      PROVE  Counted' /\ LateUndone'
  <2>1. Counted' BY <1>2, <1>4 DEF Counted, Live
  <2> SUFFICES ASSUME session.purged, NEW j \in Recordings, Live(j), j \notin skipped'
               PROVE  Undoing(j)'
    BY <1>1, <1>4, <2>1 DEF LateUndone, Live
  <2>2. Undoing(j) BY <1>1, <1>2 DEF LateUndone
  <2> QED BY <1>0, <1>3, <1>4, <2>2
<1>5. CASE DeleteBlob(p)
  <2>1. PICK e \in work[p].list, w \in WorkType :
          /\ work[p].step = "rows" /\ OnlyWork(p, w) /\ w.step = "tombstone" /\ w.cur = e
          /\ UNCHANGED <<row, txn>>
    BY <1>5, DeleteBlobDoes
  <2>2. p \in Items => e.i = p BY <2>1 DEF Order, UploadWork
  <2>3. p \in Items /\ Undoing(p) => Undoing(p)' BY <1>1, <2>1, <2>2 DEF Undoing, OnlyWork, Order, UploadWork
  <2> QED BY <1>0, <1>4, <2>1, <2>3 DEF OnlyWork
<1>6. CASE DeleteBlobFails(p)
  <2>1. PICK e \in work[p].list, w \in WorkType :
          /\ work[p].step = "rows" /\ OnlyWork(p, w) /\ skipped' = skipped \cup {e.i}
          /\ UNCHANGED <<row, txn>>
    BY <1>6, DeleteBlobFailsDoes
  <2>2. p \in Items => e.i = p BY <2>1 DEF Order, UploadWork
  <2> QED BY <1>0, <1>4, <2>1, <2>2 DEF OnlyWork
<1>7. CASE Tombstone(p)
  <2> DEFINE i == work[p].cur.i
  <2>1. PICK w \in WorkType :
          /\ i \in Items /\ work[p].step = "tombstone" /\ OnlyWork(p, w)
          /\ p = "session" => /\ row' = row
                              /\ IF Live(i) THEN txn' = [txn EXCEPT !.tomb = txn.tomb \cup {i}] ELSE txn' = txn
          /\ p # "session" => /\ txn' = txn
                              /\ IF Live(i) THEN row' = [row EXCEPT ![i].state = "purged"] ELSE row' = row
    BY <1>7, TombstoneDoes
  <2>2. /\ \A j \in Items : row'[j].state = "live" => row[j].state = "live"
        /\ p # "session" => ~(row'[i].state = "live")
    <3>1. CASE row' = row /\ (p = "session" \/ ~Live(i)) BY <3>1 DEF Live
    <3>2. CASE row' = [row EXCEPT ![i].state = "purged"]
      <4>1. row'[i].state = "purged" /\ \A j \in Items : j # i => row'[j] = row[j]
        BY <2>1, <3>2 DEF IInv, Types, RowType
      <4>2. row[i].state = "live" \/ row'[i].state # "live" BY <4>1
      <4> QED BY <4>1, <4>2
    <3> QED BY <2>1, <3>1, <3>2
  <2>3. Counted'
    <3>1. CASE p = "session"
      <4>1. ~txn.counted /\ txn'.counted = txn.counted
        BY <2>1, <3>1 DEF Order, Locks, IInv, Tombs, TxnType
      <4> QED BY <4>1 DEF Counted
    <3>2. CASE p # "session" BY <1>0, <1>2, <2>1, <2>2, <3>2 DEF Counted, Live
    <3> QED BY <3>1, <3>2
  <2>4. LateUndone'
    <3> SUFFICES ASSUME session.purged, NEW j \in Recordings, row'[j].state = "live", j \notin skipped
                 PROVE  Undoing(j)'
      BY <1>1, <1>7 DEF LateUndone, Live
    <3>1. Undoing(j) /\ j \in Items BY <1>0, <1>2, <2>2 DEF LateUndone, Live
    <3>2. j # p
      <4> SUFFICES ASSUME j = p PROVE FALSE OBVIOUS
      <4>1. i = j /\ p # "session" BY <2>1, <3>1, Roles DEF Order, UploadWork
      <4> QED BY <2>2, <4>1
    <3> QED BY <1>0, <1>3, <2>1, <3>1, <3>2 DEF OnlyWork
  <2> QED BY <2>3, <2>4
<1>8. CASE DeleteBlobAgain(p) \/ DeleteBlobAgainFails(p)
  <2>1. PICK w \in WorkType : work[p].step = "again" /\ OnlyWork(p, w) /\ UNCHANGED <<row, txn>>
    BY <1>8, DeleteBlobAgainDoes DEF AgainTo
  <2>2. p \in Items => ~Undoing(p) BY <2>1 DEF Undoing, Order, UploadWork
  <2> QED BY <1>0, <1>4, <2>1, <2>2 DEF OnlyWork
<1> QED BY <1>5, <1>6, <1>7, <1>8 DEF PurgerNext

(* The session is a record of its fields.                                  *)
SessionTyped ==
    session \in [exists : BOOLEAN, ended : BOOLEAN, withdrew : BOOLEAN,
                 hold : BOOLEAN, purged : BOOLEAN, due : BOOLEAN]

(* It stays one.                                                           *)
LEMMA NextSession == SessionTyped /\ [Next]_vars => SessionTyped'
<1> SUFFICES ASSUME SessionTyped, [Next]_vars PROVE SessionTyped' OBVIOUS
<1>1. CASE SessionSteps
  <2>1. CASE finalizeSession BY <2>1 DEF finalizeSession, SessionStep, SessionTyped
  <2>2. CASE withdrawConsent BY <2>2 DEF withdrawConsent, SessionStep, SessionTyped
  <2>3. CASE reopenSession BY <2>3 DEF reopenSession, SessionStep, SessionTyped
  <2>4. CASE DeadlinePasses BY <2>4 DEF DeadlinePasses, SessionStep, SessionTyped
  <2>5. ASSUME NEW enabled \in BOOLEAN, setLegalHold(enabled) PROVE SessionTyped'
    BY <2>5 DEF setLegalHold, SessionStep, SessionTyped
  <2> QED BY <1>1, <2>1, <2>2, <2>3, <2>4, <2>5 DEF SessionSteps
<1>2. ASSUME NEW i \in Items, UploadAccepted(i) \/ UploadNext(i) PROVE session' = session
  BY <1>2 DEF UploadAccepted, UploadNext, UploadPut, storeEvidence, InsertFails, InsertUnknown, discardFailedInsert,
              UploadRecheck, UploadUndone, UploadCutShort, Upload
<1>3. ASSUME NEW p \in Purgers, PurgerNext(p) PROVE session' = session
  BY <1>3, PurgerLeaves
<1>4. CASE PurgeCommits
  <2>1. session' = [session EXCEPT !.purged = session.purged \/ ~txn.left] BY <1>4 DEF PurgeCommits
  <2>2. (session.purged \/ ~txn.left) \in BOOLEAN OBVIOUS
  <2> QED BY <2>1, <2>2 DEF SessionTyped
<1>5. CASE PurgeNext /\ ~PurgeCommits
  BY <1>5 DEF PurgeNext, RetentionSelects, PurgeBegins, CountRemaining, PurgeRollsBack, SessionTyped
<1>6. CASE purgeEventMetadata \/ EraseBegins \/ EraseRoundDone
  BY <1>6 DEF purgeEventMetadata, EraseBegins, EraseRoundDone, SessionTyped
<1>7. CASE EraseDeletes BY <1>7 DEF EraseDeletes, SessionTyped
<1>8. ASSUME NEW t \in Tools, ToolNext(t) \/ (\E i \in Items : ToolReads(t, i)) PROVE session' = session
  BY <1>8 DEF ToolNext, ToolWrites, ToolPointsRow, ToolCleansUp, ToolFails, ToolReads, ToolStep
<1>9. CASE CopyUnverified \/ MoveDeletesOld \/ UNCHANGED vars
  BY <1>9 DEF CopyUnverified, MoveDeletesOld, ToolStep, vars, SessionTyped
<1> QED BY <1>1, <1>2, <1>3, <1>4, <1>5, <1>6, <1>7, <1>8, <1>9 DEF Next, SessionSteps, EraseNext, SessionTyped

(* The purge transaction: it marks the session when it left no recording.  *)
LEMMA PurgeRecordings == ASSUME IInv, Order, SessionTyped, RecordingsGo, PurgeNext PROVE RecordingsGo'
<1>0. Recordings \subseteq Items /\ Items \subseteq Purgers /\ "session" \notin Items BY RecordingsAre, Roles
<1>1. /\ UNCHANGED <<up, skipped>>
      /\ \A i \in Items : row'[i].state = "live" => row[i].state = "live"
  <2>1. UNCHANGED <<up, skipped>>
    BY DEF PurgeNext, RetentionSelects, PurgeBegins, CountRemaining, PurgeCommits, PurgeRollsBack, PurgeEnds
  <2> QED BY <2>1, RowsOnlyEndBeside DEF NoRowBegins
<1>2. \A i \in Items : work'[i] = work[i]
  BY <1>0 DEF PurgeNext, RetentionSelects, PurgeBegins, CountRemaining, PurgeCommits, PurgeRollsBack, PurgeEnds,
              IInv, Types
<1>3. \A i \in Items : Undoing(i) => Undoing(i)' BY <1>1, <1>2 DEF Undoing
<1>4. ASSUME session' = session, RecordingsGo, Counted' PROVE RecordingsGo'
  BY <1>0, <1>1, <1>3, <1>4 DEF RecordingsGo, LateUndone, Live
<1>5. CASE RetentionSelects
  BY <1>5, RecordingsStay DEF RetentionSelects
<1>6. CASE CountRemaining
  <2>1. /\ row' = row /\ session' = session /\ txn'.tomb = txn.tomb
        /\ ~txn'.left => \A i \in Items : Live(i) => i \in txn.tomb
    BY <1>6 DEF CountRemaining, IInv, Tombs, TxnType
  <2> QED BY <1>0, <1>4, <2>1 DEF Counted, Live
<1>7. ASSUME NEW by \in {"retention", "withdrawal"}, PurgeBegins(by) PROVE RecordingsGo'
  <2>1. session' = session /\ ~txn'.counted BY <1>7 DEF PurgeBegins, Unlocked, Order, Locks, NoTxn
  <2> QED BY <1>4, <2>1 DEF Counted
<1>8. CASE PurgeRollsBack
  <2>1. session' = session /\ ~txn'.counted BY <1>8 DEF PurgeRollsBack, PurgeEnds, NoTxn
  <2> QED BY <1>4, <2>1 DEF Counted
<1>9. CASE PurgeCommits
  <2>1. /\ txn.counted /\ ~txn'.counted
        /\ row' = [i \in Items |-> IF i \in txn.tomb THEN [row[i] EXCEPT !.state = "purged"] ELSE row[i]]
        /\ session' = [session EXCEPT !.purged = session.purged \/ ~txn.left]
    BY <1>9 DEF PurgeCommits, PurgeEnds, NoTxn
  <2>2. ASSUME NEW v, session' = [session EXCEPT !.purged = v]
        PROVE  session'.exists = session.exists
    BY <2>2
  <2>3. session'.exists = session.exists BY <2>1, <2>2
  <2>4. session'.purged => session.purged \/ ~txn.left BY <2>1 DEF SessionTyped
  <2>5. \A i \in txn.tomb : i \in Items => row'[i].state # "live" BY <2>1, RowsSet
  <2> SUFFICES ASSUME session.exists, session'.purged, NEW i \in Recordings, row'[i].state = "live",
                      i \notin skipped
               PROVE  Undoing(i)'
    BY <1>1, <2>1, <2>3 DEF RecordingsGo, Counted, LateUndone, Live
  <2>6. i \notin txn.tomb /\ row[i].state = "live" BY <1>0, <1>1, <2>5
  <2>7. session.purged BY <2>1, <2>4, <2>6 DEF RecordingsGo, Counted, Live
  <2> QED BY <1>0, <1>3, <2>6, <2>7 DEF RecordingsGo, LateUndone, Live
<1> QED BY <1>5, <1>6, <1>7, <1>8, <1>9 DEF PurgeNext

(* Every step lets no recording outlive the purge.                         *)
LEMMA NextRecordings == IInv /\ Order /\ SessionTyped /\ RecordingsGo /\ [Next]_vars => RecordingsGo'
<1> SUFFICES ASSUME IInv, Order, SessionTyped, RecordingsGo, [Next]_vars PROVE RecordingsGo' OBVIOUS
<1>0. Items \subseteq Purgers /\ "erase" \notin Items BY Roles
<1>1. CASE SessionSteps \/ UNCHANGED vars
  <2>1. /\ UNCHANGED <<row, up, txn, work, skipped>>
        /\ session'.exists = session.exists /\ session'.purged = session.purged
    BY <1>1, SessionDoes
  <2> QED BY <2>1, RecordingsStay
<1>2. ASSUME NEW i \in Items, UploadAccepted(i) \/ UploadNext(i) PROVE RecordingsGo' BY <1>2, UploadRecordings
<1>3. ASSUME NEW p \in Purgers, PurgerNext(p) PROVE RecordingsGo' BY <1>3, PurgerRecordings
<1>4. CASE PurgeNext BY <1>4, PurgeRecordings
<1>5. CASE purgeEventMetadata
  <2>1. UNCHANGED <<session, up, txn, work, skipped>> BY <1>5 DEF purgeEventMetadata
  <2> QED BY <1>5, <2>1, RowsOnlyEndBeside, RecordingsStay DEF NoRowBegins
<1>6. CASE EraseBegins \/ EraseRoundDone
  <2>1. UNCHANGED <<session, row, up, txn, skipped>> BY <1>6 DEF EraseBegins, EraseRoundDone
  <2>2. \A i \in Items : work'[i] = work[i]
    BY <1>0, <1>6 DEF EraseBegins, EraseRoundDone, IInv, Types
  <2> QED BY <2>1, <2>2, RecordingsStay
<1>7. CASE EraseDeletes
  <2>1. session' = [session EXCEPT !.exists = FALSE] /\ UNCHANGED <<up, txn, work, skipped>>
    BY <1>7 DEF EraseDeletes
  <2>2. CASE ~session'.exists BY <2>2 DEF RecordingsGo
  <2>3. CASE session'.exists
    <3>1. session'.exists = session.exists /\ session'.purged = session.purged BY <2>1, <2>3
    <3> QED BY <1>7, <2>1, <3>1, RowsOnlyEndBeside, RecordingsStay DEF NoRowBegins, EraseNext
  <2> QED BY <2>2, <2>3
<1>8. ASSUME NEW t \in Tools,
             ToolNext(t) \/ (\E i \in Items : ToolReads(t, i)) \/ (t = "move" /\ (CopyUnverified \/ MoveDeletesOld))
      PROVE  RecordingsGo'
  <2>1. UNCHANGED <<session, up, txn, work, skipped>>
    BY <1>8 DEF ToolNext, ToolWrites, ToolPointsRow, ToolCleansUp, ToolFails, ToolReads, CopyUnverified, MoveDeletesOld,
                  ToolStep
  <2>2. \A i \in Items : row'[i].state = "live" => row[i].state = "live"
    <3>1. CASE PointedBy(t) BY <3>1 DEF PointedBy, Live
    <3>2. CASE ~PointedBy(t)
      <4>1. (\E i \in Items : Taken(t, i)) \/ WrittenBy(t) \/ MissedBy(t) \/ DeletedBy(t) \/ LeftBy(t)
        BY <1>8, <3>2, ToolDoes DEF Order
      <4>2. row' = row BY <4>1 DEF Taken, WrittenBy, MissedBy, DeletedBy, LeftBy
      <4> QED BY <4>2
    <3> QED BY <3>1, <3>2
  <2>3. /\ session'.exists = session.exists /\ session'.purged = session.purged /\ skipped \subseteq skipped'
        /\ \A i \in Items : work'[i] = work[i]
    BY <2>1
  <2>4. up' = up /\ txn' = txn BY <2>1
  <2> QED BY <2>2, <2>3, <2>4, RecordingsStay
<1>9. CASE CopyUnverified \/ MoveDeletesOld BY <1>8, <1>9 DEF Tools
<1> QED BY <1>1, <1>2, <1>3, <1>4, <1>5, <1>6, <1>7, <1>8, <1>9 DEF Next, SessionSteps, EraseNext

(* Once the session is marked purged no recording of it stays: one that    *)
(* was being uploaded meanwhile was counted, or undoes itself, unless the  *)
(* store refuses to delete it just then or the upload is cut short by a    *)
(* lost answer before it looks at the session again.                       *)
THEOREM NothingOutlivesPurge == Spec => []NoRecordingAfterPurge
<1>1. ASSUME RecordingsGo PROVE NoRecordingAfterPurge
  <2> SUFFICES ASSUME NEW i \in Recordings, session.exists, session.purged, Quiet(i), i \notin skipped, Live(i)
               PROVE  FALSE
    BY DEF NoRecordingAfterPurge
  <2>1. Undoing(i) BY <1>1 DEF RecordingsGo, LateUndone
  <2> QED BY <2>1 DEF Undoing, Quiet
<1>2. Init => SessionTyped BY DEF Init, SessionTyped
<1> QED
  BY <1>1, <1>2, InitInv, NextInv, InitOrder, NextOrder, NextSession, InitRecordings, NextRecordings, PTL DEF Spec
=============================================================================
