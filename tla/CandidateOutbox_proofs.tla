----------------------- MODULE CandidateOutbox_proofs -----------------------
(***************************************************************************)
(* Proofs about the candidate's outbox.  Its two lanes have state of their *)
(* own and are proved one after the other: AnswerDelivery, then Outbox.    *)
(*                                                                         *)
(* Answers, for every number of devices, questions, edits and page loads:  *)
(* an answer that counts as delivered is on the server or was reported as  *)
(* lost, submit() leaves nothing behind, and the server keeps the newest   *)
(* of what one device typed.                                               *)
(*                                                                         *)
(* Events and screenshots, for every number of them and of versions,       *)
(* outages and reloads: the newest version of an event is kept except in   *)
(* a removal's window, screenshots follow their events and never go        *)
(* missing silently, and queued work is never left without a wake-up.      *)
(***************************************************************************)
EXTENDS AnswerDelivery, Outbox, FiniteSetTheorems, TLAPS

Vals == 0..MaxEdits
Record == [seq : Nat, val : Vals, pending : BOOLEAN, parked : BOOLEAN]
Records == [Questions -> Record]
Rows == [Questions -> Row]
Replies == {"none", "ok", "park", "ended", "superseded"}
Page == [inst : Nat, verified : BOOLEAN, fatal : BOOLEAN, served : BOOLEAN,
         open : BOOLEAN, seq : Nat]
Box == [index : SUBSET Questions, parked : SUBSET Questions]
Pass == [on : BOOLEAN, todo : SUBSET Item, cur : Item \union {NoItem}, reply : Replies]
Restore == [on : BOOLEAN, left : SUBSET Questions, local : Records \union {NoTable},
            server : Rows \union {NoTable}]

(* The types the argument needs: every number is a number, every snapshot  *)
(* is one of a question.                                                   *)
Types ==
    /\ edits \in Vals
    /\ loads \in Nat
    /\ server \in Rows
    /\ rec \in [Browsers -> Records]
    /\ page \in [Browsers -> Page]
    /\ dirty \in [Browsers -> [Questions -> Vals]]
    /\ writes \in [Browsers -> Seq(Item)]
    /\ box \in [Browsers -> Box]
    /\ pass \in [Browsers -> Pass]
    /\ dto \in [Browsers -> Rows \union {NoTable}]
    /\ restore \in [Browsers -> Restore]

(* i is a version of an answer that a device with the records t once held: *)
(* the record has it still, or a higher number.                            *)
Held(t, i) ==
    /\ i \in Item
    /\ 0 < i.seq /\ i.seq <= t[i.q].seq
    /\ i.seq = t[i.q].seq => i.val = t[i.q].val

(* What a pass p has under way was held; a reply is about the version that *)
(* was sent, and "ok" means that the server has it or a later one.         *)
Way(p, t, table) ==
    /\ \A i \in p.todo : Held(t, i)
    /\ p.cur # NoItem => Held(t, p.cur)
    /\ p.reply # "none" => p.cur # NoItem
    /\ p.reply = "ok" => p.cur.seq <= table[p.cur.q].seq

(* copy is the server's table of some earlier time, for the questions Q.   *)
OldCopy(copy, Q, table) == \A q \in Q : copy[q] \in Row /\ copy[q].seq <= table[q].seq

(* What a page was sent, d, and what its restore r works from.             *)
Sent(d, r, table) ==
    /\ d # NoTable => OldCopy(d, Questions, table)
    /\ OldCopy(r.server, r.left, table)
    /\ \A q \in r.left : r.local[q] \in Record

(* IndexAgrees and SettledMeansSaved, for the device with the records t;   *)
(* what is pending has a number.                                           *)
Indexed(t, x) ==
    /\ \A q \in Questions : t[q].pending => t[q].seq > 0
    /\ x.index = {q \in Questions : t[q].pending}
    /\ x.parked \subseteq x.index

Saved(t, table, lost) ==
    \A q \in Questions :
        t[q].seq > 0 /\ ~t[q].pending => table[q].seq >= t[q].seq \/ t[q].val \in lost

(* The inductive invariant.                                                *)
OnTheWay == \A b \in Browsers : Way(pass[b], rec[b], server)
InTheNet == \A r \in net : r.b \in Browsers /\ Held(rec[r.b], r.item)
Copies == \A b \in Browsers : Sent(dto[b], restore[b], server)
Stored == \A b \in Browsers : Indexed(rec[b], box[b]) /\ Saved(rec[b], server, unsaved)

AInv == Types /\ OnTheWay /\ InTheNet /\ Copies /\ Stored

-----------------------------------------------------------------------------
(***************************************************************************)
(* The largest of finitely many numbers, which apply() takes as the page's *)
(* sequence counter.                                                       *)
(***************************************************************************)

(* A finite set of numbers that is not empty has a largest one.            *)
LEMMA LargestExists ==
    ASSUME NEW S \in SUBSET Nat, IsFiniteSet(S), S # {}
    PROVE  \E m \in S : \A y \in S : m >= y
<1> DEFINE HasMax(T) == \E m \in T : \A y \in T : m >= y
           Bad == {T \in SUBSET S : T # {} /\ ~HasMax(T)}
<1> SUFFICES ASSUME Bad # {} PROVE FALSE
    OBVIOUS
<1>1. Bad \subseteq FiniteSubsetsOf(S)
    BY FS_FiniteSubsetsOfFinite
<1>2. IsWellFoundedOn(StrictSubsetOrdering(S), FiniteSubsetsOf(S))
    BY FS_StrictSubsetOrderingWellFounded
<1>3. PICK T \in Bad : \A U \in Bad : <<U, T>> \notin StrictSubsetOrdering(S)
    <2> HIDE DEF Bad
    <2> QED BY <1>1, <1>2, WFMin
<1>4. PICK x \in T : TRUE
    OBVIOUS
<1>5. T \ {x} \notin Bad
    BY <1>3, <1>4 DEF StrictSubsetOrdering
<1>6. CASE T \ {x} = {}
    <2>1. T = {x} /\ x \in Nat
        BY <1>4, <1>6
    <2> QED BY <2>1
<1>7. CASE T \ {x} # {}
    <2>1. PICK m \in T \ {x} : \A y \in T \ {x} : m >= y
        BY <1>5, <1>7
    <2>2. m \in Nat /\ x \in Nat /\ T \subseteq Nat
        BY <1>4
    <2>3. CASE m >= x
        BY <2>1, <2>2, <2>3
    <2>4. CASE ~(m >= x)
        <3>1. \A y \in T : x >= y
            BY <2>1, <2>2, <2>4
        <3> QED BY <3>1, <1>4
    <2> QED BY <2>3, <2>4
<1> QED BY <1>6, <1>7

(* So Max is one of the set's members.                                     *)
LEMMA MaxIsMember ==
    ASSUME NEW S \in SUBSET Nat, IsFiniteSet(S), S # {}
    PROVE  Max(S) \in S
BY LargestExists DEF Max

(* The numbers a table has for the questions are finitely many.            *)
LEMMA NumbersFinite ==
    ASSUME NEW f \in [Questions -> Nat]
    PROVE  {f[q] : q \in Questions} \in SUBSET Nat /\ IsFiniteSet({f[q] : q \in Questions})
<1> DEFINE T == {f[q] : q \in Questions}
<1>1. f \in Surjection(Questions, T)
    BY DEF Surjection
<1>2. IsFiniteSet(Questions)
    BY AnswerAssumption
<1>3. IsFiniteSet(T)
    <2> HIDE DEF T
    <2> QED BY <1>1, <1>2, FS_Surjection
<1> QED BY <1>3

(* The counter a page continues from is a number.                          *)
LEMMA CounterIsNumber ==
    ASSUME NEW n \in Nat, NEW t \in Records, NEW d \in Rows
    PROVE  Max({n} \union {t[q].seq : q \in Questions} \union {d[q].seq : q \in Questions}) \in Nat
<1> DEFINE f == [q \in Questions |-> t[q].seq]
           g == [q \in Questions |-> d[q].seq]
           A == {f[q] : q \in Questions}
           B == {g[q] : q \in Questions}
<1>1. f \in [Questions -> Nat] /\ g \in [Questions -> Nat]
    BY DEF Records, Record, Rows, Row
<1>2. A \in SUBSET Nat /\ IsFiniteSet(A) /\ B \in SUBSET Nat /\ IsFiniteSet(B)
    <2> HIDE DEF f, g
    <2> QED BY <1>1, NumbersFinite
<1>3. A = {t[q].seq : q \in Questions} /\ B = {d[q].seq : q \in Questions}
    OBVIOUS
<1> HIDE DEF A, B
<1>4. IsFiniteSet({n})
    BY FS_Singleton
<1>5. IsFiniteSet(({n} \union A) \union B)
    BY <1>2, <1>4, FS_Union
<1>6. Max(({n} \union A) \union B) \in ({n} \union A) \union B
    BY <1>2, <1>5, MaxIsMember
<1> QED BY <1>2, <1>3, <1>6

-----------------------------------------------------------------------------
(***************************************************************************)
(* What grows.  A record only moves to higher numbers, the server's table  *)
(* too, so what was held stays held and a copy stays an old one.           *)
(***************************************************************************)

(* The records u follow on the records t.                                  *)
Follows(t, u) ==
    \A q \in Questions :
        /\ t[q].seq <= u[q].seq
        /\ t[q].seq = u[q].seq => t[q].val = u[q].val

(* The server's table has moved on from s to z.                            *)
MovedOn(s, z) == \A q \in Questions : s[q].seq <= z[q].seq

(* What was held stays held.                                               *)
LEMMA HeldStays ==
    ASSUME NEW t \in Records, NEW u \in Records, Follows(t, u), NEW i, Held(t, i)
    PROVE  Held(u, i)
<1>1. i \in Item /\ i.q \in Questions /\ i.seq \in Nat
    BY DEF Held, Item
<1>2. t[i.q].seq \in Nat /\ u[i.q].seq \in Nat
    BY <1>1 DEF Records, Record
<1> QED BY <1>1, <1>2 DEF Held, Follows

(* A pass stays in order when the records and the server move on.          *)
LEMMA WayStays ==
    ASSUME NEW t \in Records, NEW u \in Records, Follows(t, u),
           NEW s \in Rows, NEW z \in Rows, MovedOn(s, z),
           NEW p \in Pass, Way(p, t, s)
    PROVE  Way(p, u, z)
<1>1. \A i \in p.todo : Held(u, i)
    BY HeldStays DEF Way
<1>2. p.cur # NoItem => Held(u, p.cur)
    BY HeldStays DEF Way
<1>3. ASSUME p.reply = "ok" PROVE p.cur.seq <= z[p.cur.q].seq
    <2>1. p.cur \in Item /\ p.cur.seq <= s[p.cur.q].seq
        BY <1>3 DEF Way, Held
    <2>2. p.cur.q \in Questions /\ p.cur.seq \in Nat
        BY <2>1 DEF Item
    <2>3. s[p.cur.q].seq \in Nat /\ z[p.cur.q].seq \in Nat /\ s[p.cur.q].seq <= z[p.cur.q].seq
        BY <2>2 DEF Rows, Row, MovedOn
    <2> QED BY <2>1, <2>2, <2>3
<1> QED BY <1>1, <1>2, <1>3 DEF Way

(* A copy of the server's table stays an old one.                          *)
LEMMA CopyStays ==
    ASSUME NEW s \in Rows, NEW z \in Rows, MovedOn(s, z),
           NEW Q \in SUBSET Questions, NEW c, OldCopy(c, Q, s)
    PROVE  OldCopy(c, Q, z)
BY DEF OldCopy, MovedOn, Rows, Row

(* What a page was sent stays a copy.                                      *)
LEMMA SentStays ==
    ASSUME NEW s \in Rows, NEW z \in Rows, MovedOn(s, z),
           NEW d, NEW r \in Restore, Sent(d, r, s)
    PROVE  Sent(d, r, z)
<1>1. r.left \in SUBSET Questions
    BY DEF Restore
<1> QED BY <1>1, CopyStays DEF Sent

(* What is saved stays saved when the server moves on.                     *)
LEMMA SavedStays ==
    ASSUME NEW s \in Rows, NEW z \in Rows, MovedOn(s, z),
           NEW t \in Records, NEW lost, Saved(t, s, lost)
    PROVE  Saved(t, z, lost)
BY DEF Saved, MovedOn, Rows, Row, Records, Record

-----------------------------------------------------------------------------
(***************************************************************************)
(* The operations on the outbox's records.                                 *)
(***************************************************************************)

(* The records and the index of every device move on as they should.       *)
RecordsMove ==
    /\ rec' \in [Browsers -> Records]
    /\ box' \in [Browsers -> Box]
    /\ \A c \in Browsers :
          Follows(rec[c], rec'[c]) /\ Indexed(rec'[c], box'[c]) /\ Saved(rec'[c], server, unsaved')

(* Records that stay follow on themselves.                                 *)
LEMMA FollowsItself ==
    ASSUME NEW t \in Records
    PROVE  Follows(t, t)
BY DEF Follows, Records, Record

(* More reported as lost: what was saved or reported still is.             *)
LEMMA SavedOrMoreLost ==
    ASSUME NEW t, NEW s, NEW lost, NEW more, lost \subseteq more, Saved(t, s, lost)
    PROVE  Saved(t, s, more)
BY DEF Saved

(* The records of one device change to u and its index to x.               *)
LEMMA OneDevice ==
    ASSUME AInv, unsaved \subseteq unsaved', NEW b \in Browsers,
           NEW u \in Records, rec' = [rec EXCEPT ![b] = u],
           NEW x \in Box, box' = [box EXCEPT ![b] = x],
           Follows(rec[b], u), Indexed(u, x), Saved(u, server, unsaved')
    PROVE  RecordsMove
<1>1. rec \in [Browsers -> Records] /\ box \in [Browsers -> Box]
    BY DEF AInv, Types
<1>2. rec' \in [Browsers -> Records] /\ box' \in [Browsers -> Box]
    BY <1>1
<1>3. ASSUME NEW c \in Browsers
      PROVE  Follows(rec[c], rec'[c]) /\ Indexed(rec'[c], box'[c]) /\ Saved(rec'[c], server, unsaved')
    <2>1. CASE c = b
        <3>1. rec'[c] = u /\ box'[c] = x
            BY <1>1, <2>1
        <3> QED BY <2>1, <3>1
    <2>2. CASE c # b
        <3>1. rec'[c] = rec[c] /\ box'[c] = box[c] /\ rec[c] \in Records
            BY <1>1, <2>2
        <3>2. Indexed(rec[c], box[c]) /\ Saved(rec[c], server, unsaved)
            BY DEF AInv, Stored
        <3> QED BY <3>1, <3>2, FollowsItself, SavedOrMoreLost
    <2> QED BY <2>1, <2>2
<1> QED BY <1>2, <1>3 DEF RecordsMove

(* One record changes to n, the index with it.                             *)
LEMMA OneRecord ==
    ASSUME AInv, unsaved \subseteq unsaved', NEW b \in Browsers, NEW q \in Questions,
           NEW n \in Record, rec' = [rec EXCEPT ![b][q] = n],
           NEW x \in Box, box' = [box EXCEPT ![b] = x],
           rec[b][q].seq <= n.seq, rec[b][q].seq = n.seq => rec[b][q].val = n.val,
           x.index = IF n.pending THEN box[b].index \union {q} ELSE box[b].index \ {q},
           x.parked \subseteq x.index, n.pending => n.seq > 0,
           n.seq > 0 /\ ~n.pending => server[q].seq >= n.seq \/ n.val \in unsaved'
    PROVE  RecordsMove
<1> DEFINE u == [rec[b] EXCEPT ![q] = n]
<1>1. rec[b] \in Records
    BY DEF AInv, Types
<1>2. u \in Records /\ u[q] = n /\ \A c \in Questions : c # q => u[c] = rec[b][c]
    BY <1>1 DEF Records
<1>3. rec' = [rec EXCEPT ![b] = u]
    OBVIOUS
<1>4. Indexed(rec[b], box[b]) /\ Saved(rec[b], server, unsaved)
    BY DEF AInv, Stored
<1> HIDE DEF u
<1>5. Follows(rec[b], u)
    BY <1>1, <1>2 DEF Follows, Records, Record
<1>6. Indexed(u, x)
    BY <1>2, <1>4 DEF Indexed
<1>7. Saved(u, server, unsaved')
    BY <1>2, <1>4 DEF Saved
<1> QED BY <1>2, <1>3, <1>5, <1>6, <1>7, OneDevice

(* Nothing of the outbox changes.                                          *)
LEMMA NothingMoves ==
    ASSUME AInv, UNCHANGED <<rec, box, unsaved>>
    PROVE  RecordsMove
<1>1. rec \in [Browsers -> Records] /\ box \in [Browsers -> Box]
    BY DEF AInv, Types
<1>2. \A c \in Browsers : Indexed(rec[c], box[c]) /\ Saved(rec[c], server, unsaved)
    BY DEF AInv, Stored
<1>3. \A c \in Browsers : Follows(rec[c], rec[c])
    BY <1>1, FollowsItself
<1> QED BY <1>1, <1>2, <1>3 DEF RecordsMove

(* The box of a device without its index changed.                          *)
LEMMA BoxFacts ==
    ASSUME AInv, NEW b \in Browsers
    PROVE  /\ rec \in [Browsers -> Records] /\ rec[b] \in Records
           /\ box \in [Browsers -> Box] /\ box[b] \in Box
           /\ box[b].index \in SUBSET Questions /\ box[b].parked \in SUBSET Questions
           /\ box[b].index = {q \in Questions : rec[b][q].pending}
           /\ box[b].parked \subseteq box[b].index
           /\ \A q \in Questions : rec[b][q].pending => rec[b][q].seq > 0
           /\ Saved(rec[b], server, unsaved)
BY DEF AInv, Types, Stored, Indexed, Box

(* putAnswer.                                                              *)
LEMMA PutMoves ==
    ASSUME AInv, unsaved' = unsaved, NEW b \in Browsers, NEW q \in Questions,
           NEW val \in Vals, NEW seq \in Nat, putAnswer(b, q, val, seq)
    PROVE  RecordsMove
<1>1. rec[b][q] \in Record /\ rec[b][q].seq \in Nat
    BY BoxFacts DEF Records, Record
<1>2. CASE rec[b][q].seq >= seq
    <2>1. rec' = rec /\ box' = box
        BY <1>1, <1>2, BoxFacts DEF putAnswer, PutRecord, Records
    <2> QED BY <2>1, NothingMoves
<1>3. CASE ~(rec[b][q].seq >= seq)
    <2> DEFINE n == [seq |-> seq, val |-> val, pending |-> TRUE, parked |-> FALSE]
               x == [box[b] EXCEPT !.index = @ \union {q}, !.parked = @ \ {q}]
    <2>1. rec' = [rec EXCEPT ![b][q] = n]
        BY <1>3 DEF putAnswer, PutRecord
    <2>2. box' = [box EXCEPT ![b] = x]
        BY <1>3 DEF putAnswer
    <2>3. n \in Record /\ n.pending /\ n.seq = seq
        BY DEF Record
    <2>4. x \in Box /\ x.index = box[b].index \union {q} /\ x.parked = box[b].parked \ {q}
        BY BoxFacts DEF Box
    <2>5. rec[b][q].seq <= n.seq /\ rec[b][q].seq # n.seq /\ n.seq > 0
        BY <1>1, <1>3
    <2>6. x.parked \subseteq x.index
        BY <2>4, BoxFacts
    <2> HIDE DEF n, x
    <2> QED BY <2>1, <2>2, <2>3, <2>4, <2>5, <2>6, OneRecord
<1> QED BY <1>2, <1>3

(* rememberDeliveredAnswer, of a row the server has or had.                *)
LEMMA RememberMoves ==
    ASSUME AInv, unsaved' = unsaved, NEW b \in Browsers, NEW q \in Questions,
           NEW row \in Row, row.seq <= server[q].seq, rememberDeliveredAnswer(b, q, row)
    PROVE  RecordsMove
<1> DEFINE n == IF rec[b][q].seq >= row.seq THEN rec[b][q]
                ELSE [seq |-> row.seq, val |-> row.val, pending |-> FALSE, parked |-> FALSE]
           x == IF n.pending THEN box[b]
                ELSE [box[b] EXCEPT !.index = @ \ {q}, !.parked = @ \ {q}]
<1>1. rec[b][q] \in Record /\ rec[b][q].seq \in Nat
    BY BoxFacts DEF Records, Record
<1>2. row.seq \in Nat /\ row.val \in Vals
    BY DEF Row, Vals
<1>3. server[q].seq \in Nat
    BY DEF AInv, Types, Rows, Row
<1>4. rec' = [rec EXCEPT ![b][q] = n]
    BY DEF rememberDeliveredAnswer
<1>5. box' = [box EXCEPT ![b] = x]
    BY BoxFacts DEF rememberDeliveredAnswer
<1>6. n \in Record
    BY <1>1, <1>2 DEF Record
<1>7. rec[b][q].seq <= n.seq /\ (rec[b][q].seq = n.seq => rec[b][q].val = n.val)
    BY <1>1, <1>2
<1>8. n.seq > 0 /\ ~n.pending => server[q].seq >= n.seq \/ n.val \in unsaved'
    <2>1. CASE rec[b][q].seq >= row.seq
        BY <2>1, BoxFacts DEF Saved
    <2>2. CASE ~(rec[b][q].seq >= row.seq)
        BY <2>2, <1>2, <1>3
    <2> QED BY <2>1, <2>2
<1>9. n.pending => q \in box[b].index /\ n.seq > 0
    BY <1>1, BoxFacts
<1> HIDE DEF n
<1>10. x \in Box /\ x.index = (IF n.pending THEN box[b].index ELSE box[b].index \ {q})
       /\ x.parked = (IF n.pending THEN box[b].parked ELSE box[b].parked \ {q})
    BY BoxFacts DEF Box
<1> HIDE DEF x
<1>11. x.parked \subseteq x.index
    BY <1>10, BoxFacts
<1>12. x.index = IF n.pending THEN box[b].index \union {q} ELSE box[b].index \ {q}
    BY <1>9, <1>10
<1> QED BY <1>4, <1>5, <1>6, <1>7, <1>8, <1>9, <1>10, <1>11, <1>12, OneRecord

(* settleAnswer, of a version that the server has or that was reported.    *)
LEMMA SettleMoves ==
    ASSUME AInv, unsaved \subseteq unsaved', NEW b \in Browsers, NEW i, Held(rec[b], i),
           i.seq <= server[i.q].seq \/ i.val \in unsaved', settleAnswer(b, i)
    PROVE  RecordsMove
<1>1. i.q \in Questions /\ i.seq \in Nat
    BY DEF Held, Item
<1>2. rec[b][i.q] \in Record
    BY <1>1, BoxFacts DEF Records
<1>3. server[i.q].seq \in Nat
    BY <1>1 DEF AInv, Types, Rows, Row
<1>4. CASE rec[b][i.q].seq = i.seq
    <2> DEFINE n == [rec[b][i.q] EXCEPT !.pending = FALSE, !.parked = FALSE]
               x == [box[b] EXCEPT !.index = @ \ {i.q}, !.parked = @ \ {i.q}]
    <2>1. rec' = [rec EXCEPT ![b][i.q] = n]
        BY <1>4 DEF settleAnswer
    <2>2. box' = [box EXCEPT ![b] = x]
        BY <1>4 DEF settleAnswer
    <2>3. n \in Record /\ n.seq = i.seq /\ n.val = rec[b][i.q].val /\ n.pending = FALSE
        BY <1>2, <1>4 DEF Record
    <2>4. x \in Box /\ x.index = box[b].index \ {i.q} /\ x.parked = box[b].parked \ {i.q}
        BY BoxFacts DEF Box
    <2>5. n.val = i.val
        BY <1>4, <2>3 DEF Held
    <2>6. server[i.q].seq >= n.seq \/ n.val \in unsaved'
        BY <1>1, <1>3, <2>3, <2>5
    <2>7. x.parked \subseteq x.index
        BY <2>4, BoxFacts
    <2>8. rec[b][i.q].seq <= n.seq
        BY <1>1, <1>4, <2>3
    <2> HIDE DEF n, x
    <2> QED BY <1>1, <2>1, <2>2, <2>3, <2>4, <2>6, <2>7, <2>8, OneRecord
<1>5. CASE rec[b][i.q].seq # i.seq
    <2>1. rec' = [rec EXCEPT ![b] = rec[b]] /\ box' = [box EXCEPT ![b] = box[b]]
        BY <1>5, BoxFacts DEF settleAnswer
    <2>2. Follows(rec[b], rec[b]) /\ Indexed(rec[b], box[b]) /\ Saved(rec[b], server, unsaved')
        BY BoxFacts, FollowsItself, SavedOrMoreLost DEF Indexed
    <2> QED BY <2>1, <2>2, BoxFacts, OneDevice
<1> QED BY <1>4, <1>5

(* parkAnswer.                                                             *)
LEMMA ParkMoves ==
    ASSUME AInv, unsaved' = unsaved, NEW b \in Browsers, NEW i, Held(rec[b], i), parkAnswer(b, i)
    PROVE  RecordsMove
<1>1. i.q \in Questions
    BY DEF Held, Item
<1>2. rec[b][i.q] \in Record /\ rec[b][i.q].seq \in Nat
    BY <1>1, BoxFacts DEF Records, Record
<1>3. CASE rec[b][i.q].pending /\ rec[b][i.q].seq = i.seq
    <2> DEFINE n == [rec[b][i.q] EXCEPT !.parked = TRUE]
               x == [box[b] EXCEPT !.parked = @ \union {i.q}]
    <2>1. rec' = [rec EXCEPT ![b][i.q] = n]
        BY <1>3 DEF parkAnswer
    <2>2. box' = [box EXCEPT ![b] = x]
        BY <1>3 DEF parkAnswer
    <2>3. n \in Record /\ n.seq = rec[b][i.q].seq /\ n.val = rec[b][i.q].val /\ n.pending
        BY <1>2, <1>3 DEF Record
    <2>4. x \in Box /\ x.index = box[b].index /\ x.parked = box[b].parked \union {i.q}
        BY <1>1, BoxFacts DEF Box
    <2>5. i.q \in box[b].index
        BY <1>1, <1>3, BoxFacts
    <2>6. x.parked \subseteq x.index /\ x.index = box[b].index \union {i.q}
        BY <2>4, <2>5, BoxFacts
    <2>7. rec[b][i.q].seq <= n.seq /\ n.seq > 0
        BY <1>1, <1>2, <1>3, <2>3, BoxFacts
    <2> HIDE DEF n, x
    <2> QED BY <1>1, <2>1, <2>2, <2>3, <2>4, <2>6, <2>7, OneRecord
<1>4. CASE ~(rec[b][i.q].pending /\ rec[b][i.q].seq = i.seq)
    BY <1>4, NothingMoves DEF parkAnswer
<1> QED BY <1>3, <1>4

(* resumeAnswers.                                                          *)
LEMMA ResumeMoves ==
    ASSUME AInv, unsaved' = unsaved, NEW b \in Browsers, resumeAnswers(b)
    PROVE  RecordsMove
<1> DEFINE u == [q \in Questions |-> [rec[b][q] EXCEPT !.parked = FALSE]]
           x == [box[b] EXCEPT !.parked = {}]
<1>1. rec' = [rec EXCEPT ![b] = u] /\ box' = [box EXCEPT ![b] = x]
    BY DEF resumeAnswers
<1>2. /\ u \in Records
      /\ \A q \in Questions : /\ u[q].seq = rec[b][q].seq /\ u[q].val = rec[b][q].val
                              /\ u[q].pending = rec[b][q].pending
    <2>1. ASSUME NEW r \in Record
          PROVE  /\ [r EXCEPT !.parked = FALSE] \in Record
                 /\ [r EXCEPT !.parked = FALSE].seq = r.seq
                 /\ [r EXCEPT !.parked = FALSE].val = r.val
                 /\ [r EXCEPT !.parked = FALSE].pending = r.pending
        BY DEF Record
    <2>2. \A q \in Questions : rec[b][q] \in Record
        BY BoxFacts DEF Records
    <2> QED BY <2>1, <2>2 DEF Records
<1>3. x \in Box /\ x.index = box[b].index /\ x.parked = {}
    BY BoxFacts DEF Box
<1> HIDE DEF u, x
<1>4. Follows(rec[b], u)
    BY <1>2, BoxFacts DEF Follows, Records, Record
<1>5. Indexed(u, x)
    BY <1>2, <1>3, BoxFacts DEF Indexed
<1>6. Saved(u, server, unsaved')
    BY <1>2, BoxFacts DEF Saved
<1> QED BY <1>1, <1>2, <1>3, <1>4, <1>5, <1>6, OneDevice

(* abandonPendingAnswers: every record is settled; what was pending is on  *)
(* the server, when the page could ask, or reported.                       *)
LEMMA AbandonMoves ==
    ASSUME AInv, NEW b \in Browsers, abandonPendingAnswers(b)
    PROVE  RecordsMove
<1> DEFINE u == [q \in Questions |-> [rec[b][q] EXCEPT !.pending = FALSE, !.parked = FALSE]]
           x == [box[b] EXCEPT !.index = {}, !.parked = {}]
           Gone(known) == {q \in Questions : rec[b][q].pending /\ (known => server[q].seq < rec[b][q].seq)}
<1>1. PICK known \in BOOLEAN : unsaved' = unsaved \union {rec[b][q].val : q \in Gone(known)}
    BY DEF abandonPendingAnswers
<1>2. rec' = [rec EXCEPT ![b] = u] /\ box' = [box EXCEPT ![b] = x]
    BY DEF abandonPendingAnswers
<1>3. /\ u \in Records
      /\ \A q \in Questions : /\ u[q].seq = rec[b][q].seq /\ u[q].val = rec[b][q].val
                              /\ u[q].pending = FALSE
    <2>1. ASSUME NEW r \in Record
          PROVE  /\ [r EXCEPT !.pending = FALSE, !.parked = FALSE] \in Record
                 /\ [r EXCEPT !.pending = FALSE, !.parked = FALSE].seq = r.seq
                 /\ [r EXCEPT !.pending = FALSE, !.parked = FALSE].val = r.val
                 /\ [r EXCEPT !.pending = FALSE, !.parked = FALSE].pending = FALSE
        BY DEF Record
    <2>2. \A q \in Questions : rec[b][q] \in Record
        BY BoxFacts DEF Records
    <2> QED BY <2>1, <2>2 DEF Records
<1>4. x \in Box /\ x.index = {} /\ x.parked = {}
    BY BoxFacts DEF Box
<1> HIDE DEF u, x
<1>5. Follows(rec[b], u)
    BY <1>3, BoxFacts DEF Follows, Records, Record
<1>6. Indexed(u, x)
    BY <1>3, <1>4 DEF Indexed
<1>7. Saved(u, server, unsaved')
    <2> SUFFICES ASSUME NEW q \in Questions, u[q].seq > 0
                 PROVE  server[q].seq >= u[q].seq \/ u[q].val \in unsaved'
        BY DEF Saved
    <2>1. rec[b][q].seq \in Nat /\ server[q].seq \in Nat
        BY BoxFacts DEF AInv, Types, Records, Record, Rows, Row
    <2>2. CASE q \in Gone(known)
        BY <1>1, <1>3, <2>2
    <2>3. CASE ~rec[b][q].pending
        BY <1>1, <1>3, <2>3, BoxFacts DEF Saved
    <2>4. CASE rec[b][q].pending /\ q \notin Gone(known)
        BY <1>3, <2>1, <2>4
    <2> QED BY <2>2, <2>3, <2>4
<1>8. unsaved \subseteq unsaved'
    BY <1>1
<1> QED BY <1>2, <1>3, <1>4, <1>5, <1>6, <1>7, <1>8, OneDevice

-----------------------------------------------------------------------------
(***************************************************************************)
(* The steps.                                                              *)
(***************************************************************************)

(* A step that leaves the server's table alone keeps the invariant when    *)
(* the records move on and what it has under way was held before it.       *)
LEMMA StepKeeps ==
    ASSUME AInv, Types', RecordsMove, server' = server,
           \A c \in Browsers : Way(pass'[c], rec[c], server),
           \A c \in Browsers : Sent(dto'[c], restore'[c], server),
           \A r \in net' : r.b \in Browsers /\ Held(rec[r.b], r.item)
    PROVE  AInv'
<1>1. \A c \in Browsers : rec[c] \in Records /\ rec'[c] \in Records /\ pass'[c] \in Pass
    BY DEF AInv, Types
<1>2. \A c \in Browsers : Follows(rec[c], rec'[c])
    BY DEF RecordsMove
<1>3. server \in Rows /\ MovedOn(server, server)
    BY DEF AInv, Types, MovedOn, Rows, Row
<1>4. OnTheWay'
    BY <1>1, <1>2, <1>3, WayStays DEF OnTheWay
<1>5. InTheNet'
    BY <1>1, <1>2, HeldStays DEF InTheNet
<1>6. Copies'
    BY DEF Copies
<1>7. Stored'
    BY DEF Stored, RecordsMove
<1> QED BY <1>4, <1>5, <1>6, <1>7 DEF AInv

(* What StepKeeps asks of what a step leaves alone.                        *)
LEMMA AsItWas ==
    ASSUME AInv
    PROVE  /\ \A c \in Browsers : Way(pass[c], rec[c], server)
           /\ \A c \in Browsers : Sent(dto[c], restore[c], server)
           /\ \A r \in net : r.b \in Browsers /\ Held(rec[r.b], r.item)
BY DEF AInv, OnTheWay, Copies, InTheNet

(* Nothing but the candidate's typing and what a page knows changes.       *)
LEMMA PageOnly ==
    ASSUME AInv, Types', UNCHANGED <<server, rec, box, unsaved, pass, net, dto, restore>>
    PROVE  AInv'
BY NothingMoves, StepKeeps, AsItWas

(* The records move and nothing else that the invariant speaks of.         *)
LEMMA RecordsOnly ==
    ASSUME AInv, Types', RecordsMove, UNCHANGED <<server, pass, net, dto, restore>>
    PROVE  AInv'
BY StepKeeps, AsItWas

(* In the initial state nothing is stored, sent or under way.              *)
LEMMA InitInv == Init => AInv
<1> SUFFICES ASSUME Init PROVE AInv
    OBVIOUS
<1>0. 0 \in Vals /\ 0 \in Nat
    BY AnswerAssumption DEF Vals
<1>1. NoRow \in Row /\ NoRecord \in Record /\ NoRecord.seq = 0 /\ NoRecord.pending = FALSE
    BY <1>0 DEF NoRow, NoRecord, Row, Record, Vals
<1>2. server \in Rows /\ rec \in [Browsers -> Records]
    BY <1>1 DEF Init, Rows, Records
<1>3. page \in [Browsers -> Page]
    <2>1. Cardinality(Browsers) \in Nat
        BY AnswerAssumption, FS_CardinalityType
    <2>2. PICK f \in [Browsers -> 1..Cardinality(Browsers)] :
               page = [b \in Browsers |-> [inst |-> f[b], verified |-> FALSE, fatal |-> FALSE,
                                           served |-> FALSE, open |-> FALSE, seq |-> 0]]
        BY DEF Init
    <2>3. \A b \in Browsers : f[b] \in Nat
        BY <2>1, <2>2
    <2> QED BY <1>0, <2>2, <2>3 DEF Page
<1>4. loads \in Nat
    BY AnswerAssumption, FS_CardinalityType DEF Init
<1>5. IdlePass \in Pass /\ NoRestore \in Restore
    BY DEF IdlePass, Pass, Replies, NoRestore, Restore
<1>6. Types
    <2>1. edits \in Vals /\ dirty \in [Browsers -> [Questions -> Vals]]
        BY <1>0 DEF Init
    <2>2. writes \in [Browsers -> Seq(Item)] /\ box \in [Browsers -> Box]
        BY DEF Init, Box
    <2>3. pass \in [Browsers -> Pass] /\ dto \in [Browsers -> Rows \union {NoTable}]
          /\ restore \in [Browsers -> Restore]
        BY <1>5 DEF Init
    <2> QED BY <1>2, <1>3, <1>4, <2>1, <2>2, <2>3 DEF Types
<1>7. OnTheWay
    BY DEF Init, OnTheWay, Way, IdlePass
<1>8. InTheNet
    BY DEF Init, InTheNet
<1>9. Copies
    BY DEF Init, Copies, Sent, OldCopy, NoRestore
<1>10. Stored
    BY <1>1 DEF Init, Stored, Indexed, Saved
<1> QED BY <1>6, <1>7, <1>8, <1>9, <1>10 DEF AInv

(* AnswerStore.set.                                                        *)
LEMMA SetKeeps ==
    ASSUME AInv, NEW b \in Browsers, NEW q \in Questions, set(b, q)
    PROVE  AInv'
<1>1. edits + 1 \in Vals
    BY AnswerAssumption DEF AInv, Types, Vals, set
<1>2. Types'
    BY <1>1 DEF AInv, Types, set, serverVars
<1> QED BY <1>2, PageOnly DEF set, serverVars

(* AnswerStore.persist.                                                    *)
LEMMA PersistKeeps ==
    ASSUME AInv, NEW b \in Browsers, NEW q \in Questions, persist(b, q)
    PROVE  AInv'
<1> DEFINE w == [q |-> q, val |-> dirty[b][q], seq |-> page[b].seq + 1]
<1>1. page[b] \in Page /\ page[b].seq \in Nat /\ dirty[b][q] \in Vals
    BY DEF AInv, Types, Page
<1>2. w \in Item
    BY <1>1 DEF Item, Vals
<1>3. writes' \in [Browsers -> Seq(Item)]
    <2> HIDE DEF w
    <2>1. writes' = [writes EXCEPT ![b] = Append(@, w)]
        BY DEF persist, w
    <2> QED BY <1>2, <2>1 DEF AInv, Types
<1>4. page' \in [Browsers -> Page]
    <2>1. page' = [page EXCEPT ![b] = [page[b] EXCEPT !.seq = page[b].seq + 1]]
        BY DEF persist
    <2>2. [page[b] EXCEPT !.seq = page[b].seq + 1] \in Page
        BY <1>1 DEF Page
    <2> QED BY <2>1, <2>2 DEF AInv, Types
<1>5. dirty' \in [Browsers -> [Questions -> Vals]]
    BY AnswerAssumption DEF AInv, Types, persist, Vals
<1>6. Types'
    BY <1>3, <1>4, <1>5 DEF AInv, Types, persist, serverVars
<1> QED BY <1>6, PageOnly DEF persist, serverVars

(* The save reaches the outbox.                                            *)
LEMMA WriteLandsKeeps ==
    ASSUME AInv, NEW b \in Browsers, WriteLands(b)
    PROVE  AInv'
<1>1. writes[b] \in Seq(Item) /\ writes[b] # <<>>
    BY DEF AInv, Types, WriteLands
<1>2. Head(writes[b]) \in Item /\ Tail(writes[b]) \in Seq(Item)
    BY <1>1
<1> DEFINE w == Head(writes[b])
<1>3. w.q \in Questions /\ w.val \in Vals /\ w.seq \in Nat
    BY <1>2 DEF Item, Vals
<1>4. RecordsMove
    <2>1. putAnswer(b, w.q, w.val, w.seq) /\ unsaved' = unsaved
        BY DEF WriteLands
    <2> HIDE DEF w
    <2> QED BY <1>3, <2>1, PutMoves
<1>5. writes' \in [Browsers -> Seq(Item)]
    BY <1>2 DEF AInv, Types, WriteLands
<1>6. Types'
    BY <1>4, <1>5 DEF AInv, Types, RecordsMove, WriteLands, serverVars
<1> QED BY <1>4, <1>6, RecordsOnly DEF WriteLands, serverVars

(* A step of the pass of one device.                                       *)
LEMMA PassStep ==
    ASSUME AInv, NEW b \in Browsers, NEW p \in Pass, pass' = [pass EXCEPT ![b] = p],
           Way(p, rec[b], server)
    PROVE  pass' \in [Browsers -> Pass] /\ \A c \in Browsers : Way(pass'[c], rec[c], server)
<1>1. pass \in [Browsers -> Pass]
    BY DEF AInv, Types
<1>2. pass' \in [Browsers -> Pass]
    BY <1>1
<1>3. ASSUME NEW c \in Browsers PROVE Way(pass'[c], rec[c], server)
    <2>1. pass'[c] = IF c = b THEN p ELSE pass[c]
        BY <1>1
    <2> QED BY <2>1, AsItWas
<1> QED BY <1>2, <1>3

(* An idle pass has nothing under way.                                     *)
LEMMA IdleWay ==
    ASSUME NEW t, NEW s
    PROVE  IdlePass \in Pass /\ Way(IdlePass, t, s)
BY DEF IdlePass, Pass, Replies, Way

(* The rest of a pass is in order.                                         *)
LEMMA NextItemWay ==
    ASSUME AInv, NEW b \in Browsers
    PROVE  NextItem(b) \in Pass /\ Way(NextItem(b), rec[b], server)
<1>1. pass[b] \in Pass /\ Way(pass[b], rec[b], server)
    BY AsItWas DEF AInv, Types
<1>2. CASE pass[b].todo = {}
    BY <1>2, IdleWay DEF NextItem
<1>3. CASE pass[b].todo # {}
    <2> DEFINE p == [pass[b] EXCEPT !.cur = NoItem, !.reply = "none"]
    <2>1. p \in Pass /\ p.todo = pass[b].todo /\ p.cur = NoItem /\ p.reply = "none"
        BY <1>1 DEF Pass, Replies
    <2>2. NextItem(b) = p
        BY <1>3 DEF NextItem
    <2> HIDE DEF p
    <2>3. Way(p, rec[b], server)
        BY <1>1, <2>1 DEF Way
    <2> QED BY <2>1, <2>2, <2>3
<1> QED BY <1>2, <1>3

(* flushAnswers: the snapshots are of the records as they are.             *)
LEMMA FlushKeeps ==
    ASSUME AInv, NEW b \in Browsers, flushAnswers(b)
    PROVE  AInv'
<1> DEFINE Snap(q) == [q |-> q, seq |-> rec[b][q].seq, val |-> rec[b][q].val]
           T == {Snap(q) : q \in Deliverable(b)}
           p == [IdlePass EXCEPT !.on = TRUE, !.todo = T]
<1>1. ASSUME NEW q \in Questions
      PROVE  rec[b][q].pending => Snap(q) \in Item /\ Held(rec[b], Snap(q))
    <2>1. rec[b][q].seq \in Nat /\ rec[b][q].val \in Vals
        BY BoxFacts DEF Records, Record
    <2>2. Snap(q) \in Item
        BY <2>1 DEF Item, Vals
    <2>3. rec[b][q].pending => rec[b][q].seq > 0
        BY BoxFacts
    <2> QED BY <2>1, <2>2, <2>3 DEF Held
<1>2. T \subseteq Item /\ \A i \in T : Held(rec[b], i)
    BY <1>1 DEF Deliverable
<1>3. pass' = [pass EXCEPT ![b] = p]
    BY DEF flushAnswers
<1> HIDE DEF T
<1>4. p \in Pass /\ p.todo = T /\ p.cur = NoItem /\ p.reply = "none"
    BY <1>2 DEF Pass, IdlePass, Replies
<1> HIDE DEF p
<1>5. Way(p, rec[b], server)
    BY <1>2, <1>4 DEF Way
<1>6. pass' \in [Browsers -> Pass] /\ \A c \in Browsers : Way(pass'[c], rec[c], server)
    BY <1>3, <1>4, <1>5, PassStep
<1>7. Types'
    BY <1>6 DEF AInv, Types, flushAnswers, serverVars
<1>8. RecordsMove
    BY NothingMoves DEF flushAnswers
<1> QED BY <1>6, <1>7, <1>8, StepKeeps, AsItWas DEF flushAnswers, serverVars

(* The next snapshot is sent.                                              *)
LEMMA SendNextKeeps ==
    ASSUME AInv, NEW b \in Browsers, SendNext(b)
    PROVE  AInv'
<1>1. PICK i \in pass[b].todo :
          /\ pass' = [pass EXCEPT ![b] = [pass[b] EXCEPT !.todo = @ \ {i}, !.cur = i]]
          /\ net' = net \union {[b |-> b, inst |-> page[b].inst, item |-> i]}
    BY DEF SendNext
<1>2. pass[b] \in Pass /\ Way(pass[b], rec[b], server) /\ pass \in [Browsers -> Pass]
    BY AsItWas DEF AInv, Types
<1>3. Held(rec[b], i) /\ i \in Item
    BY <1>1, <1>2 DEF Way, Held
<1> DEFINE p == [pass[b] EXCEPT !.todo = @ \ {i}, !.cur = i]
<1>4. pass' = [pass EXCEPT ![b] = p]
    BY <1>1
<1>5. p \in Pass /\ p.todo = pass[b].todo \ {i} /\ p.cur = i /\ p.reply = pass[b].reply
    BY <1>2, <1>3 DEF Pass
<1> HIDE DEF p
<1>6. Way(p, rec[b], server)
    <2>1. i # NoItem
        BY <1>3 DEF Held, NoItem
    <2>2. pass[b].reply = "none"
        BY <1>2 DEF SendNext, Way
    <2> QED BY <1>2, <1>3, <1>5, <2>1, <2>2 DEF Way
<1>7. pass' \in [Browsers -> Pass] /\ \A c \in Browsers : Way(pass'[c], rec[c], server)
    BY <1>4, <1>5, <1>6, PassStep
<1>8. Types'
    BY <1>7 DEF AInv, Types, SendNext, serverVars
<1>9. RecordsMove
    BY NothingMoves DEF SendNext
<1>10. \A r \in net' : r.b \in Browsers /\ Held(rec[r.b], r.item)
    BY <1>1, <1>3, AsItWas
<1> QED BY <1>7, <1>8, <1>9, <1>10, StepKeeps, AsItWas DEF SendNext, serverVars

(* saveAnswer on the server: the table moves on, and a page that is told   *)
(* "ok" is told so of a version the table has by then.                     *)
LEMMA SaveAnswerKeeps ==
    ASSUME AInv, NEW r \in net, saveAnswer(r)
    PROVE  AInv'
<1> DEFINE q == r.item.q
           new == StoredRow(r)
<1>1. r.b \in Browsers /\ Held(rec[r.b], r.item) /\ r.item \in Item
    BY AsItWas DEF Held
<1>2. q \in Questions /\ r.item.seq \in Nat /\ r.item.val \in 0..MaxEdits
    BY <1>1 DEF Item
<1>3. server \in Rows /\ server[q] \in Row /\ server[q].seq \in Nat
    BY <1>2 DEF AInv, Types, Rows, Row
<1>4. /\ new \in Row /\ server[q].seq <= new.seq
      /\ Verdict(r) = "ok" => r.item.seq <= new.seq
    BY <1>2, <1>3 DEF StoredRow, Row
<1>5. server' = [server EXCEPT ![q] = new]
    BY DEF saveAnswer
<1> HIDE DEF new
<1>6. server' \in Rows /\ server'[q] = new
    BY <1>2, <1>3, <1>4, <1>5 DEF Rows
<1>7. MovedOn(server, server')
    BY <1>3, <1>4, <1>5 DEF MovedOn, Rows, Row
<1>8. \A c \in Browsers : /\ rec[c] \in Records /\ pass[c] \in Pass /\ restore[c] \in Restore
                          /\ Way(pass[c], rec[c], server) /\ Sent(dto[c], restore[c], server)
                          /\ Indexed(rec[c], box[c]) /\ Saved(rec[c], server, unsaved)
    BY AsItWas DEF AInv, Types, Stored
<1>9. \A c \in Browsers : Way(pass[c], rec[c], server')
    BY <1>3, <1>6, <1>7, <1>8, FollowsItself, WayStays
<1>10. Verdict(r) \in Replies
    BY DEF Verdict, Replies
<1>11. pass' \in [Browsers -> Pass] /\ OnTheWay'
    <2>1. CASE ~Awaits(r)
        BY <1>9, <2>1 DEF saveAnswer, OnTheWay, AInv, Types
    <2>2. CASE Awaits(r)
        <3> DEFINE p == [pass[r.b] EXCEPT !.reply = Verdict(r)]
        <3>1. pass' = [pass EXCEPT ![r.b] = p]
            BY <2>2 DEF saveAnswer
        <3>2. p \in Pass /\ p.todo = pass[r.b].todo /\ p.cur = pass[r.b].cur /\ p.reply = Verdict(r)
            BY <1>1, <1>8, <1>10 DEF Pass
        <3>3. p.cur = r.item /\ p.cur # NoItem
            BY <1>1, <2>2, <3>2 DEF Awaits, Held, NoItem
        <3> HIDE DEF p
        <3>4. Way(p, rec[r.b], server')
            BY <1>1, <1>4, <1>6, <1>9, <3>2, <3>3 DEF Way
        <3>5. pass \in [Browsers -> Pass]
            BY DEF AInv, Types
        <3>6. \A c \in Browsers : pass'[c] = IF c = r.b THEN p ELSE pass[c]
            BY <1>1, <3>1, <3>5
        <3>7. rec' = rec
            BY DEF saveAnswer
        <3>8. OnTheWay'
            BY <1>9, <3>4, <3>6, <3>7 DEF OnTheWay
        <3> QED BY <3>1, <3>2, <3>5, <3>8
    <2> QED BY <2>1, <2>2
<1>12. Types'
    BY <1>6, <1>11 DEF AInv, Types, saveAnswer
<1>13. InTheNet'
    BY AsItWas DEF InTheNet, saveAnswer
<1>14. \A c \in Browsers : Sent(dto[c], restore[c], server')
    BY <1>3, <1>6, <1>7, <1>8, SentStays
<1>15. Copies'
    BY <1>14 DEF Copies, saveAnswer
<1>16. \A c \in Browsers : Saved(rec[c], server', unsaved)
    BY <1>3, <1>6, <1>7, <1>8, SavedStays
<1>17. Stored'
    BY <1>8, <1>16 DEF Stored, saveAnswer
<1> QED BY <1>11, <1>12, <1>13, <1>15, <1>17 DEF AInv

(* No reply in time.                                                       *)
LEMMA TimedOutKeeps ==
    ASSUME AInv, NEW b \in Browsers, TimedOut(b)
    PROVE  AInv'
<1>1. pass' \in [Browsers -> Pass] /\ \A c \in Browsers : Way(pass'[c], rec[c], server)
    BY IdleWay, PassStep DEF TimedOut
<1>2. Types'
    BY <1>1 DEF AInv, Types, TimedOut, serverVars
<1>3. RecordsMove
    BY NothingMoves DEF TimedOut
<1> QED BY <1>1, <1>2, <1>3, StepKeeps, AsItWas DEF TimedOut, serverVars

(* What a reply is about.                                                  *)
LEMMA ReplyIsOfHeld ==
    ASSUME AInv, NEW b \in Browsers, pass[b].reply # "none"
    PROVE  /\ Held(rec[b], pass[b].cur)
           /\ pass[b].reply = "ok" => pass[b].cur.seq <= server[pass[b].cur.q].seq
BY AsItWas DEF Way

(* The pass goes on after the records moved.                               *)
LEMMA PassGoesOn ==
    ASSUME AInv, NEW b \in Browsers, RecordsMove, pass' = [pass EXCEPT ![b] = NextItem(b)],
           UNCHANGED <<edits, loads, server, page, dirty, writes, net, dto, restore>>
    PROVE  AInv'
<1>1. pass' \in [Browsers -> Pass] /\ \A c \in Browsers : Way(pass'[c], rec[c], server)
    BY NextItemWay, PassStep
<1>2. Types'
    BY <1>1 DEF AInv, Types, RecordsMove
<1> QED BY <1>1, <1>2, StepKeeps, AsItWas

(* The answer is delivered.                                                *)
LEMMA DeliveredKeeps ==
    ASSUME AInv, NEW b \in Browsers, Delivered(b)
    PROVE  AInv'
<1>1. RecordsMove
    BY ReplyIsOfHeld, SettleMoves DEF Delivered
<1> QED BY <1>1, PassGoesOn DEF Delivered, serverVars

(* The answer is parked.                                                   *)
LEMMA RefusedWhilePausedKeeps ==
    ASSUME AInv, NEW b \in Browsers, RefusedWhilePaused(b)
    PROVE  AInv'
<1>1. RecordsMove
    BY ReplyIsOfHeld, ParkMoves DEF RefusedWhilePaused
<1> QED BY <1>1, PassGoesOn DEF RefusedWhilePaused, serverVars

(* The answer is reported as not saved.                                    *)
LEMMA RefusedForGoodKeeps ==
    ASSUME AInv, NEW b \in Browsers, RefusedForGood(b)
    PROVE  AInv'
<1>1. pass[b].cur.val \in unsaved' /\ unsaved \subseteq unsaved'
    BY DEF RefusedForGood
<1>2. RecordsMove
    BY <1>1, ReplyIsOfHeld, SettleMoves DEF RefusedForGood
<1> QED BY <1>2, PassGoesOn DEF RefusedForGood, serverVars

(* Pages keep their type when some of their flags change.                  *)
LEMMA PageFlags ==
    ASSUME NEW p \in Page, NEW v \in BOOLEAN
    PROVE  /\ [p EXCEPT !.fatal = v] \in Page
           /\ [p EXCEPT !.served = v] \in Page
           /\ [p EXCEPT !.open = v] \in Page
BY DEF Page

(* The page stops reporting.                                               *)
LEMMA SupersededKeeps ==
    ASSUME AInv, NEW b \in Browsers, Superseded(b)
    PROVE  AInv'
<1>1. pass' \in [Browsers -> Pass] /\ \A c \in Browsers : Way(pass'[c], rec[c], server)
    BY IdleWay, PassStep DEF Superseded
<1>2. page' \in [Browsers -> Page]
    BY PageFlags DEF AInv, Types, Superseded
<1>3. Types'
    BY <1>1, <1>2 DEF AInv, Types, Superseded, serverVars
<1>4. RecordsMove
    BY NothingMoves DEF Superseded
<1> QED BY <1>1, <1>3, <1>4, StepKeeps, AsItWas DEF Superseded, serverVars

(* A change of the session's status alone.                                 *)
LEMMA StatusKeeps ==
    ASSUME AInv, UNCHANGED <<edits, loads, server, rec, page, dirty, writes, box, pass, net, dto,
                             restore, unsaved>>
    PROVE  AInv'
<1>1. Types'
    BY DEF AInv, Types
<1> QED BY <1>1, PageOnly

(* A page is sent the server's table.                                      *)
LEMMA DtoKeeps ==
    ASSUME AInv, NEW b \in Browsers, dto' = [dto EXCEPT ![b] = server], net' \subseteq net,
           UNCHANGED <<edits, loads, server, rec, page, dirty, writes, box, pass, restore, unsaved>>
    PROVE  AInv'
<1>1. dto \in [Browsers -> Rows \union {NoTable}] /\ server \in Rows
    BY DEF AInv, Types
<1>2. dto' \in [Browsers -> Rows \union {NoTable}]
    BY <1>1
<1>3. OldCopy(server, Questions, server)
    BY <1>1 DEF OldCopy, Rows, Row
<1>4. \A c \in Browsers : Sent(dto'[c], restore'[c], server)
    BY <1>1, <1>3, AsItWas DEF Sent
<1>5. Types'
    BY <1>2 DEF AInv, Types
<1>6. RecordsMove
    BY NothingMoves
<1> QED BY <1>4, <1>5, <1>6, StepKeeps, AsItWas

(* The page learns that the exam is not active.                            *)
LEMMA LearnPausedKeeps ==
    ASSUME AInv, NEW b \in Browsers, LearnPaused(b)
    PROVE  AInv'
<1>1. page' \in [Browsers -> Page]
    BY PageFlags DEF AInv, Types, LearnPaused
<1>2. Types'
    BY <1>1 DEF AInv, Types, LearnPaused, serverVars
<1> QED BY <1>2, PageOnly DEF LearnPaused, serverVars

(* Parked answers are tried again.                                         *)
LEMMA ResumeKeeps ==
    ASSUME AInv, NEW b \in Browsers, resumeAnswers(b),
           UNCHANGED <<edits, loads, server, page, dirty, writes, pass, net, dto, restore, unsaved>>
    PROVE  AInv'
<1>1. RecordsMove
    BY ResumeMoves
<1>2. Types'
    BY <1>1 DEF AInv, Types, RecordsMove
<1> QED BY <1>1, <1>2, RecordsOnly

(* The page applies the state it was sent: a restore starts from the       *)
(* device's records and the server's rows as they were sent.               *)
LEMMA ApplyKeeps ==
    ASSUME AInv, NEW b \in Browsers, apply(b)
    PROVE  AInv'
<1> DEFINE n == Max({page[b].seq} \union {rec[b][q].seq : q \in Questions}
                                  \union {dto[b][q].seq : q \in Questions})
           p == [page[b] EXCEPT !.verified = TRUE, !.served = TRUE, !.seq = n]
           new == [on |-> TRUE, left |-> Questions, local |-> rec[b], server |-> dto[b]]
<1>1. /\ page \in [Browsers -> Page] /\ page[b] \in Page /\ page[b].seq \in Nat
      /\ rec[b] \in Records /\ dto[b] \in Rows
      /\ dto \in [Browsers -> Rows \union {NoTable}] /\ restore \in [Browsers -> Restore]
    BY DEF AInv, Types, apply, Page
<1>2. n \in Nat
    BY <1>1, CounterIsNumber
<1>3. page' = [page EXCEPT ![b] = p]
    BY DEF apply
<1> HIDE DEF n
<1>4. p \in Page
    BY <1>1, <1>2 DEF Page
<1> HIDE DEF p
<1>5. new \in Restore
    BY <1>1 DEF Restore
<1>6. Sent(NoTable, new, server)
    <2>1. OldCopy(dto[b], Questions, server)
        BY AsItWas DEF Sent, apply
    <2>2. \A q \in Questions : rec[b][q] \in Record
        BY <1>1 DEF Records
    <2> QED BY <2>1, <2>2 DEF Sent
<1>7. dto' = [dto EXCEPT ![b] = NoTable] /\ restore' = [restore EXCEPT ![b] = new]
    BY DEF apply
<1> HIDE DEF new
<1>8. \A c \in Browsers : Sent(dto'[c], restore'[c], server)
    BY <1>1, <1>6, <1>7, AsItWas
<1>9. Types'
    <2>1. page' \in [Browsers -> Page] /\ dto' \in [Browsers -> Rows \union {NoTable}]
          /\ restore' \in [Browsers -> Restore]
        BY <1>1, <1>3, <1>4, <1>5, <1>7
    <2> QED BY <2>1 DEF AInv, Types, apply, serverVars
<1>10. RecordsMove
    BY NothingMoves DEF apply
<1> QED BY <1>8, <1>9, <1>10, StepKeeps, AsItWas DEF apply, serverVars

(* What a restore step does to the restore itself.                         *)
LEMMA RestoreShrinks ==
    ASSUME AInv, NEW b \in Browsers, NEW q \in restore[b].left,
           restore' = [restore EXCEPT ![b].left = @ \ {q}], dto' = dto
    PROVE  /\ restore' \in [Browsers -> Restore]
           /\ \A c \in Browsers : Sent(dto'[c], restore'[c], server)
<1> DEFINE new == [restore[b] EXCEPT !.left = @ \ {q}]
<1>1. restore \in [Browsers -> Restore] /\ restore[b] \in Restore
    BY DEF AInv, Types
<1>2. /\ new \in Restore /\ new.left = restore[b].left \ {q}
      /\ new.local = restore[b].local /\ new.server = restore[b].server
    BY <1>1 DEF Restore
<1>3. restore' = [restore EXCEPT ![b] = new]
    OBVIOUS
<1> HIDE DEF new
<1>4. Sent(dto[b], restore[b], server)
    BY AsItWas
<1>5. Sent(dto[b], new, server)
    BY <1>2, <1>4 DEF Sent, OldCopy
<1> QED BY <1>1, <1>2, <1>3, <1>5, AsItWas

(* One question of a restore.                                              *)
LEMMA RestoreQuestionKeeps ==
    ASSUME AInv, NEW b \in Browsers, NEW q \in Questions, RestoreQuestion(b, q)
    PROVE  AInv'
<1> DEFINE l == restore[b].local[q]
           s == restore[b].server[q]
<1>1. q \in restore[b].left /\ restore' = [restore EXCEPT ![b].left = @ \ {q}] /\ dto' = dto
    BY DEF RestoreQuestion
<1>2. /\ restore' \in [Browsers -> Restore]
      /\ \A c \in Browsers : Sent(dto'[c], restore'[c], server)
    BY <1>1, RestoreShrinks
<1>3. l \in Record /\ s \in Row /\ s.seq <= server[q].seq
    BY <1>1, AsItWas DEF Sent, OldCopy
<1>4. /\ unsaved' = unsaved /\ server' = server /\ pass' = pass /\ net' = net
      /\ edits' = edits /\ loads' = loads /\ dirty' = dirty /\ writes' = writes
    BY DEF RestoreQuestion, serverVars
<1>5. page \in [Browsers -> Page] /\ page[b] \in Page /\ page[b].seq \in Nat
    BY DEF AInv, Types, Page
<1>6. RecordsMove /\ page' \in [Browsers -> Page]
    <2>1. CASE putAnswer(b, q, l.val, page[b].seq + 1) /\ page' = [page EXCEPT ![b].seq = @ + 1]
        <3>1. l.val \in Vals /\ page[b].seq + 1 \in Nat
            BY <1>3, <1>5 DEF Record
        <3>2. page' = [page EXCEPT ![b] = [page[b] EXCEPT !.seq = page[b].seq + 1]]
            BY <2>1
        <3>3. [page[b] EXCEPT !.seq = page[b].seq + 1] \in Page
            BY <1>5 DEF Page
        <3>4. RecordsMove
            <4> HIDE DEF l
            <4> QED BY <1>4, <2>1, <3>1, PutMoves
        <3> QED BY <1>5, <3>2, <3>3, <3>4
    <2>2. CASE UNCHANGED <<rec, box, page>>
        BY <1>4, <1>5, <2>2, NothingMoves
    <2>3. CASE rememberDeliveredAnswer(b, q, s) /\ page' = page
        <3> HIDE DEF s
        <3> QED BY <1>3, <1>4, <1>5, <2>3, RememberMoves
    <2> QED BY <2>1, <2>2, <2>3 DEF RestoreQuestion
<1>7. Types'
    BY <1>1, <1>2, <1>4, <1>6 DEF AInv, Types, RecordsMove
<1> QED BY <1>2, <1>4, <1>6, <1>7, StepKeeps, AsItWas

(* The restore is over.                                                    *)
LEMMA RestoreDoneKeeps ==
    ASSUME AInv, NEW b \in Browsers, RestoreDone(b)
    PROVE  AInv'
<1>1. RecordsMove
    BY ResumeMoves DEF RestoreDone
<1>2. page' \in [Browsers -> Page]
    BY PageFlags DEF AInv, Types, RestoreDone
<1>3. NoRestore \in Restore /\ NoRestore.left = {}
    BY DEF NoRestore, Restore
<1>4. restore' \in [Browsers -> Restore]
    BY <1>3 DEF AInv, Types, RestoreDone
<1>5. \A c \in Browsers : Sent(dto'[c], restore'[c], server)
    <2>1. restore' = [restore EXCEPT ![b] = NoRestore] /\ dto' = dto
          /\ restore \in [Browsers -> Restore]
        BY DEF RestoreDone, AInv, Types
    <2>2. Sent(dto[b], NoRestore, server)
        BY <1>3, AsItWas DEF Sent, OldCopy
    <2> QED BY <2>1, <2>2, AsItWas
<1>6. Types'
    BY <1>1, <1>2, <1>4 DEF AInv, Types, RecordsMove, RestoreDone, serverVars
<1> QED BY <1>1, <1>5, <1>6, StepKeeps, AsItWas DEF RestoreDone, serverVars

(* A new page on the browser: the index is rebuilt from the records.       *)
LEMMA ReloadKeeps ==
    ASSUME AInv, NEW b \in Browsers, Reload(b)
    PROVE  AInv'
<1> DEFINE x == [index |-> {q \in Questions : rec[b][q].pending},
                 parked |-> {q \in Questions : rec[b][q].pending /\ rec[b][q].parked}]
           p == [inst |-> loads + 1, verified |-> FALSE, fatal |-> FALSE,
                 served |-> FALSE, open |-> FALSE, seq |-> 0]
<1>1. RecordsMove
    <2>1. rec' = [rec EXCEPT ![b] = rec[b]] /\ box' = [box EXCEPT ![b] = x] /\ unsaved' = unsaved
        BY BoxFacts DEF Reload
    <2>2. x \in Box /\ Indexed(rec[b], x)
        BY BoxFacts DEF Box, Indexed
    <2> HIDE DEF x
    <2> QED BY <2>1, <2>2, BoxFacts, FollowsItself, OneDevice
<1>2. loads + 1 \in Nat /\ loads' = loads + 1
    BY DEF AInv, Types, Reload
<1>3. p \in Page
    BY <1>2 DEF Page
<1>4. page' \in [Browsers -> Page]
    BY <1>3 DEF AInv, Types, Reload
<1>5. pass' \in [Browsers -> Pass] /\ \A c \in Browsers : Way(pass'[c], rec[c], server)
    BY IdleWay, PassStep DEF Reload
<1>6. dirty' \in [Browsers -> [Questions -> Vals]] /\ writes' \in [Browsers -> Seq(Item)]
    BY AnswerAssumption DEF AInv, Types, Reload, Vals
<1>7. NoRestore \in Restore /\ Sent(NoTable, NoRestore, server)
    BY DEF NoRestore, Restore, Sent, OldCopy
<1>8. /\ dto' \in [Browsers -> Rows \union {NoTable}] /\ restore' \in [Browsers -> Restore]
      /\ \A c \in Browsers : Sent(dto'[c], restore'[c], server)
    BY <1>7, AsItWas DEF AInv, Types, Reload
<1>9. Types'
    <2>1. edits' = edits /\ server' = server
        BY DEF Reload, serverVars
    <2> QED BY <1>1, <1>2, <1>4, <1>5, <1>6, <1>8, <2>1 DEF AInv, Types, RecordsMove
<1>10. \A r \in net' : r.b \in Browsers /\ Held(rec[r.b], r.item)
    BY AsItWas DEF Reload
<1>11. server' = server
    BY DEF Reload, serverVars
<1> QED BY <1>1, <1>5, <1>8, <1>9, <1>10, <1>11, StepKeeps

(* The page gives up on its pending answers.                               *)
LEMMA AbandonKeeps ==
    ASSUME AInv, NEW b \in Browsers, abandonPendingAnswers(b)
    PROVE  AInv'
<1>1. RecordsMove
    BY AbandonMoves
<1>2. Types'
    BY <1>1 DEF AInv, Types, RecordsMove, abandonPendingAnswers, serverVars
<1> QED BY <1>1, <1>2, RecordsOnly DEF abandonPendingAnswers, serverVars

(* Every step keeps the invariant.                                         *)
LEMMA NextInv == AInv /\ [Next]_vars => AInv'
<1> SUFFICES ASSUME AInv, [Next]_vars PROVE AInv'
    OBVIOUS
<1>1. CASE UNCHANGED vars
    BY <1>1, StatusKeeps DEF vars
<1>2. ASSUME NEW r \in net, saveAnswer(r) PROVE AInv'
    BY <1>2, SaveAnswerKeeps
<1>3. CASE Pause \/ Release \/ End
    BY <1>3, StatusKeeps DEF Pause, Release, End
<1>4. ASSUME NEW b \in Browsers, PageStep(b) PROVE AInv'
    <2>1. ASSUME NEW q \in Questions, set(b, q) \/ persist(b, q) \/ RestoreQuestion(b, q)
          PROVE  AInv'
        BY <2>1, SetKeeps, PersistKeeps, RestoreQuestionKeeps
    <2>2. CASE WriteLands(b) \/ flushAnswers(b) \/ SendNext(b) \/ TimedOut(b)
        BY <2>2, WriteLandsKeeps, FlushKeeps, SendNextKeeps, TimedOutKeeps
    <2>3. CASE Delivered(b) \/ RefusedWhilePaused(b) \/ RefusedForGood(b) \/ Superseded(b)
        BY <2>3, DeliveredKeeps, RefusedWhilePausedKeeps, RefusedForGoodKeeps, SupersededKeeps
    <2>4. CASE CheckPassed(b)
        BY <2>4, DtoKeeps DEF CheckPassed
    <2>5. CASE load(b)
        BY <2>5, DtoKeeps DEF load, serverVars
    <2>6. CASE LearnPaused(b) \/ apply(b) \/ RestoreDone(b) \/ Reload(b) \/ abandonPendingAnswers(b)
        BY <2>6, LearnPausedKeeps, ApplyKeeps, RestoreDoneKeeps, ReloadKeeps, AbandonKeeps
    <2>7. CASE HeartbeatActive(b)
        BY <2>7, ResumeKeeps DEF HeartbeatActive, serverVars
    <2>8. CASE LearnEnded(b)
        BY <2>8, ResumeKeeps DEF LearnEnded, serverVars
    <2>9. CASE submit(b)
        BY <2>9, StatusKeeps DEF submit
    <2> QED BY <1>4, <2>1, <2>2, <2>3, <2>4, <2>5, <2>6, <2>7, <2>8, <2>9 DEF PageStep
<1> QED BY <1>1, <1>2, <1>3, <1>4 DEF Next

(* The invariant holds throughout.                                         *)
LEMMA AlwaysInv == Spec => []AInv
BY InitInv, NextInv, PTL DEF Spec

-----------------------------------------------------------------------------

(* An answer that counts as delivered on the device is on the server, in   *)
(* this or a later version, or the page reported it as not saved: however  *)
(* replies, reloads, other devices, pauses and restores interleave         *)
(* (outbox.ts settleAnswer, rememberDeliveredAnswer,                       *)
(* abandonPendingAnswers).                                                 *)
THEOREM DeliveredIsSaved == Spec => []SettledMeansSaved
<1>1. AInv => SettledMeansSaved
    BY DEF AInv, Stored, Saved, SettledMeansSaved
<1> QED BY <1>1, AlwaysInv, PTL

(* The index that the page shows and submit() waits for is exactly the     *)
(* stored pending answers (outbox.ts answerIndex).                         *)
THEOREM IndexIsExact == Spec => []IndexAgrees
<1>1. AInv => IndexAgrees
    BY DEF AInv, Stored, Indexed, IndexAgrees
<1> QED BY <1>1, AlwaysInv, PTL

(* submit() leaves nothing behind: what the submitting device has stored   *)
(* is on the server, in this or a later version, or was reported as not    *)
(* saved; nothing it has stored is still waiting.                          *)
SubmitLeavesNothing ==
    [][\A b \in Browsers : submit(b) =>
          \A q \in Questions : rec[b][q].seq > 0 =>
              /\ ~rec[b][q].pending
              /\ server[q].seq >= rec[b][q].seq \/ rec[b][q].val \in unsaved]_vars

(* submit() waits for the in-memory index only; that this is enough is     *)
(* what the index being exact is for.                                      *)
THEOREM SubmitIsComplete == Spec => SubmitLeavesNothing
<1>1. ASSUME AInv, NEW b \in Browsers, submit(b), NEW q \in Questions, rec[b][q].seq > 0
      PROVE  /\ ~rec[b][q].pending
             /\ server[q].seq >= rec[b][q].seq \/ rec[b][q].val \in unsaved
    <2>1. ~rec[b][q].pending
        BY <1>1, BoxFacts DEF submit
    <2> QED BY <1>1, <2>1, BoxFacts DEF Saved
<1>2. AInv => [\A b \in Browsers : submit(b) =>
                 \A q \in Questions : rec[b][q].seq > 0 =>
                    /\ ~rec[b][q].pending
                    /\ server[q].seq >= rec[b][q].seq \/ rec[b][q].val \in unsaved]_vars
    BY <1>1
<1> QED BY <1>2, AlwaysInv, PTL DEF SubmitLeavesNothing

-----------------------------------------------------------------------------
(***************************************************************************)
(* The order of the versions.  A version that has reached an outbox stays  *)
(* around for long: in records, snapshots, requests, the server's table    *)
(* and copies of it.  On one device the numbers follow the typing, but for *)
(* what a restore queued again.                                            *)
(***************************************************************************)

(* The row r is the version s of the value v.                              *)
Is(r, s, v) == r.seq = s /\ r.val = v

InRecords(q, s, v) == \E b \in Browsers : Is(rec[b][q], s, v)
InPass(q, s, v) == \E b \in Browsers : \E i \in pass[b].todo : i.q = q /\ Is(i, s, v)
InNet(q, s, v) == \E r \in net : r.item.q = q /\ Is(r.item, s, v)
OnServer(q, s, v) == Is(server[q], s, v)
InDto(q, s, v) == \E b \in Browsers : dto[b] # NoTable /\ Is(dto[b][q], s, v)
InRestore(q, s, v) ==
    \E b \in Browsers : /\ q \in restore[b].left
                        /\ Is(restore[b].local[q], s, v) \/ Is(restore[b].server[q], s, v)

(* It is around somewhere.                                                 *)
Around(q, s, v) ==
    \/ InRecords(q, s, v) \/ InPass(q, s, v) \/ InNet(q, s, v)
    \/ OnServer(q, s, v) \/ InDto(q, s, v) \/ InRestore(q, s, v)

(* The value v was typed before whatever device d has still to put into    *)
(* its outbox for q.                                                       *)
Behind(d, q, v) ==
    /\ \A k \in 1..Len(writes[d]) : writes[d][k].q = q => v <= writes[d][k].val
    /\ dirty[d][q] # 0 => v <= dirty[d][q]

(* A version that is around is one of an edit, with a number that the      *)
(* device it was typed on has reached.                                     *)
Fits(q, s, v) ==
    /\ s \in Nat /\ v \in 0..edits /\ (s > 0 <=> v > 0)
    /\ v > 0 => s <= rec[typedOn[v]][q].seq /\ Behind(typedOn[v], q, v)

(* What device b has still to put into its outbox was typed there, in this *)
(* order.                                                                  *)
Typed(t, b, v) == v \in 1..Len(t) /\ t[v] = b
Queue(b) ==
    /\ \A q \in Questions : dirty[b][q] # 0 => Typed(typedOn, b, dirty[b][q])
    /\ \A k \in 1..Len(writes[b]) :
          LET w == writes[b][k]
          IN  /\ w.seq > 0 /\ Typed(typedOn, b, w.val)
              /\ \A j \in k..Len(writes[b]) : writes[b][j].q = w.q => w.val <= writes[b][j].val
              /\ dirty[b][w.q] # 0 => w.val <= dirty[b][w.q]

(* What device b has of another device's typing it has from the server; so *)
(* no restore on b finds the server behind with it.                        *)
Foreign(b, r) == r.val > 0 /\ typedOn[r.val] # b
Known(b, q) ==
    /\ Foreign(b, rec[b][q]) =>
          /\ rec[b][q].seq <= server[q].seq
          /\ dto[b] # NoTable => rec[b][q].seq <= dto[b][q].seq
    /\ q \in restore[b].left =>
          /\ Foreign(b, restore[b].local[q]) => restore[b].local[q].seq <= restore[b].server[q].seq
          /\ dto[b] # NoTable => restore[b].server[q].seq <= dto[b][q].seq

Counted == edits \in Nat /\ typedOn \in Seq(Browsers) /\ Len(typedOn) = edits
Fitting == \A q \in Questions : \A s, v : Around(q, s, v) => Fits(q, s, v)
InOrder ==
    \A q \in Questions : \A s, v, t, u :
        Around(q, s, v) /\ Around(q, t, u) /\ s < t /\ u < v /\ typedOn[u] = typedOn[v] => u \in requeued

(* The invariant, next to AInv.                                            *)
Chronology ==
    /\ Counted /\ Fitting /\ InOrder
    /\ \A b \in Browsers : Queue(b) /\ \A q \in Questions : Known(b, q)

(* Edits are only added, and what was queued again stays so.               *)
Grows ==
    /\ Counted' /\ edits <= edits'
    /\ \A v \in 1..edits : typedOn'[v] = typedOn[v]
    /\ requeued \subseteq requeued'

(* So a version that is around is of an edit whose device stays known.     *)
LEMMA AroundFits ==
    ASSUME Chronology, Grows, NEW q \in Questions, NEW s, NEW v, Around(q, s, v)
    PROVE  /\ Fits(q, s, v)
           /\ v > 0 => v \in 1..edits /\ typedOn'[v] = typedOn[v] /\ typedOn[v] \in Browsers
<1>1. edits \in Nat /\ \A e \in 1..edits : typedOn[e] \in Browsers
    BY DEF Chronology, Counted
<1>2. Fits(q, s, v)
    BY DEF Chronology, Fitting
<1> QED BY <1>1, <1>2 DEF Fits, Grows

(* What was typed on a device stays typed there.                           *)
LEMMA TypedStays ==
    ASSUME Chronology, Grows, NEW b, NEW v, Typed(typedOn, b, v)
    PROVE  v \in 1..edits /\ Typed(typedOn', b, v)
BY DEF Chronology, Counted, Grows, Typed

(* A version arrives in the outbox of b with a number beyond all its       *)
(* others; if it was typed before one of those, it was queued again.       *)
Arrives(b, q, s, v) ==
    /\ v \in 1..edits /\ typedOn[v] = b
    /\ rec[b][q].seq < s /\ rec'[b][q].seq = s
    /\ Behind(b, q, v)'
    /\ \A t, u : Around(q, t, u) /\ u \in 1..edits /\ typedOn[u] = b /\ v < u => v \in requeued'

(* A step keeps the order when every version around after it was around    *)
(* before, or arrives.                                                     *)
LEMMA OrderKept ==
    ASSUME AInv, AInv', Chronology, Grows,
           \A q \in Questions : \A s, v :
               Around(q, s, v)' => Around(q, s, v) \/ \E b \in Browsers : Arrives(b, q, s, v),
           \A b \in Browsers : Follows(rec[b], rec'[b]),
           \A b \in Browsers, q \in Questions : \A v \in 1..edits : Behind(b, q, v) => Behind(b, q, v)',
           \A b \in Browsers : Queue(b)' /\ \A q \in Questions : Known(b, q)'
    PROVE  Chronology'
<1>1. edits \in Nat /\ \A v \in 1..edits : typedOn[v] \in Browsers
    BY DEF Chronology, Counted
<1>2. \A b \in Browsers, q \in Questions : rec[b][q].seq \in Nat /\ rec'[b][q].seq \in Nat
    BY DEF AInv, Types, Records, Record
<1>3. ASSUME NEW q \in Questions, NEW s, NEW v, Around(q, s, v)
      PROVE  Fits(q, s, v) /\ (v > 0 => v \in 1..edits /\ typedOn'[v] = typedOn[v])
    BY <1>3, AroundFits
<1>4. ASSUME NEW q \in Questions, NEW s, NEW v, NEW b \in Browsers, Arrives(b, q, s, v)
      PROVE  /\ s \in Nat /\ s > 0 /\ v \in 1..edits /\ v > 0
             /\ typedOn[v] = b /\ typedOn'[v] = b
             /\ rec[b][q].seq < s /\ rec'[b][q].seq = s
    BY <1>1, <1>2, <1>4 DEF Arrives, Grows
<1>5. Fitting'
    <2> SUFFICES ASSUME NEW q \in Questions, NEW s, NEW v, Around(q, s, v)'
                 PROVE  Fits(q, s, v)'
        BY DEF Fitting
    <2>1. CASE Around(q, s, v)
        <3>1. s \in Nat /\ v \in 0..edits' /\ (s > 0 <=> v > 0)
            BY <1>1, <1>3, <2>1 DEF Fits, Grows, Counted
        <3>2. ASSUME v > 0 PROVE s <= rec'[typedOn'[v]][q].seq /\ Behind(typedOn[v], q, v)'
            <4>1. v \in 1..edits /\ typedOn'[v] = typedOn[v] /\ typedOn[v] \in Browsers
                BY <1>1, <1>3, <2>1, <3>2
            <4>2. s <= rec[typedOn[v]][q].seq /\ Behind(typedOn[v], q, v)
                BY <1>3, <2>1, <3>2 DEF Fits
            <4>3. rec[typedOn[v]][q].seq <= rec'[typedOn[v]][q].seq
                BY <4>1 DEF Follows
            <4> QED BY <1>2, <3>1, <4>1, <4>2, <4>3
        <3>3. v > 0 => typedOn'[v] = typedOn[v]
            BY <1>3, <2>1
        <3> QED BY <3>1, <3>2, <3>3 DEF Fits, Behind
    <2>2. ASSUME NEW b \in Browsers, Arrives(b, q, s, v)
          PROVE  Fits(q, s, v)'
        <3>1. v \in 0..edits'
            BY <1>1, <1>4, <2>2 DEF Grows, Counted
        <3>2. Behind(b, q, v)'
            BY <2>2 DEF Arrives
        <3> QED BY <1>2, <1>4, <2>2, <3>1, <3>2 DEF Fits, Behind
    <2> QED BY <2>1, <2>2
<1>6. InOrder'
    <2> SUFFICES ASSUME NEW q \in Questions, NEW s, NEW v, NEW t, NEW u,
                        Around(q, s, v)', Around(q, t, u)', s < t, u < v, typedOn'[u] = typedOn'[v]
                 PROVE  u \in requeued'
        BY DEF InOrder
    <2>1. CASE Around(q, s, v) /\ Around(q, t, u)
        <3>1. u > 0 /\ v > 0
            BY <1>1, <1>3, <2>1 DEF Fits
        <3>2. typedOn[u] = typedOn[v]
            BY <1>3, <2>1, <3>1
        <3>3. u \in requeued
            BY <2>1, <3>2 DEF Chronology, InOrder
        <3> QED BY <3>3 DEF Grows
    <2>2. ASSUME Around(q, s, v), NEW b \in Browsers, Arrives(b, q, t, u)
          PROVE  u \in requeued'
        <3>1. u \in 1..edits /\ v \in 1..edits /\ typedOn[v] = b
            BY <1>1, <1>3, <1>4, <2>2 DEF Fits
        <3> QED BY <2>2, <3>1 DEF Arrives
    <2>3. ASSUME Around(q, t, u), NEW b \in Browsers, Arrives(b, q, s, v)
          PROVE  FALSE
        <3>1. u > 0 /\ t \in Nat /\ s \in Nat
            BY <1>3, <1>4, <2>3 DEF Fits
        <3>2. typedOn[u] = b
            BY <1>3, <1>4, <2>3, <3>1
        <3>3. t <= rec[b][q].seq
            BY <1>3, <2>3, <3>1, <3>2 DEF Fits
        <3> QED BY <1>2, <1>4, <2>3, <3>1, <3>3
    <2>4. ASSUME NEW b \in Browsers, Arrives(b, q, s, v), NEW c \in Browsers, Arrives(c, q, t, u)
          PROVE  FALSE
        <3>1. b = c /\ s = t
            BY <1>4, <2>4
        <3> QED BY <1>4, <2>4, <3>1
    <2>5. Around(q, s, v) \/ \E b \in Browsers : Arrives(b, q, s, v)
        OBVIOUS
    <2>6. Around(q, t, u) \/ \E b \in Browsers : Arrives(b, q, t, u)
        OBVIOUS
    <2> QED BY <2>1, <2>2, <2>3, <2>4, <2>5, <2>6
<1> QED BY <1>5, <1>6 DEF Chronology, Grows

(* Where versions are around.                                              *)
LEMMA Places ==
    ASSUME NEW b \in Browsers, NEW q
    PROVE  /\ Around(q, server[q].seq, server[q].val)
           /\ Around(q, rec[b][q].seq, rec[b][q].val)
           /\ \A i \in pass[b].todo : i.q = q => Around(q, i.seq, i.val)
           /\ dto[b] # NoTable => Around(q, dto[b][q].seq, dto[b][q].val)
           /\ q \in restore[b].left =>
                 /\ Around(q, restore[b].local[q].seq, restore[b].local[q].val)
                 /\ Around(q, restore[b].server[q].seq, restore[b].server[q].val)
BY DEF Around, Is, OnServer, InRecords, InPass, InDto, InRestore

(* The records have the versions they had.                                 *)
SameVersions ==
    \A b \in Browsers, q \in Questions :
        rec'[b][q].seq = rec[b][q].seq /\ rec'[b][q].val = rec[b][q].val

(* A page's restore stays, goes on or is over.                             *)
RestoreOn(b) ==
    /\ restore'[b].left \subseteq restore[b].left
    /\ restore'[b].left # {} => restore'[b].local = restore[b].local /\ restore'[b].server = restore[b].server

(* A step by which no version moves, but for the server's table being sent *)
(* to pages.                                                               *)
LEMMA NoNews ==
    ASSUME AInv, AInv', Chronology, Grows, SameVersions, server' = server,
           \A b \in Browsers : pass'[b].todo \subseteq pass[b].todo,
           net' \subseteq net,
           \A b \in Browsers : dto'[b] \in {dto[b], NoTable, server},
           \A b \in Browsers : RestoreOn(b),
           \A b \in Browsers, q \in Questions : \A v \in 1..edits : Behind(b, q, v) => Behind(b, q, v)',
           \A b \in Browsers : Queue(b)'
    PROVE  Chronology'
<1>1. ASSUME NEW q \in Questions, NEW s, NEW v, Around(q, s, v)'
      PROVE  Around(q, s, v)
    <2>1. InRecords(q, s, v)' => InRecords(q, s, v)
        BY DEF InRecords, Is, SameVersions
    <2>2. InPass(q, s, v)' => InPass(q, s, v)
        BY DEF InPass, Is
    <2>3. InNet(q, s, v)' => InNet(q, s, v)
        BY DEF InNet, Is
    <2>4. OnServer(q, s, v)' => OnServer(q, s, v)
        BY DEF OnServer, Is
    <2>5. InDto(q, s, v)' => InDto(q, s, v) \/ OnServer(q, s, v)
        BY DEF InDto, OnServer, Is
    <2>6. InRestore(q, s, v)' => InRestore(q, s, v)
        BY DEF InRestore, RestoreOn, Is
    <2> QED BY <1>1, <2>1, <2>2, <2>3, <2>4, <2>5, <2>6 DEF Around
<1>2. \A b \in Browsers : Follows(rec[b], rec'[b])
    BY DEF SameVersions, Follows, AInv, Types, Records, Record
<1>3. ASSUME NEW b \in Browsers, NEW q \in Questions
      PROVE  Known(b, q)'
    <2>1. Known(b, q)
        BY DEF Chronology
    <2>2. rec'[b][q].seq = rec[b][q].seq /\ rec'[b][q].val = rec[b][q].val
        BY DEF SameVersions
    <2>3. ASSUME Foreign(b, rec[b][q])'
          PROVE  /\ rec'[b][q].seq <= server'[q].seq
                 /\ dto'[b] # NoTable => rec'[b][q].seq <= dto'[b][q].seq
        <3>1. rec[b][q].val > 0
            BY <2>2, <2>3 DEF Foreign
        <3>2. typedOn'[rec[b][q].val] = typedOn[rec[b][q].val]
            BY <3>1, Places, AroundFits
        <3>3. Foreign(b, rec[b][q])
            BY <2>2, <2>3, <3>2 DEF Foreign
        <3> QED BY <2>1, <2>2, <3>3 DEF Known
    <2>4. ASSUME q \in restore'[b].left
          PROVE  /\ Foreign(b, restore[b].local[q])' => restore'[b].local[q].seq <= restore'[b].server[q].seq
                 /\ dto'[b] # NoTable => restore'[b].server[q].seq <= dto'[b][q].seq
        <3>1. q \in restore[b].left /\ restore'[b].local = restore[b].local /\ restore'[b].server = restore[b].server
            BY <2>4 DEF RestoreOn
        <3>2. restore[b].local[q].val > 0 => typedOn'[restore[b].local[q].val] = typedOn[restore[b].local[q].val]
            BY <3>1, Places, AroundFits
        <3>3. restore[b].server[q].seq <= server[q].seq
            BY <3>1, AsItWas DEF Sent, OldCopy
        <3> QED BY <2>1, <3>1, <3>2, <3>3 DEF Known, Foreign
    <2> QED BY <2>3, <2>4 DEF Known
<1> QED BY <1>1, <1>2, <1>3, OrderKept

(* Nothing is typed and nothing queued.                                    *)
LEMMA NothingTyped ==
    ASSUME Chronology, UNCHANGED <<edits, typedOn>>, requeued \subseteq requeued'
    PROVE  Grows
BY DEF Chronology, Grows, Counted

(* What has still to reach the outboxes stays as it is.                    *)
LEMMA StillQueued ==
    ASSUME Chronology, UNCHANGED <<edits, typedOn, writes, dirty>>
    PROVE  /\ \A b \in Browsers, q \in Questions : \A v \in 1..edits : Behind(b, q, v) => Behind(b, q, v)'
           /\ \A b \in Browsers : Queue(b)'
<1>1. \A b \in Browsers : Queue(b)
    BY DEF Chronology
<1>2. ASSUME NEW b \in Browsers PROVE Queue(b)'
    BY <1>1 DEF Queue
<1> QED BY <1>2 DEF Behind

(* A step that moves no version and types nothing.                         *)
LEMMA Quiet ==
    ASSUME AInv, AInv', Chronology, SameVersions,
           UNCHANGED <<edits, typedOn, requeued, server, writes, dirty>>,
           \A b \in Browsers : pass'[b].todo \subseteq pass[b].todo,
           net' \subseteq net,
           \A b \in Browsers : dto'[b] \in {dto[b], NoTable, server},
           \A b \in Browsers : RestoreOn(b)
    PROVE  Chronology'
BY NothingTyped, StillQueued, NoNews

(* The records stay, as far as versions go, when they are settled, parked, *)
(* resumed or given up.                                                    *)
LEMMA SettleSame ==
    ASSUME AInv, NEW b \in Browsers, NEW i, i.q \in Questions, settleAnswer(b, i) \/ parkAnswer(b, i)
    PROVE  SameVersions
<1>1. rec \in [Browsers -> Records] /\ rec[b] \in Records /\ rec[b][i.q] \in Record
    BY BoxFacts DEF Records
<1> DEFINE settled == [rec[b][i.q] EXCEPT !.pending = FALSE, !.parked = FALSE]
           kept == [rec[b][i.q] EXCEPT !.parked = TRUE]
<1>2. /\ settled.seq = rec[b][i.q].seq /\ settled.val = rec[b][i.q].val
      /\ kept.seq = rec[b][i.q].seq /\ kept.val = rec[b][i.q].val
    BY <1>1 DEF Record
<1>3. \/ rec' = rec
      \/ rec' = [rec EXCEPT ![b][i.q] = settled]
      \/ rec' = [rec EXCEPT ![b][i.q] = kept]
    BY DEF settleAnswer, parkAnswer
<1> HIDE DEF settled, kept
<1> QED BY <1>1, <1>2, <1>3 DEF SameVersions, Records

(* resumeAnswers.                                                          *)
LEMMA ResumeSame ==
    ASSUME AInv, NEW b \in Browsers, resumeAnswers(b)
    PROVE  SameVersions
<1> DEFINE u == [q \in Questions |-> [rec[b][q] EXCEPT !.parked = FALSE]]
<1>1. rec \in [Browsers -> Records] /\ \A q \in Questions : rec[b][q] \in Record
    BY BoxFacts DEF Records
<1>2. \A q \in Questions : u[q].seq = rec[b][q].seq /\ u[q].val = rec[b][q].val
    BY <1>1 DEF Record
<1>3. rec' = [rec EXCEPT ![b] = u]
    BY DEF resumeAnswers
<1> HIDE DEF u
<1> QED BY <1>1, <1>2, <1>3 DEF SameVersions

(* abandonPendingAnswers.                                                  *)
LEMMA AbandonSame ==
    ASSUME AInv, NEW b \in Browsers, abandonPendingAnswers(b)
    PROVE  SameVersions
<1> DEFINE u == [q \in Questions |-> [rec[b][q] EXCEPT !.pending = FALSE, !.parked = FALSE]]
<1>1. rec \in [Browsers -> Records] /\ \A q \in Questions : rec[b][q] \in Record
    BY BoxFacts DEF Records
<1>2. \A q \in Questions : u[q].seq = rec[b][q].seq /\ u[q].val = rec[b][q].val
    BY <1>1 DEF Record
<1>3. rec' = [rec EXCEPT ![b] = u]
    BY DEF abandonPendingAnswers
<1> HIDE DEF u
<1> QED BY <1>1, <1>2, <1>3 DEF SameVersions

(* Whatever becomes of a pass, it sends what it had.                       *)
LEMMA PassSame ==
    ASSUME AInv, NEW b \in Browsers, pass' \in {[pass EXCEPT ![b] = IdlePass], [pass EXCEPT ![b] = NextItem(b)]}
    PROVE  \A c \in Browsers : pass'[c].todo \subseteq pass[c].todo
<1>1. pass \in [Browsers -> Pass] /\ pass[b] \in Pass
    BY DEF AInv, Types
<1>2. IdlePass.todo = {}
    BY DEF IdlePass
<1>3. NextItem(b).todo \subseteq pass[b].todo
    BY <1>1, <1>2 DEF NextItem, Pass
<1> QED BY <1>1, <1>2, <1>3

(* The steps that move no version.                                         *)
LEMMA QuietSteps ==
    ASSUME AInv, AInv', Chronology, NEW b \in Browsers,
           \/ TimedOut(b) \/ Superseded(b) \/ LearnPaused(b) \/ submit(b)
           \/ Pause \/ Release \/ End \/ load(b) \/ CheckPassed(b)
    PROVE  Chronology'
<1>1. rec' = rec /\ net' \subseteq net /\ restore' = restore
      /\ UNCHANGED <<edits, typedOn, requeued, server, writes, dirty>>
    BY DEF TimedOut, Superseded, LearnPaused, submit, Pause, Release, End, load, CheckPassed,
           serverVars, history
<1>2. \A c \in Browsers : dto'[c] \in {dto[c], NoTable, server}
    BY DEF TimedOut, Superseded, LearnPaused, submit, Pause, Release, End, load, CheckPassed,
           serverVars, history, AInv, Types
<1>3. pass' = pass \/ pass' = [pass EXCEPT ![b] = IdlePass]
    BY DEF TimedOut, Superseded, LearnPaused, submit, Pause, Release, End, load, CheckPassed
<1>4. \A c \in Browsers : pass'[c].todo \subseteq pass[c].todo
    BY <1>3, PassSame
<1> QED BY <1>1, <1>2, <1>4, Quiet DEF SameVersions, RestoreOn

(* The steps that settle, park, resume or give up records.                 *)
LEMMA RecordSteps ==
    ASSUME AInv, AInv', Chronology, NEW b \in Browsers,
           \/ Delivered(b) \/ RefusedWhilePaused(b) \/ RefusedForGood(b)
           \/ HeartbeatActive(b) \/ LearnEnded(b) \/ RestoreDone(b) \/ abandonPendingAnswers(b)
    PROVE  Chronology'
<1>1. net' = net /\ dto' = dto /\ UNCHANGED <<edits, typedOn, requeued, server, writes, dirty>>
    BY DEF Delivered, RefusedWhilePaused, RefusedForGood, HeartbeatActive, LearnEnded, RestoreDone,
           abandonPendingAnswers, serverVars, history
<1>2. SameVersions
    <2>1. CASE Delivered(b) \/ RefusedWhilePaused(b) \/ RefusedForGood(b)
        <3>1. pass[b].cur.q \in Questions
            <4>1. pass[b].reply # "none"
                BY <2>1 DEF Delivered, RefusedWhilePaused, RefusedForGood
            <4> QED BY <4>1, ReplyIsOfHeld DEF Held, Item
        <3>2. settleAnswer(b, pass[b].cur) \/ parkAnswer(b, pass[b].cur)
            BY <2>1 DEF Delivered, RefusedWhilePaused, RefusedForGood
        <3> QED BY <3>1, <3>2, SettleSame
    <2>2. CASE HeartbeatActive(b) \/ LearnEnded(b) \/ RestoreDone(b)
        BY <2>2, ResumeSame DEF HeartbeatActive, LearnEnded, RestoreDone
    <2>3. CASE abandonPendingAnswers(b)
        BY <2>3, AbandonSame
    <2> QED BY <2>1, <2>2, <2>3
<1>3. \A c \in Browsers : pass'[c].todo \subseteq pass[c].todo
    <2>1. pass' = pass \/ pass' = [pass EXCEPT ![b] = NextItem(b)]
        BY DEF Delivered, RefusedWhilePaused, RefusedForGood, HeartbeatActive, LearnEnded, RestoreDone,
               abandonPendingAnswers
    <2> QED BY <2>1, PassSame
<1>4. \A c \in Browsers : RestoreOn(c)
    <2>1. restore \in [Browsers -> Restore] /\ NoRestore.left = {}
        BY DEF AInv, Types, NoRestore
    <2>2. restore' = restore \/ restore' = [restore EXCEPT ![b] = NoRestore]
        BY DEF Delivered, RefusedWhilePaused, RefusedForGood, HeartbeatActive, LearnEnded, RestoreDone,
               abandonPendingAnswers
    <2> QED BY <2>1, <2>2 DEF RestoreOn
<1> QED BY <1>1, <1>2, <1>3, <1>4, Quiet

(* A new page has nothing on its way to the outbox.                        *)
LEMMA ReloadOrder ==
    ASSUME AInv, AInv', Chronology, NEW b \in Browsers, Reload(b)
    PROVE  Chronology'
<1>1. Grows
    BY NothingTyped DEF Reload, history
<1>2. /\ writes' = [writes EXCEPT ![b] = <<>>] /\ dirty' = [dirty EXCEPT ![b] = [q \in Questions |-> 0]]
      /\ pass' = [pass EXCEPT ![b] = IdlePass] /\ dto' = [dto EXCEPT ![b] = NoTable]
      /\ restore' = [restore EXCEPT ![b] = NoRestore]
      /\ rec' = rec /\ server' = server /\ net' \subseteq net /\ edits' = edits /\ typedOn' = typedOn
    BY DEF Reload, serverVars, history
<1>3. /\ dto \in [Browsers -> Rows \union {NoTable}] /\ restore \in [Browsers -> Restore]
      /\ writes \in [Browsers -> Seq(Item)] /\ dirty \in [Browsers -> [Questions -> Vals]]
    BY DEF AInv, Types
<1>4. /\ writes'[b] = <<>> /\ \A q \in Questions : dirty'[b][q] = 0
      /\ \A c \in Browsers : c # b => writes'[c] = writes[c] /\ dirty'[c] = dirty[c]
    BY <1>2, <1>3
<1>5. \A c \in Browsers, q \in Questions : \A v \in 1..edits : Behind(c, q, v) => Behind(c, q, v)'
    BY <1>4 DEF Behind
<1>6. ASSUME NEW c \in Browsers PROVE Queue(c)'
    <2>1. Queue(c)
        BY DEF Chronology
    <2>2. CASE c = b
        <3>1. Len(writes'[b]) = 0
            BY <1>4
        <3> QED BY <1>4, <2>2, <3>1 DEF Queue
    <2>3. CASE c # b
        BY <1>2, <1>4, <2>1, <2>3 DEF Queue
    <2> QED BY <2>2, <2>3
<1>7. \A c \in Browsers : RestoreOn(c)
    BY <1>2, <1>3 DEF RestoreOn, NoRestore
<1>8. \A c \in Browsers : pass'[c].todo \subseteq pass[c].todo
    BY <1>2, PassSame
<1>9. \A c \in Browsers : dto'[c] \in {dto[c], NoTable, server}
    BY <1>2, <1>3
<1> QED BY <1>1, <1>2, <1>5, <1>6, <1>7, <1>8, <1>9, NoNews DEF SameVersions

(* The newest edit is after all there are.                                 *)
LEMMA SetOrder ==
    ASSUME AInv, AInv', Chronology, NEW b \in Browsers, NEW q \in Questions, set(b, q)
    PROVE  Chronology'
<1>1. /\ edits' = edits + 1 /\ typedOn' = Append(typedOn, b) /\ requeued' = requeued
      /\ dirty' = [dirty EXCEPT ![b][q] = edits + 1] /\ writes' = writes
      /\ UNCHANGED <<rec, server, pass, net, dto, restore>>
    BY DEF set, serverVars
<1>2. edits \in Nat /\ typedOn \in Seq(Browsers) /\ Len(typedOn) = edits
    BY DEF Chronology, Counted
<1>3. /\ typedOn' \in Seq(Browsers) /\ Len(typedOn') = edits + 1
      /\ typedOn'[edits + 1] = b /\ \A v \in 1..edits : typedOn'[v] = typedOn[v]
    BY <1>1, <1>2
<1>4. Grows
    BY <1>1, <1>2, <1>3 DEF Grows, Counted
<1>5. /\ dirty \in [Browsers -> [Questions -> Vals]]
      /\ dirty'[b][q] = edits + 1
      /\ \A c \in Browsers, x \in Questions : <<c, x>> # <<b, q>> => dirty'[c][x] = dirty[c][x]
    BY <1>1 DEF AInv, Types
<1>6. \A c \in Browsers, x \in Questions : \A v \in 1..edits : Behind(c, x, v) => Behind(c, x, v)'
    BY <1>1, <1>2, <1>5 DEF Behind
<1>7. ASSUME NEW c \in Browsers PROVE Queue(c)'
    <2>1. Queue(c)
        BY DEF Chronology
    <2>2. \A v : Typed(typedOn, c, v) => v \in 1..edits /\ Typed(typedOn', c, v)
        BY <1>4, TypedStays
    <2>3. Typed(typedOn', b, edits + 1)
        BY <1>2, <1>3 DEF Typed
    <2>4. ASSUME NEW x \in Questions, dirty'[c][x] # 0 PROVE Typed(typedOn', c, dirty'[c][x])
        <3>1. CASE c = b /\ x = q
            BY <1>5, <2>3, <3>1
        <3>2. CASE <<c, x>> # <<b, q>>
            <4>1. dirty'[c][x] = dirty[c][x]
                BY <1>5, <3>2
            <4> QED BY <2>1, <2>2, <2>4, <4>1 DEF Queue
        <3> QED BY <3>1, <3>2
    <2>5. ASSUME NEW k \in 1..Len(writes[c])
          PROVE  LET w == writes[c][k]
                 IN  /\ w.seq > 0 /\ Typed(typedOn', c, w.val)
                     /\ \A j \in k..Len(writes[c]) : writes[c][j].q = w.q => w.val <= writes[c][j].val
                     /\ dirty'[c][w.q] # 0 => w.val <= dirty'[c][w.q]
        <3> DEFINE w == writes[c][k]
        <3>1. w \in Item
            BY DEF AInv, Types
        <3>2. /\ w.seq > 0 /\ Typed(typedOn, c, w.val)
              /\ \A j \in k..Len(writes[c]) : writes[c][j].q = w.q => w.val <= writes[c][j].val
              /\ dirty[c][w.q] # 0 => w.val <= dirty[c][w.q]
            BY <2>1 DEF Queue
        <3> HIDE DEF w
        <3>3. w.q \in Questions /\ w.val \in 1..edits /\ Typed(typedOn', c, w.val)
            BY <2>2, <3>1, <3>2 DEF Item
        <3>4. dirty'[c][w.q] # 0 => w.val <= dirty'[c][w.q]
            BY <1>2, <1>5, <3>2, <3>3
        <3> QED BY <3>2, <3>3, <3>4 DEF w
    <2> QED BY <1>1, <2>4, <2>5 DEF Queue
<1> QED BY <1>1, <1>4, <1>6, <1>7, NoNews DEF SameVersions, RestoreOn

(* A save is queued after those before it, with what was typed after them. *)
LEMMA PersistOrder ==
    ASSUME AInv, AInv', Chronology, NEW b \in Browsers, NEW q \in Questions, persist(b, q)
    PROVE  Chronology'
<1> DEFINE w == [q |-> q, val |-> dirty[b][q], seq |-> page[b].seq + 1]
           n == Len(writes[b])
<1>1. /\ dirty[b][q] # 0
      /\ writes' = [writes EXCEPT ![b] = Append(@, w)] /\ dirty' = [dirty EXCEPT ![b][q] = 0]
      /\ UNCHANGED <<edits, typedOn, requeued, rec, server, pass, net, dto, restore>>
    BY DEF persist, serverVars, history
<1>2. Grows
    BY <1>1, NothingTyped
<1>3. /\ writes \in [Browsers -> Seq(Item)] /\ dirty \in [Browsers -> [Questions -> Vals]]
      /\ page[b].seq \in Nat
    BY DEF AInv, Types, Page
<1>4. w.q = q /\ w.val = dirty[b][q] /\ w.seq > 0
    BY <1>3
<1> HIDE DEF w
<1>5. /\ \A c \in Browsers : c # b => writes'[c] = writes[c] /\ dirty'[c] = dirty[c]
      /\ n \in Nat /\ Len(writes'[b]) = n + 1 /\ writes'[b][n + 1] = w
      /\ \A k \in 1..n : writes'[b][k] = writes[b][k]
      /\ dirty'[b][q] = 0 /\ \A x \in Questions : x # q => dirty'[b][x] = dirty[b][x]
    BY <1>1, <1>3
<1> HIDE DEF n
<1>6. ASSUME NEW c \in Browsers, NEW x \in Questions, NEW v \in 1..edits, Behind(c, x, v)
      PROVE  Behind(c, x, v)'
    <2>1. CASE c # b
        BY <1>5, <1>6, <2>1 DEF Behind
    <2>2. CASE c = b
        <3>1. ASSUME NEW k \in 1..(n + 1), writes'[b][k].q = x PROVE v <= writes'[b][k].val
            <4>1. CASE k = n + 1
                BY <1>1, <1>4, <1>5, <1>6, <2>2, <3>1, <4>1 DEF Behind
            <4>2. CASE k # n + 1
                <5>1. k \in 1..n
                    BY <1>5, <4>2
                <5> QED BY <1>5, <1>6, <2>2, <3>1, <5>1 DEF Behind, n
            <4> QED BY <4>1, <4>2
        <3>2. dirty'[b][x] # 0 => v <= dirty'[b][x]
            BY <1>5, <1>6, <2>2 DEF Behind
        <3> QED BY <1>5, <2>2, <3>1, <3>2 DEF Behind
    <2> QED BY <2>1, <2>2
<1>7. ASSUME NEW c \in Browsers PROVE Queue(c)'
    <2>1. Queue(c)
        BY DEF Chronology
    <2>2. CASE c # b
        BY <1>1, <1>5, <2>1, <2>2 DEF Queue
    <2>3. CASE c = b
        <3>1. \A x \in Questions : dirty'[b][x] # 0 => Typed(typedOn, b, dirty'[b][x])
            BY <1>5, <2>1, <2>3 DEF Queue
        <3>2. Typed(typedOn, b, w.val)
            BY <1>1, <1>4, <2>1, <2>3 DEF Queue
        <3>3. ASSUME NEW k \in 1..n
              PROVE  LET z == writes[b][k]
                     IN  /\ z \in Item /\ z.seq > 0 /\ Typed(typedOn, b, z.val)
                         /\ \A j \in k..n : writes[b][j].q = z.q => z.val <= writes[b][j].val
                         /\ dirty[b][z.q] # 0 => z.val <= dirty[b][z.q]
            <4> DEFINE z == writes[b][k]
            <4>1. k \in 1..Len(writes[b])
                BY DEF n
            <4>2. z \in Item
                BY <1>3, <4>1
            <4>3. /\ z.seq > 0 /\ Typed(typedOn, b, z.val)
                  /\ \A j \in k..Len(writes[b]) : writes[b][j].q = z.q => z.val <= writes[b][j].val
                  /\ dirty[b][z.q] # 0 => z.val <= dirty[b][z.q]
                BY <2>1, <2>3, <4>1 DEF Queue
            <4> QED BY <4>2, <4>3 DEF n
        <3>4. ASSUME NEW k \in 1..(n + 1)
              PROVE  LET z == writes'[b][k]
                     IN  /\ z.seq > 0 /\ Typed(typedOn, b, z.val)
                         /\ \A j \in k..(n + 1) : writes'[b][j].q = z.q => z.val <= writes'[b][j].val
                         /\ dirty'[b][z.q] # 0 => z.val <= dirty'[b][z.q]
            <4>1. CASE k = n + 1
                <5>1. \A j \in k..(n + 1) : writes'[b][j] = w
                    BY <1>5, <4>1
                <5>2. w.val <= w.val
                    BY <3>2 DEF Typed
                <5>3. dirty'[b][w.q] = 0
                    BY <1>4, <1>5
                <5> QED BY <1>4, <1>5, <3>2, <4>1, <5>1, <5>2, <5>3
            <4>2. CASE k # n + 1
                <5> DEFINE z == writes[b][k]
                <5>1. k \in 1..n /\ writes'[b][k] = z
                    BY <1>5, <4>2
                <5>2. /\ z \in Item /\ z.seq > 0 /\ Typed(typedOn, b, z.val)
                      /\ \A j \in k..n : writes[b][j].q = z.q => z.val <= writes[b][j].val
                      /\ dirty[b][z.q] # 0 => z.val <= dirty[b][z.q]
                    BY <3>3, <5>1
                <5> HIDE DEF z
                <5>3. ASSUME NEW j \in k..(n + 1), writes'[b][j].q = z.q PROVE z.val <= writes'[b][j].val
                    <6>1. CASE j = n + 1
                        BY <1>1, <1>4, <1>5, <5>2, <5>3, <6>1
                    <6>2. CASE j # n + 1
                        <7>1. j \in k..n /\ j \in 1..n
                            BY <1>5, <5>1, <6>2
                        <7> QED BY <1>5, <5>2, <5>3, <7>1
                    <6> QED BY <6>1, <6>2
                <5>4. dirty'[b][z.q] # 0 => z.val <= dirty'[b][z.q]
                    <6>1. z.q \in Questions
                        BY <5>2 DEF Item
                    <6> QED BY <1>5, <5>2, <6>1
                <5> QED BY <5>1, <5>2, <5>3, <5>4 DEF z
            <4> QED BY <4>1, <4>2
        <3>5. Len(writes'[c]) = n + 1 /\ typedOn' = typedOn
            BY <1>1, <1>5, <2>3
        <3>6. \A k \in 1..Len(writes'[c]) :
                  LET z == writes'[c][k]
                  IN  /\ z.seq > 0 /\ Typed(typedOn', c, z.val)
                      /\ \A j \in k..Len(writes'[c]) : writes'[c][j].q = z.q => z.val <= writes'[c][j].val
                      /\ dirty'[c][z.q] # 0 => z.val <= dirty'[c][z.q]
            BY <2>3, <3>4, <3>5
        <3>7. \A x \in Questions : dirty'[c][x] # 0 => Typed(typedOn', c, dirty'[c][x])
            BY <2>3, <3>1, <3>5
        <3> QED BY <3>6, <3>7 DEF Queue
    <2> QED BY <2>2, <2>3
<1> QED BY <1>1, <1>2, <1>6, <1>7, NoNews DEF SameVersions, RestoreOn

(* A step that takes versions from where they are around and leaves the    *)
(* records and what is typed as they are.                                  *)
LEMMA StepOrder ==
    ASSUME AInv, AInv', Chronology, UNCHANGED <<edits, typedOn, requeued, rec, writes, dirty>>,
           \A q \in Questions : \A s, v : Around(q, s, v)' => Around(q, s, v),
           \A b \in Browsers, q \in Questions : Known(b, q)'
    PROVE  Chronology'
<1>1. \A b \in Browsers : Follows(rec[b], rec'[b])
    BY FollowsItself DEF AInv, Types
<1>2. Grows
    BY NothingTyped
<1> QED BY <1>1, <1>2, StillQueued, OrderKept

(* A pass takes its snapshots from the records.                            *)
LEMMA FlushOrder ==
    ASSUME AInv, AInv', Chronology, NEW b \in Browsers, flushAnswers(b)
    PROVE  Chronology'
<1> DEFINE T == {[q |-> q, seq |-> rec[b][q].seq, val |-> rec[b][q].val] : q \in Deliverable(b)}
           p == [IdlePass EXCEPT !.on = TRUE, !.todo = T]
<1>1. /\ pass' = [pass EXCEPT ![b] = p]
      /\ UNCHANGED <<edits, typedOn, requeued, rec, writes, dirty, server, net, dto, restore>>
    BY DEF flushAnswers, serverVars, history
<1>2. \A i \in T : i.seq = rec[b][i.q].seq /\ i.val = rec[b][i.q].val
    OBVIOUS
<1> HIDE DEF T
<1>3. p.todo = T
    BY DEF IdlePass
<1> HIDE DEF p
<1>4. pass'[b].todo = T /\ \A c \in Browsers : c # b => pass'[c] = pass[c]
    BY <1>1, <1>3 DEF AInv, Types
<1>5. ASSUME NEW q \in Questions, NEW s, NEW v PROVE Around(q, s, v)' => Around(q, s, v)
    <2>1. InPass(q, s, v)' => InPass(q, s, v) \/ InRecords(q, s, v)
        BY <1>2, <1>4 DEF InPass, InRecords, Is
    <2>2. /\ InRecords(q, s, v)' = InRecords(q, s, v) /\ InNet(q, s, v)' = InNet(q, s, v)
          /\ OnServer(q, s, v)' = OnServer(q, s, v) /\ InDto(q, s, v)' = InDto(q, s, v)
          /\ InRestore(q, s, v)' = InRestore(q, s, v)
        BY <1>1 DEF InRecords, InNet, OnServer, InDto, InRestore, Is
    <2> QED BY <2>1, <2>2 DEF Around
<1>6. \A c \in Browsers, q \in Questions : Known(c, q)'
    BY <1>1 DEF Chronology, Known, Foreign
<1> QED BY <1>1, <1>5, <1>6, StepOrder

(* A request takes one of the snapshots.                                   *)
LEMMA SendNextOrder ==
    ASSUME AInv, AInv', Chronology, NEW b \in Browsers, SendNext(b)
    PROVE  Chronology'
<1>1. PICK i \in pass[b].todo :
          /\ pass' = [pass EXCEPT ![b] = [pass[b] EXCEPT !.todo = pass[b].todo \ {i}, !.cur = i]]
          /\ net' = net \union {[b |-> b, inst |-> page[b].inst, item |-> i]}
    BY DEF SendNext
<1>2. UNCHANGED <<edits, typedOn, requeued, rec, writes, dirty, server, dto, restore>>
    BY DEF SendNext, serverVars, history
<1>3. pass \in [Browsers -> Pass] /\ pass[b] \in Pass
    BY DEF AInv, Types
<1>4. \A c \in Browsers : pass'[c].todo \subseteq pass[c].todo
    BY <1>1, <1>3 DEF Pass
<1>5. ASSUME NEW q \in Questions, NEW s, NEW v PROVE Around(q, s, v)' => Around(q, s, v)
    <2>1. InPass(q, s, v)' => InPass(q, s, v)
        BY <1>4 DEF InPass, Is
    <2>2. InNet(q, s, v)' => InNet(q, s, v) \/ InPass(q, s, v)
        BY <1>1 DEF InNet, InPass, Is
    <2>3. /\ InRecords(q, s, v)' = InRecords(q, s, v) /\ OnServer(q, s, v)' = OnServer(q, s, v)
          /\ InDto(q, s, v)' = InDto(q, s, v) /\ InRestore(q, s, v)' = InRestore(q, s, v)
        BY <1>2 DEF InRecords, OnServer, InDto, InRestore, Is
    <2> QED BY <2>1, <2>2, <2>3 DEF Around
<1>6. \A c \in Browsers, q \in Questions : Known(c, q)'
    BY <1>2 DEF Chronology, Known, Foreign
<1> QED BY <1>2, <1>5, <1>6, StepOrder

(* The table takes the version of the request, or keeps its own; a device  *)
(* knows no less of it for that.                                           *)
LEMMA SaveAnswerOrder ==
    ASSUME AInv, AInv', Chronology, NEW r \in net, saveAnswer(r)
    PROVE  Chronology'
<1>1. /\ server' = [server EXCEPT ![r.item.q] = StoredRow(r)] /\ net' = net \ {r}
      /\ UNCHANGED <<edits, typedOn, requeued, rec, writes, dirty, dto, restore>>
    BY DEF saveAnswer, history
<1>2. r.item \in Item /\ r.item.q \in Questions /\ r.item.seq \in Nat
    BY AsItWas DEF Held, Item
<1>3. server \in Rows /\ pass \in [Browsers -> Pass] /\ \A q \in Questions : server[q].seq \in Nat
    BY DEF AInv, Types, Rows, Row
<1>4. \/ server' = server
      \/ /\ server[r.item.q].seq < r.item.seq
         /\ server' = [server EXCEPT ![r.item.q] = [seq |-> r.item.seq, val |-> r.item.val]]
    BY <1>1, <1>3 DEF StoredRow, Rows
<1>5. \A q \in Questions : server[q].seq <= server'[q].seq
    BY <1>2, <1>3, <1>4 DEF Rows
<1>6. \A c \in Browsers : pass'[c].todo = pass[c].todo
    BY <1>3 DEF saveAnswer, Pass
<1>7. ASSUME NEW q \in Questions, NEW s, NEW v PROVE Around(q, s, v)' => Around(q, s, v)
    <2>1. OnServer(q, s, v)' => OnServer(q, s, v) \/ InNet(q, s, v)
        BY <1>2, <1>3, <1>4 DEF OnServer, InNet, Is, Rows
    <2>2. InNet(q, s, v)' => InNet(q, s, v)
        BY <1>1 DEF InNet, Is
    <2>3. InPass(q, s, v)' => InPass(q, s, v)
        BY <1>6 DEF InPass, Is
    <2>4. /\ InRecords(q, s, v)' = InRecords(q, s, v) /\ InDto(q, s, v)' = InDto(q, s, v)
          /\ InRestore(q, s, v)' = InRestore(q, s, v)
        BY <1>1 DEF InRecords, InDto, InRestore, Is
    <2> QED BY <2>1, <2>2, <2>3, <2>4 DEF Around
<1>8. ASSUME NEW c \in Browsers, NEW q \in Questions PROVE Known(c, q)'
    <2>1. Known(c, q)
        BY DEF Chronology
    <2>2. rec[c][q].seq \in Nat /\ server[q].seq \in Nat /\ server'[q].seq \in Nat
        BY <1>3, BoxFacts DEF Records, Record, AInv, Types, Rows, Row
    <2>3. rec[c][q].seq <= server[q].seq => rec[c][q].seq <= server'[q].seq
        BY <1>5, <2>2
    <2> QED BY <1>1, <2>1, <2>3 DEF Known, Foreign
<1> QED BY <1>1, <1>7, <1>8, StepOrder

(* A restore starts from the records and from what the page was sent.      *)
LEMMA ApplyOrder ==
    ASSUME AInv, AInv', Chronology, NEW b \in Browsers, apply(b)
    PROVE  Chronology'
<1> DEFINE r == [on |-> TRUE, left |-> Questions, local |-> rec[b], server |-> dto[b]]
<1>1. /\ dto[b] # NoTable /\ dto' = [dto EXCEPT ![b] = NoTable] /\ restore' = [restore EXCEPT ![b] = r]
      /\ UNCHANGED <<edits, typedOn, requeued, rec, writes, dirty, server, pass, net>>
    BY DEF apply, serverVars, history
<1>2. r.left = Questions /\ r.local = rec[b] /\ r.server = dto[b]
    OBVIOUS
<1> HIDE DEF r
<1>3. /\ dto'[b] = NoTable /\ restore'[b] = r
      /\ \A c \in Browsers : c # b => dto'[c] = dto[c] /\ restore'[c] = restore[c]
    BY <1>1 DEF AInv, Types
<1>4. ASSUME NEW q \in Questions, NEW s, NEW v PROVE Around(q, s, v)' => Around(q, s, v)
    <2>1. InRestore(q, s, v)' => InRestore(q, s, v) \/ InRecords(q, s, v) \/ InDto(q, s, v)
        BY <1>1, <1>2, <1>3 DEF InRestore, InRecords, InDto, Is
    <2>2. InDto(q, s, v)' => InDto(q, s, v)
        BY <1>3 DEF InDto, Is
    <2>3. /\ InRecords(q, s, v)' = InRecords(q, s, v) /\ InPass(q, s, v)' = InPass(q, s, v)
          /\ InNet(q, s, v)' = InNet(q, s, v) /\ OnServer(q, s, v)' = OnServer(q, s, v)
        BY <1>1 DEF InRecords, InPass, InNet, OnServer, Is
    <2> QED BY <2>1, <2>2, <2>3 DEF Around
<1>5. ASSUME NEW c \in Browsers, NEW q \in Questions PROVE Known(c, q)'
    <2>1. Known(c, q)
        BY DEF Chronology
    <2>2. CASE c = b
        BY <1>1, <1>2, <1>3, <2>1, <2>2 DEF Known, Foreign
    <2>3. CASE c # b
        BY <1>1, <1>3, <2>1, <2>3 DEF Known, Foreign
    <2> QED BY <2>2, <2>3
<1> QED BY <1>1, <1>4, <1>5, StepOrder

(* All records but the one of b for q have the versions they had.          *)
OthersSame(b, q) ==
    \A c \in Browsers, x \in Questions :
        <<c, x>> # <<b, q>> => rec'[c][x].seq = rec[c][x].seq /\ rec'[c][x].val = rec[c][x].val

(* What putAnswer does to the versions.                                    *)
LEMMA PutVersion ==
    ASSUME AInv, NEW b \in Browsers, NEW q \in Questions, NEW v, NEW s, putAnswer(b, q, v, s)
    PROVE  /\ OthersSame(b, q)
           /\ rec'[b][q].seq = IF rec[b][q].seq >= s THEN rec[b][q].seq ELSE s
           /\ rec'[b][q].val = IF rec[b][q].seq >= s THEN rec[b][q].val ELSE v
<1> DEFINE n == PutRecord(rec[b][q], v, s)
<1>1. rec \in [Browsers -> Records] /\ rec' = [rec EXCEPT ![b][q] = n]
    BY BoxFacts DEF putAnswer
<1>2. /\ n.seq = IF rec[b][q].seq >= s THEN rec[b][q].seq ELSE s
      /\ n.val = IF rec[b][q].seq >= s THEN rec[b][q].val ELSE v
    BY DEF PutRecord
<1> HIDE DEF n
<1>3. rec'[b][q] = n /\ \A c \in Browsers, x \in Questions : <<c, x>> # <<b, q>> => rec'[c][x] = rec[c][x]
    BY <1>1 DEF Records
<1> QED BY <1>2, <1>3 DEF OthersSame

(* What rememberDeliveredAnswer does to them.                              *)
LEMMA RememberVersion ==
    ASSUME AInv, NEW b \in Browsers, NEW q \in Questions, NEW row, rememberDeliveredAnswer(b, q, row)
    PROVE  /\ OthersSame(b, q)
           /\ rec'[b][q].seq = IF rec[b][q].seq >= row.seq THEN rec[b][q].seq ELSE row.seq
           /\ rec'[b][q].val = IF rec[b][q].seq >= row.seq THEN rec[b][q].val ELSE row.val
<1> DEFINE n == IF rec[b][q].seq >= row.seq THEN rec[b][q]
                ELSE [seq |-> row.seq, val |-> row.val, pending |-> FALSE, parked |-> FALSE]
<1>1. rec \in [Browsers -> Records] /\ rec' = [rec EXCEPT ![b][q] = n]
    BY BoxFacts DEF rememberDeliveredAnswer
<1>2. /\ n.seq = IF rec[b][q].seq >= row.seq THEN rec[b][q].seq ELSE row.seq
      /\ n.val = IF rec[b][q].seq >= row.seq THEN rec[b][q].val ELSE row.val
    OBVIOUS
<1> HIDE DEF n
<1>3. rec'[b][q] = n /\ \A c \in Browsers, x \in Questions : <<c, x>> # <<b, q>> => rec'[c][x] = rec[c][x]
    BY <1>1 DEF Records
<1> QED BY <1>2, <1>3 DEF OthersSame

(* A step that changes one record, to a version that is around or arrives  *)
(* with it, keeps the order; one of another device is known of the server. *)
LEMMA OneVersion ==
    ASSUME AInv, AInv', Chronology, NEW b \in Browsers, NEW q \in Questions, OthersSame(b, q),
           NEW n, NEW m, rec'[b][q].seq = n, rec'[b][q].val = m,
           RecordsMove, UNCHANGED <<edits, typedOn, server, pass, net, dto>>, requeued \subseteq requeued',
           Around(q, n, m) \/ Arrives(b, q, n, m),
           m > 0 /\ typedOn[m] # b => n <= server[q].seq /\ (dto[b] # NoTable => n <= dto[b][q].seq),
           \A c \in Browsers : RestoreOn(c),
           \A c \in Browsers, x \in Questions : \A v \in 1..edits : Behind(c, x, v) => Behind(c, x, v)',
           \A c \in Browsers : Queue(c)'
    PROVE  Chronology'
<1>1. Grows
    BY NothingTyped
<1>2. ASSUME NEW x \in Questions, NEW s, NEW v, Around(x, s, v)'
      PROVE  Around(x, s, v) \/ \E c \in Browsers : Arrives(c, x, s, v)
    <2>1. /\ InPass(x, s, v)' = InPass(x, s, v) /\ InNet(x, s, v)' = InNet(x, s, v)
          /\ OnServer(x, s, v)' = OnServer(x, s, v) /\ InDto(x, s, v)' = InDto(x, s, v)
        BY DEF InPass, InNet, OnServer, InDto, Is
    <2>2. InRestore(x, s, v)' => InRestore(x, s, v)
        BY DEF InRestore, RestoreOn, Is
    <2>3. CASE InRecords(x, s, v)'
        <3>1. PICK c \in Browsers : rec'[c][x].seq = s /\ rec'[c][x].val = v
            BY <2>3 DEF InRecords, Is
        <3>2. CASE <<c, x>> = <<b, q>>
            BY <3>1, <3>2
        <3>3. CASE <<c, x>> # <<b, q>>
            <4>1. rec[c][x].seq = s /\ rec[c][x].val = v
                BY <3>1, <3>3 DEF OthersSame
            <4> QED BY <4>1 DEF Around, InRecords, Is
        <3> QED BY <3>2, <3>3
    <2> QED BY <1>2, <2>1, <2>2, <2>3 DEF Around
<1>3. ASSUME NEW c \in Browsers, NEW x \in Questions PROVE Known(c, x)'
    <2>1. Known(c, x)
        BY DEF Chronology
    <2>2. ASSUME Foreign(c, rec[c][x])'
          PROVE  /\ rec'[c][x].seq <= server[x].seq
                 /\ dto[c] # NoTable => rec'[c][x].seq <= dto[c][x].seq
        <3>1. CASE <<c, x>> = <<b, q>>
            BY <2>2, <3>1 DEF Foreign
        <3>2. CASE <<c, x>> # <<b, q>>
            <4>1. rec'[c][x].seq = rec[c][x].seq /\ rec'[c][x].val = rec[c][x].val
                BY <3>2 DEF OthersSame
            <4> QED BY <2>1, <2>2, <4>1 DEF Known, Foreign
        <3> QED BY <3>1, <3>2
    <2>3. ASSUME x \in restore'[c].left
          PROVE  x \in restore[c].left /\ restore'[c].local = restore[c].local /\ restore'[c].server = restore[c].server
        BY <2>3 DEF RestoreOn
    <2> QED BY <2>1, <2>2, <2>3 DEF Known, Foreign
<1>4. \A c \in Browsers : Follows(rec[c], rec'[c])
    BY DEF RecordsMove
<1> QED BY <1>1, <1>2, <1>3, <1>4, OrderKept

(* The same when the record keeps its version.                             *)
LEMMA SameVersion ==
    ASSUME AInv, AInv', Chronology, NEW b \in Browsers, NEW q \in Questions, OthersSame(b, q),
           rec'[b][q].seq = rec[b][q].seq, rec'[b][q].val = rec[b][q].val,
           RecordsMove, UNCHANGED <<edits, typedOn, server, pass, net, dto>>, requeued \subseteq requeued',
           \A c \in Browsers : RestoreOn(c),
           \A c \in Browsers, x \in Questions : \A v \in 1..edits : Behind(c, x, v) => Behind(c, x, v)',
           \A c \in Browsers : Queue(c)'
    PROVE  Chronology'
<1>1. PICK n, m : rec[b][q].seq = n /\ rec[b][q].val = m
    OBVIOUS
<1>2. Around(q, n, m) /\ Known(b, q)
    BY <1>1, Places DEF Chronology
<1>3. m > 0 /\ typedOn[m] # b => n <= server[q].seq /\ (dto[b] # NoTable => n <= dto[b][q].seq)
    BY <1>1, <1>2 DEF Known, Foreign
<1> QED BY <1>1, <1>2, <1>3, OneVersion

(* The oldest save lands: the device typed nothing that is around for the  *)
(* question after it.                                                      *)
LEMMA WriteLandsOrder ==
    ASSUME AInv, AInv', Chronology, NEW b \in Browsers, WriteLands(b)
    PROVE  Chronology'
<1>0. writes[b] # <<>> /\ writes[b] \in Seq(Item)
    BY DEF WriteLands, AInv, Types
<1> PICK w \in Item : w = Head(writes[b])
    BY <1>0
<1>1. /\ writes[b] # <<>> /\ putAnswer(b, w.q, w.val, w.seq) /\ writes' = [writes EXCEPT ![b] = Tail(writes[b])]
      /\ UNCHANGED <<edits, typedOn, requeued, server, pass, net, dto, restore, dirty, unsaved>>
    BY DEF WriteLands, serverVars, history
<1>2. writes \in [Browsers -> Seq(Item)] /\ writes[b] \in Seq(Item)
    BY DEF AInv, Types
<1>3. /\ 1 \in 1..Len(writes[b]) /\ w = writes[b][1] /\ w \in Item
      /\ writes'[b] = Tail(writes[b]) /\ \A c \in Browsers : c # b => writes'[c] = writes[c]
    BY <1>1, <1>2
<1>4. /\ Len(writes'[b]) = Len(writes[b]) - 1 /\ Len(writes[b]) \in Nat
      /\ \A k \in 1..Len(writes'[b]) : k + 1 \in 1..Len(writes[b]) /\ writes'[b][k] = writes[b][k + 1]
    BY <1>1, <1>2, <1>3
<1>5. /\ Queue(b) /\ w.seq > 0 /\ Typed(typedOn, b, w.val)
      /\ \A j \in 1..Len(writes[b]) : writes[b][j].q = w.q => w.val <= writes[b][j].val
      /\ dirty[b][w.q] # 0 => w.val <= dirty[b][w.q]
    BY <1>3 DEF Chronology, Queue
<1>6. w.q \in Questions /\ w.seq \in Nat /\ w.val \in Vals /\ w.val \in 1..edits /\ typedOn[w.val] = b
    BY <1>3, <1>5 DEF Item, Vals, Typed, Chronology, Counted
<1>7. \A c \in Browsers, q \in Questions : \A v \in 1..edits : Behind(c, q, v) => Behind(c, q, v)'
    <2> SUFFICES ASSUME NEW c \in Browsers, NEW q \in Questions, NEW v \in 1..edits, Behind(c, q, v)
                 PROVE  Behind(c, q, v)'
        OBVIOUS
    <2>1. CASE c = b
        BY <1>1, <1>4, <2>1 DEF Behind
    <2>2. CASE c # b
        BY <1>1, <1>3, <2>2 DEF Behind
    <2> QED BY <2>1, <2>2
<1>8. ASSUME NEW c \in Browsers PROVE Queue(c)'
    <2>1. CASE c = b
        <3>1. ASSUME NEW k \in 1..Len(writes'[b])
              PROVE  LET z == writes'[b][k]
                     IN  /\ z.seq > 0 /\ Typed(typedOn, b, z.val)
                         /\ \A j \in k..Len(writes'[b]) : writes'[b][j].q = z.q => z.val <= writes'[b][j].val
                         /\ dirty[b][z.q] # 0 => z.val <= dirty[b][z.q]
            <4> DEFINE z == writes[b][k + 1]
            <4>1. writes'[b][k] = z /\ k + 1 \in 1..Len(writes[b])
                BY <1>4
            <4>2. /\ z.seq > 0 /\ Typed(typedOn, b, z.val)
                  /\ \A j \in (k + 1)..Len(writes[b]) : writes[b][j].q = z.q => z.val <= writes[b][j].val
                  /\ dirty[b][z.q] # 0 => z.val <= dirty[b][z.q]
                BY <1>5, <4>1 DEF Queue
            <4> HIDE DEF z
            <4>3. ASSUME NEW j \in k..Len(writes'[b]), writes'[b][j].q = z.q PROVE z.val <= writes'[b][j].val
                <5>1. j \in 1..Len(writes'[b]) /\ j + 1 \in (k + 1)..Len(writes[b])
                    BY <1>4
                <5> QED BY <1>4, <4>2, <4>3, <5>1
            <4> QED BY <4>1, <4>2, <4>3
        <3>2. \A x \in Questions : dirty[b][x] # 0 => Typed(typedOn, b, dirty[b][x])
            BY <1>5 DEF Queue
        <3>3. typedOn' = typedOn /\ dirty' = dirty
            BY <1>1
        <3>4. \A k \in 1..Len(writes'[c]) :
                  LET z == writes'[c][k]
                  IN  /\ z.seq > 0 /\ Typed(typedOn', c, z.val)
                      /\ \A j \in k..Len(writes'[c]) : writes'[c][j].q = z.q => z.val <= writes'[c][j].val
                      /\ dirty'[c][z.q] # 0 => z.val <= dirty'[c][z.q]
            BY <2>1, <3>1, <3>3
        <3>5. \A x \in Questions : dirty'[c][x] # 0 => Typed(typedOn', c, dirty'[c][x])
            BY <2>1, <3>2, <3>3
        <3> QED BY <3>4, <3>5 DEF Queue
    <2>2. CASE c # b
        BY <1>1, <1>3, <2>2 DEF Chronology, Queue
    <2> QED BY <2>1, <2>2
<1>9. RecordsMove
    BY <1>1, <1>6, PutMoves
<1>10. /\ OthersSame(b, w.q)
       /\ rec'[b][w.q].seq = IF rec[b][w.q].seq >= w.seq THEN rec[b][w.q].seq ELSE w.seq
       /\ rec'[b][w.q].val = IF rec[b][w.q].seq >= w.seq THEN rec[b][w.q].val ELSE w.val
    BY <1>1, <1>6, PutVersion
<1>11. rec[b][w.q].seq \in Nat
    BY <1>6, BoxFacts DEF Records, Record
<1>12. \A c \in Browsers : RestoreOn(c)
    BY <1>1 DEF RestoreOn
<1>13. CASE rec[b][w.q].seq >= w.seq
    <2>1. rec'[b][w.q].seq = rec[b][w.q].seq /\ rec'[b][w.q].val = rec[b][w.q].val
        BY <1>10, <1>13
    <2> QED BY <1>1, <1>6, <1>7, <1>8, <1>9, <1>10, <1>12, <2>1, SameVersion
<1>14. CASE ~(rec[b][w.q].seq >= w.seq)
    <2>1. rec'[b][w.q].seq = w.seq /\ rec'[b][w.q].val = w.val /\ rec[b][w.q].seq < w.seq
        BY <1>6, <1>10, <1>11, <1>14
    <2>2. Behind(b, w.q, w.val)
        BY <1>5 DEF Behind
    <2>3. ASSUME NEW t, NEW u, Around(w.q, t, u), u \in 1..edits, typedOn[u] = b PROVE u <= w.val
        <3>1. Behind(b, w.q, u)
            BY <1>6, <2>3 DEF Chronology, Fitting, Fits, Counted
        <3> QED BY <1>3, <3>1 DEF Behind
    <2>4. Arrives(b, w.q, w.seq, w.val)
        BY <1>6, <1>7, <2>1, <2>2, <2>3 DEF Arrives, Chronology, Counted
    <2> QED BY <1>1, <1>6, <1>7, <1>8, <1>9, <1>10, <1>12, <2>1, <2>4, OneVersion
<1> QED BY <1>13, <1>14

(* A question of a restore: what is queued again was typed here and comes  *)
(* before what has still to reach the outbox; what is taken over was       *)
(* around, and the server is not behind with it.                           *)
LEMMA RestoreQuestionOrder ==
    ASSUME AInv, AInv', Chronology, NEW b \in Browsers, NEW q \in Questions, RestoreQuestion(b, q)
    PROVE  Chronology'
<1>1. /\ q \in restore[b].left /\ restore' = [restore EXCEPT ![b].left = @ \ {q}]
      /\ UNCHANGED <<edits, typedOn, server, writes, dirty, pass, net, dto, unsaved>>
    BY DEF RestoreQuestion, serverVars
<1>2. /\ restore[b].local[q] \in Record /\ restore[b].server[q] \in Row
      /\ restore[b].server[q].seq <= server[q].seq
    BY <1>1, AsItWas DEF Sent, OldCopy
<1> PICK l \in Record : l = restore[b].local[q]
    BY <1>2
<1> PICK s \in Row : s = restore[b].server[q]
    BY <1>2
<1>3. l.seq \in Nat /\ l.val \in Vals /\ s.seq \in Nat /\ s.val \in Vals
    BY DEF Record, Row, Vals
<1>4. page[b].seq \in Nat /\ rec[b][q].seq \in Nat /\ rec[b][q] \in Record
    BY BoxFacts DEF AInv, Types, Page, Records, Record
<1>5. Around(q, l.seq, l.val) /\ Around(q, s.seq, s.val) /\ Around(q, rec[b][q].seq, rec[b][q].val)
    BY <1>1, Places
<1>6. Known(b, q) /\ Counted
    BY DEF Chronology
<1>7. \A c \in Browsers : RestoreOn(c)
    <2>1. restore \in [Browsers -> Restore] /\ restore[b] \in Restore
        BY DEF AInv, Types
    <2>2. /\ restore'[b].left = restore[b].left \ {q} /\ restore'[b].local = restore[b].local
          /\ restore'[b].server = restore[b].server
          /\ \A c \in Browsers : c # b => restore'[c] = restore[c]
        BY <1>1, <2>1 DEF Restore
    <2> QED BY <2>2 DEF RestoreOn
<1>8. /\ \A c \in Browsers, x \in Questions : \A v \in 1..edits : Behind(c, x, v) => Behind(c, x, v)'
      /\ \A c \in Browsers : Queue(c)'
    BY <1>1, StillQueued
<1>9. CASE UNCHANGED <<rec, box, requeued>>
    <2>1. RecordsMove
        BY <1>1, <1>9, NothingMoves
    <2>2. OthersSame(b, q) /\ rec'[b][q].seq = rec[b][q].seq /\ rec'[b][q].val = rec[b][q].val
        BY <1>9 DEF OthersSame
    <2> QED BY <1>1, <1>7, <1>8, <1>9, <2>1, <2>2, SameVersion
<1>10. CASE /\ l.seq > s.seq /\ putAnswer(b, q, l.val, page[b].seq + 1)
            /\ requeued' = requeued \union {l.val}
    <2>1. l.val \in 1..edits /\ typedOn[l.val] = b /\ Behind(b, q, l.val)
        <3>1. Fits(q, l.seq, l.val)
            BY <1>5 DEF Chronology, Fitting
        <3>2. l.val > 0 /\ l.val \in 1..edits
            BY <1>3, <1>6, <1>10, <3>1 DEF Fits, Counted
        <3>3. typedOn[l.val] = b
            BY <1>1, <1>3, <1>6, <1>10, <3>2 DEF Known, Foreign
        <3> QED BY <3>1, <3>2, <3>3 DEF Fits
    <2>2. PICK k \in Nat : k = page[b].seq + 1
        BY <1>4
    <2>3. putAnswer(b, q, l.val, k)
        BY <1>10, <2>2
    <2>4. RecordsMove
        BY <1>1, <1>3, <2>3, PutMoves
    <2>5. /\ OthersSame(b, q)
          /\ rec'[b][q].seq = IF rec[b][q].seq >= k THEN rec[b][q].seq ELSE k
          /\ rec'[b][q].val = IF rec[b][q].seq >= k THEN rec[b][q].val ELSE l.val
        BY <2>3, PutVersion
    <2>6. CASE rec[b][q].seq >= k
        <3>1. rec'[b][q].seq = rec[b][q].seq /\ rec'[b][q].val = rec[b][q].val
            BY <2>5, <2>6
        <3> QED BY <1>1, <1>7, <1>8, <1>10, <2>4, <2>5, <3>1, SameVersion
    <2>7. CASE ~(rec[b][q].seq >= k)
        <3>1. rec'[b][q].seq = k /\ rec'[b][q].val = l.val /\ rec[b][q].seq < k
            BY <1>4, <2>5, <2>7
        <3>2. Arrives(b, q, k, l.val)
            BY <1>8, <1>10, <2>1, <3>1 DEF Arrives
        <3> QED BY <1>1, <1>7, <1>8, <1>10, <2>1, <2>4, <2>5, <3>1, <3>2, OneVersion
    <2> QED BY <2>6, <2>7
<1>11. CASE l.seq <= s.seq /\ rememberDeliveredAnswer(b, q, s) /\ requeued' = requeued
    <2>1. RecordsMove
        BY <1>1, <1>2, <1>11, RememberMoves
    <2>2. /\ OthersSame(b, q)
          /\ rec'[b][q].seq = IF rec[b][q].seq >= s.seq THEN rec[b][q].seq ELSE s.seq
          /\ rec'[b][q].val = IF rec[b][q].seq >= s.seq THEN rec[b][q].val ELSE s.val
        BY <1>11, RememberVersion
    <2>3. CASE rec[b][q].seq >= s.seq
        <3>1. rec'[b][q].seq = rec[b][q].seq /\ rec'[b][q].val = rec[b][q].val
            BY <2>2, <2>3
        <3> QED BY <1>1, <1>7, <1>8, <1>11, <2>1, <2>2, <3>1, SameVersion
    <2>4. CASE ~(rec[b][q].seq >= s.seq)
        <3>1. s.seq <= server[q].seq /\ (dto[b] # NoTable => s.seq <= dto[b][q].seq)
            BY <1>1, <1>2, <1>6 DEF Known
        <3>2. rec'[b][q].seq = s.seq /\ rec'[b][q].val = s.val
            BY <2>2, <2>4
        <3> QED BY <1>1, <1>5, <1>7, <1>8, <1>11, <2>1, <2>2, <3>1, <3>2, OneVersion
    <2> QED BY <2>3, <2>4
<1>12. \/ UNCHANGED <<rec, box, requeued>>
       \/ l.seq > s.seq /\ putAnswer(b, q, l.val, page[b].seq + 1) /\ requeued' = requeued \union {l.val}
       \/ l.seq <= s.seq /\ rememberDeliveredAnswer(b, q, s) /\ requeued' = requeued
    BY DEF RestoreQuestion
<1> QED BY <1>9, <1>10, <1>11, <1>12

(* At the beginning nothing is typed and only empty rows are around.       *)
LEMMA InitOrder == Init => Chronology
<1> SUFFICES ASSUME Init PROVE Chronology
    OBVIOUS
<1>1. ASSUME NEW q \in Questions, NEW s, NEW v, Around(q, s, v) PROVE s = 0 /\ v = 0
    BY <1>1 DEF Init, Around, Is, InRecords, InPass, InNet, OnServer, InDto, InRestore,
                NoRow, NoRecord, IdlePass, NoRestore
<1>2. Counted
    BY DEF Init, Counted
<1>3. Fitting
    BY <1>1 DEF Init, Fitting, Fits
<1>4. InOrder
    BY <1>1 DEF InOrder
<1>5. ASSUME NEW b \in Browsers PROVE Queue(b) /\ \A q \in Questions : Known(b, q)
    BY DEF Init, Queue, Known, Foreign, NoRecord, NoRestore
<1> QED BY <1>2, <1>3, <1>4, <1>5 DEF Chronology

(* Every step keeps the order.                                             *)
LEMMA NextOrder == AInv /\ Chronology /\ [Next]_vars => Chronology'
<1> SUFFICES ASSUME AInv, Chronology, [Next]_vars PROVE Chronology'
    OBVIOUS
<1>1. AInv'
    BY NextInv
<1>2. CASE UNCHANGED vars
    BY <1>1, <1>2, Quiet DEF vars, SameVersions, RestoreOn
<1>3. ASSUME NEW r \in net, saveAnswer(r) PROVE Chronology'
    BY <1>1, <1>3, SaveAnswerOrder
<1>4. CASE Pause \/ Release \/ End
    BY <1>1, <1>4, AnswerAssumption, QuietSteps
<1>5. ASSUME NEW b \in Browsers, PageStep(b) PROVE Chronology'
    <2>1. ASSUME NEW q \in Questions, set(b, q) \/ persist(b, q) \/ RestoreQuestion(b, q)
          PROVE  Chronology'
        BY <1>1, <2>1, SetOrder, PersistOrder, RestoreQuestionOrder
    <2>2. CASE WriteLands(b) \/ flushAnswers(b) \/ SendNext(b) \/ apply(b) \/ Reload(b)
        BY <1>1, <2>2, WriteLandsOrder, FlushOrder, SendNextOrder, ApplyOrder, ReloadOrder
    <2>3. CASE \/ TimedOut(b) \/ Superseded(b) \/ LearnPaused(b) \/ submit(b) \/ load(b) \/ CheckPassed(b)
        BY <1>1, <2>3, QuietSteps
    <2>4. CASE \/ Delivered(b) \/ RefusedWhilePaused(b) \/ RefusedForGood(b) \/ HeartbeatActive(b)
               \/ LearnEnded(b) \/ RestoreDone(b) \/ abandonPendingAnswers(b)
        BY <1>1, <2>4, RecordSteps
    <2> QED BY <1>5, <2>1, <2>2, <2>3, <2>4 DEF PageStep
<1> QED BY <1>2, <1>3, <1>4, <1>5 DEF Next

(* Only the server's handling of an answer changes its table.              *)
LEMMA TableStays ==
    ASSUME Pause \/ Release \/ End \/ \E b \in Browsers : PageStep(b)
    PROVE  server' = server
<1>1. ASSUME Pause \/ Release \/ End PROVE server' = server
    BY <1>1, Zenon DEF Pause, Release, End
<1>2. ASSUME NEW b \in Browsers, PageStep(b) PROVE server' = server
    <2>1. ASSUME NEW q \in Questions, set(b, q) \/ persist(b, q) \/ RestoreQuestion(b, q)
          PROVE  server' = server
        BY <2>1 DEF set, persist, RestoreQuestion, serverVars
    <2>2. CASE WriteLands(b) \/ flushAnswers(b) \/ SendNext(b) \/ TimedOut(b)
        BY <2>2 DEF WriteLands, flushAnswers, SendNext, TimedOut, serverVars
    <2>3. CASE Delivered(b) \/ RefusedWhilePaused(b) \/ RefusedForGood(b) \/ Superseded(b)
        BY <2>3 DEF Delivered, RefusedWhilePaused, RefusedForGood, Superseded, serverVars
    <2>4. CASE CheckPassed(b) \/ load(b) \/ LearnPaused(b) \/ HeartbeatActive(b) \/ apply(b) \/ RestoreDone(b)
        BY <2>4 DEF CheckPassed, load, LearnPaused, HeartbeatActive, apply, RestoreDone, serverVars
    <2>5. CASE Reload(b) \/ submit(b) \/ LearnEnded(b) \/ abandonPendingAnswers(b)
        BY <2>5 DEF Reload, submit, LearnEnded, abandonPendingAnswers, serverVars
    <2> QED BY <1>2, <2>1, <2>2, <2>3, <2>4, <2>5 DEF PageStep
<1> QED BY <1>1, <1>2

(* The server never goes back to an answer typed earlier on the same       *)
(* device, however requests overtake one another, are repeated or arrive   *)
(* after reloads and other devices' turns; only a restore that queues an   *)
(* answer again under a new number can do that (candidate/answers.ts       *)
(* persist, services/candidate-actions.ts saveAnswer).                     *)
THEOREM NewestIsKept == Spec => NewestKeptOnOneDevice
<1>1. ASSUME AInv, Chronology, [Next]_vars, NEW q \in Questions, server'[q].val < server[q].val
      PROVE  typedOn[server'[q].val] # typedOn[server[q].val] \/ server'[q].val \in requeued
    <2>1. PICK r \in net : saveAnswer(r)
        <3>1. server' # server
            <4>1. server[q].val \in Nat
                BY <1>1, AnswerAssumption DEF AInv, Types, Rows, Row
            <4> QED BY <1>1, <4>1
        <3>2. ~UNCHANGED vars
            BY <3>1 DEF vars
        <3> QED BY <1>1, <3>1, <3>2, TableStays DEF Next
    <2>2. r.item \in Item /\ r.item.q \in Questions /\ r.item.seq \in Nat
        BY <1>1, AsItWas DEF Held, Item
    <2>3. server \in Rows /\ server[q] \in Row
        BY <1>1 DEF AInv, Types, Rows
    <2>4. /\ q = r.item.q /\ server[q].seq < r.item.seq
          /\ server'[q].seq = r.item.seq /\ server'[q].val = r.item.val
        <3>1. server' = [server EXCEPT ![r.item.q] = StoredRow(r)]
            BY <2>1 DEF saveAnswer
        <3>2. server'[q] # server[q]
            <4>1. server[q].val \in Nat
                BY <2>3, AnswerAssumption DEF Row
            <4> QED BY <1>1, <4>1
        <3>3. q = r.item.q /\ server'[q] = StoredRow(r)
            BY <2>2, <2>3, <3>1, <3>2 DEF Rows
        <3> QED BY <3>2, <3>3 DEF StoredRow
    <2>5. Around(q, r.item.seq, r.item.val) /\ Around(q, server[q].seq, server[q].val)
        BY <2>4 DEF Around, InNet, OnServer, Is
    <2> QED BY <1>1, <2>4, <2>5 DEF Chronology, InOrder
<1>2. AInv /\ Chronology /\ [Next]_vars
        => [\A q \in Questions :
               server'[q].val < server[q].val
                   => \/ typedOn[server'[q].val] # typedOn[server[q].val]
                      \/ server'[q].val \in requeued]_vars
    BY <1>1
<1>3. Spec => []Chronology
    BY InitOrder, NextOrder, AlwaysInv, PTL DEF Spec
<1> QED BY <1>2, <1>3, AlwaysInv, PTL DEF Spec, NewestKeptOnOneDevice

-----------------------------------------------------------------------------
(***************************************************************************)
(* The main lane: events and screenshots.                                  *)
(***************************************************************************)

Version == [id : Events, ver : 1..MaxVersion]
Phases == {"none", "events", "send", "remove", "images", "upload"}
Flight == [phase : Phases, batch : SUBSET Version, single : BOOLEAN,
           left : SUBSET (Version \union (1..Shots)), cur : SUBSET (Version \union (1..Shots)),
           failed : BOOLEAN]

(* A removal is about versions of events, an upload about screenshots, and *)
(* in the other phases nothing is in hand.                                 *)
FlightTyped ==
    /\ inflight \in Flight
    /\ inflight.phase = "remove" => inflight.left \subseteq Version /\ inflight.cur \subseteq Version
    /\ inflight.phase = "upload" => inflight.left \subseteq 1..Shots /\ inflight.cur \subseteq 1..Shots
    /\ inflight.phase \notin {"remove", "upload"} => inflight.left = {} /\ inflight.cur = {}

LaneTypes == OutboxTypeOK /\ FlightTyped

(* The queue holds the newest version of an event or none, and neither the *)
(* server nor the pass has one that was never reported.                    *)
Versions ==
    /\ \A e \in Events : events[e] \in {0, latest[e]} /\ stored[e] <= latest[e]
    /\ \A r \in inflight.batch : r.ver <= latest[r.id]

(* The server has this version or a newer one, or has refused the event.   *)
Settled(r) == stored[r.id] >= r.ver \/ Key("event", r.id) \in dropped

(* What is being removed is settled, and the record holds nothing newer    *)
(* unless it came after the removal's read.                                *)
Removals ==
    inflight.phase = "remove" =>
        /\ \A r \in inflight.left \union inflight.cur : r.ver <= latest[r.id] /\ Settled(r)
        /\ \A r \in inflight.cur : events[r.id] <= r.ver \/ r.id \in overtaken

(* The server has the event, in whatever version, or refused it.           *)
Told(e) == stored[e] > 0 \/ Key("event", e) \in dropped

(* No event reported is forgotten, not even in a removal's window.         *)
NoneForgotten == \A e \in Events : latest[e] > 0 => events[e] > 0 \/ Told(e)

(* Screenshots are taken of events reported before; the one on its way     *)
(* follows its event.                                                      *)
Shown ==
    /\ images \subseteq 1..shots
    /\ \A i \in 1..shots : latest[EventOf[i]] > 0
    /\ inflight.phase = "upload" => \A i \in inflight.cur : Told(EventOf[i])

\* "after events so the event exists server-side" (outbox.ts:607): a screenshot the
\* server has been sent belongs to an event it has, in some version, or has refused.
ScreenshotFollowsEvent == \A i \in received : Told(EventOf[i])

\* A screenshot taken is queued, on the server, or reported as dropped.
ScreenshotsKept == \A i \in 1..shots : i \in images \/ i \in received \/ Key("image", i) \in dropped

\* Only an event that the server refuses is ever dropped.
OnlyRefusedDropped == \A e \in Events : Key("event", e) \in dropped => Fate[e] # "accept"

LaneInv ==
    /\ LaneTypes /\ Versions /\ Removals /\ NoneForgotten /\ Shown /\ IndexExact
    /\ NewestVersionKept /\ ScreenshotFollowsEvent /\ ScreenshotsKept /\ OnlyRefusedDropped

(***************************************************************************)
(* Ingest keeps the highest version.                                       *)
(***************************************************************************)

(* Of the versions of an event in the request and the stored one, Max is   *)
(* one, and none is higher.                                                *)
LEMMA HighestVersion ==
    ASSUME NEW n \in 0..MaxVersion, NEW V \in SUBSET (1..MaxVersion)
    PROVE  LET m == Max({n} \union V) IN m \in {n} \union V /\ m >= n /\ \A v \in V : m >= v
<1> DEFINE S == {n} \union V
<1>1. MaxVersion \in Nat
    BY OutboxAssumption
<1>2. S \subseteq 0..MaxVersion /\ S # {}
    BY <1>1
<1>3. IsFiniteSet(0..MaxVersion)
    BY <1>1, FS_Interval
<1>4. IsFiniteSet(S)
    BY <1>2, <1>3, FS_Subset
<1>5. S \in SUBSET Nat
    BY <1>1, <1>2
<1>6. \E m \in S : \A y \in S : m >= y
    <2> HIDE DEF S
    <2> QED BY <1>2, <1>4, <1>5, LargestExists
<1>7. Max(S) \in S /\ \A y \in S : Max(S) >= y
    BY <1>6 DEF Max
<1> QED BY <1>7

(* Ingest never lowers a version, never invents one, and takes what is     *)
(* accepted.                                                               *)
LEMMA IngestRaises ==
    ASSUME stored \in [Events -> 0..MaxVersion], NEW rs \in SUBSET Version
    PROVE  /\ Ingest(rs) \in [Events -> 0..MaxVersion]
           /\ \A e \in Events : /\ Ingest(rs)[e] >= stored[e]
                                /\ Ingest(rs)[e] = stored[e] \/ \E r \in rs : r.id = e /\ Ingest(rs)[e] = r.ver
           /\ \A r \in rs : Fate[r.id] = "accept" => Ingest(rs)[r.id] >= r.ver
<1> DEFINE V(e) == {r.ver : r \in {x \in rs : x.id = e}}
<1>1. MaxVersion \in Nat
    BY OutboxAssumption
<1>2. ASSUME NEW e \in Events
      PROVE  /\ stored[e] \in 0..MaxVersion /\ V(e) \subseteq 1..MaxVersion
             /\ Max({stored[e]} \union V(e)) \in {stored[e]} \union V(e)
             /\ Max({stored[e]} \union V(e)) >= stored[e]
             /\ \A v \in V(e) : Max({stored[e]} \union V(e)) >= v
    <2>1. stored[e] \in 0..MaxVersion /\ V(e) \in SUBSET (1..MaxVersion)
        BY DEF Version
    <2> HIDE DEF V
    <2> QED BY <2>1, HighestVersion
<1>3. \A e \in Events : Ingest(rs)[e] = IF Fate[e] = "accept" THEN Max({stored[e]} \union V(e)) ELSE stored[e]
    BY DEF Ingest
<1>4. ASSUME NEW e \in Events
      PROVE  /\ Ingest(rs)[e] \in 0..MaxVersion
             /\ Ingest(rs)[e] >= stored[e]
             /\ Ingest(rs)[e] = stored[e] \/ \E r \in rs : r.id = e /\ Ingest(rs)[e] = r.ver
    <2>1. stored[e] \in 0..MaxVersion /\ V(e) \subseteq 1..MaxVersion
        BY <1>2
    <2>2. \A v \in V(e) : \E r \in rs : r.id = e /\ v = r.ver
        OBVIOUS
    <2> HIDE DEF V
    <2>3. CASE Fate[e] = "accept"
        <3>1. Ingest(rs)[e] \in {stored[e]} \union V(e) /\ Ingest(rs)[e] >= stored[e]
            BY <1>2, <1>3, <2>3
        <3>2. Ingest(rs)[e] \in 0..MaxVersion
            BY <1>1, <2>1, <3>1
        <3>3. CASE Ingest(rs)[e] = stored[e]
            BY <3>1, <3>2, <3>3
        <3>4. CASE Ingest(rs)[e] \in V(e)
            BY <2>2, <3>1, <3>2, <3>4
        <3> QED BY <3>1, <3>3, <3>4
    <2>4. CASE Fate[e] # "accept"
        <3>1. Ingest(rs)[e] = stored[e]
            BY <1>3, <2>4
        <3> QED BY <1>1, <2>1, <3>1
    <2> QED BY <2>3, <2>4
<1>5. ASSUME NEW r \in rs, Fate[r.id] = "accept" PROVE Ingest(rs)[r.id] >= r.ver
    <2>1. r.id \in Events /\ r.ver \in V(r.id)
        BY DEF Version
    <2>2. Ingest(rs)[r.id] = Max({stored[r.id]} \union V(r.id))
        BY <1>3, <1>5, <2>1
    <2> QED BY <1>2, <2>1, <2>2
<1>6. Ingest(rs) = [e \in Events |-> Ingest(rs)[e]]
    BY DEF Ingest
<1> QED BY <1>4, <1>5, <1>6

(***************************************************************************)
(* The types.                                                              *)
(***************************************************************************)

(* Nothing is in hand.                                                     *)
LEMMA NewFlightTyped ==
    ASSUME NEW p \in Phases \ {"remove", "upload"}, NEW f \in BOOLEAN,
           inflight' = [phase |-> p, batch |-> {}, single |-> FALSE, left |-> {}, cur |-> {}, failed |-> f]
    PROVE  FlightTyped'
<1>1. inflight' \in Flight
    BY DEF Flight
<1>2. inflight'.phase = p /\ inflight'.left = {} /\ inflight'.cur = {}
    OBVIOUS
<1> QED BY <1>1, <1>2 DEF FlightTyped

(* No pass, or one that begins.                                            *)
LEMMA FlightBegins ==
    ASSUME \/ inflight' = NoPass
           \/ inflight' = [NoPass EXCEPT !.phase = "events"]
           \/ inflight' = [NoPass EXCEPT !.phase = "images", !.failed = TRUE]
    PROVE  FlightTyped' /\ inflight'.batch = {} /\ inflight'.phase \notin {"remove", "upload"}
<1>1. CASE inflight' = NoPass
    <2>1. inflight' = [phase |-> "none", batch |-> {}, single |-> FALSE, left |-> {}, cur |-> {}, failed |-> FALSE]
        BY <1>1 DEF NoPass
    <2> QED BY <2>1, NewFlightTyped DEF Phases
<1>2. CASE inflight' = [NoPass EXCEPT !.phase = "events"]
    <2>1. inflight' = [phase |-> "events", batch |-> {}, single |-> FALSE, left |-> {}, cur |-> {}, failed |-> FALSE]
        BY <1>2 DEF NoPass
    <2> QED BY <2>1, NewFlightTyped DEF Phases
<1>3. CASE inflight' = [NoPass EXCEPT !.phase = "images", !.failed = TRUE]
    <2>1. inflight' = [phase |-> "images", batch |-> {}, single |-> FALSE, left |-> {}, cur |-> {}, failed |-> TRUE]
        BY <1>3 DEF NoPass
    <2> QED BY <2>1, NewFlightTyped DEF Phases
<1> QED BY <1>1, <1>2, <1>3

(* After a removal the pass goes on with the rest of the batch, or with    *)
(* the screenshots.                                                        *)
LEMMA FlightGoesOn ==
    ASSUME FlightTyped, NEW s \in SUBSET inflight.left, inflight.phase = "remove",
           inflight' = AfterRemoval(s)
    PROVE  /\ FlightTyped'
           /\ inflight'.batch = inflight.batch /\ inflight'.cur = {}
           /\ inflight'.phase # "upload"
           /\ inflight'.phase = "remove" => inflight'.left = s
<1>1. inflight' = [phase |-> IF s # {} THEN "remove" ELSE IF inflight.batch # {} THEN "send" ELSE "images",
                   batch |-> inflight.batch, single |-> inflight.single, left |-> s, cur |-> {},
                   failed |-> inflight.failed]
    BY DEF AfterRemoval, FlightTyped, Flight
<1>2. s \subseteq Version /\ s \subseteq Version \union (1..Shots)
    BY DEF FlightTyped
<1> QED BY <1>1, <1>2 DEF FlightTyped, Flight, Phases

(* Only the pass's own steps and the callers of flush change it.           *)
LEMMA SameFlightTyped ==
    ASSUME FlightTyped, UNCHANGED inflight
    PROVE  FlightTyped'
BY DEF FlightTyped

(* What goes out is part of the batch.                                     *)
LEMMA OutgoingInBatch ==
    ASSUME NEW rs \in Outgoing
    PROVE  rs \subseteq inflight.batch
BY DEF Outgoing

(* A screenshot is queued, and over the limit some leave the queue, the    *)
(* new one perhaps.                                                        *)
LEMMA ScreenshotTaken ==
    ASSUME putEvidence
    PROVE  \E over \in SUBSET (images \union {shots + 1}) :
              /\ images' = (images \union {shots + 1}) \ over
              /\ index' = (index \union {Key("image", shots + 1)}) \ {Key("image", i) : i \in over}
              /\ dropped' = dropped \union {Key("image", i) : i \in over}
<1> DEFINE all == images \union {shots + 1}
           over == {i \in all : Cardinality({j \in all : j >= i}) > MaxShots}
<1>1. /\ images' = all \ over
      /\ index' = (index \union {Key("image", shots + 1)}) \ {Key("image", i) : i \in over}
      /\ dropped' = dropped \union {Key("image", i) : i \in over}
    BY Zenon DEF putEvidence
<1>2. over \in SUBSET all
    OBVIOUS
<1> HIDE DEF over
<1> QED BY <1>1, <1>2

(* The variables have their types after every step.                        *)
LEMMA LaneTypesKept ==
    ASSUME LaneTypes, [OutboxNext]_outboxVars
    PROVE  LaneTypes'
<1> USE OutboxAssumption DEF LaneTypes
<1> USE DEF store, remote, worker, env
<1>1. ASSUME NEW e \in Events, putEvent(e) PROVE LaneTypes'
    <2>1. OutboxTypeOK'
        <3>1. timer' \in BOOLEAN
            BY <1>1 DEF putEvent, kick, OutboxTypeOK
        <3>2. latest' \in [Events -> 0..MaxVersion] /\ events' \in [Events -> 0..MaxVersion]
            BY <1>1 DEF putEvent, OutboxTypeOK
        <3>3. index' \subseteq ({"event"} \X Events) \union ({"image"} \X (1..Shots)) /\ overtaken' \subseteq Events
            BY <1>1 DEF putEvent, OutboxTypeOK, Key
        <3> QED BY <1>1, <3>1, <3>2, <3>3 DEF putEvent, OutboxTypeOK
    <2> QED BY <1>1, <2>1, SameFlightTyped DEF putEvent
<1>2. CASE putEvidence
    <2>1. OutboxTypeOK'
        <3>1. timer' \in BOOLEAN
            BY <1>2 DEF putEvidence, kick, OutboxTypeOK
        <3>2. PICK over \in SUBSET (images \union {shots + 1}) :
                  /\ images' = (images \union {shots + 1}) \ over
                  /\ index' = (index \union {Key("image", shots + 1)}) \ {Key("image", i) : i \in over}
                  /\ dropped' = dropped \union {Key("image", i) : i \in over}
            BY <1>2, ScreenshotTaken
        <3>3. shots < Shots /\ shots' = shots + 1
            BY <1>2 DEF putEvidence
        <3>4. shots' \in 0..Shots /\ shots + 1 \in 1..Shots
            BY <3>3 DEF OutboxTypeOK
        <3>5. images \union {shots + 1} \subseteq 1..Shots
            BY <3>4 DEF OutboxTypeOK
        <3>6. images' \subseteq 1..Shots
            BY <3>2, <3>5
        <3>7. index' \subseteq ({"event"} \X Events) \union ({"image"} \X (1..Shots))
            <4>1. Key("image", shots + 1) \in {"image"} \X (1..Shots)
                BY <3>4 DEF Key
            <4> QED BY <3>2, <4>1 DEF OutboxTypeOK
        <3>8. dropped' \subseteq ({"event"} \X Events) \union ({"image"} \X (1..Shots))
            <4>1. \A i \in over : Key("image", i) \in {"image"} \X (1..Shots)
                BY <3>2, <3>5 DEF Key
            <4> QED BY <3>2, <4>1 DEF OutboxTypeOK
        <3> QED BY <1>2, <3>1, <3>4, <3>6, <3>7, <3>8 DEF putEvidence, OutboxTypeOK
    <2> QED BY <1>2, <2>1, SameFlightTyped DEF putEvidence
<1>3. CASE discardImages
    <2>1. OutboxTypeOK'
        <3>1. timer' \in BOOLEAN
            BY <1>3 DEF discardImages, kick, OutboxTypeOK
        <3>2. index' \subseteq ({"event"} \X Events) \union ({"image"} \X (1..Shots))
              /\ dropped' \subseteq ({"event"} \X Events) \union ({"image"} \X (1..Shots))
            BY <1>3 DEF discardImages, OutboxTypeOK, Key
        <3> QED BY <1>3, <3>1, <3>2 DEF discardImages, OutboxTypeOK
    <2> QED BY <1>3, <2>1, SameFlightTyped DEF discardImages
<1>4. CASE runWorker
    <2>1. OutboxTypeOK'
        <3>1. UNCHANGED <<latest, events, images, shots, index, stored, received, dropped, overtaken,
                          gate, replaced, online, outages, reloads, backoff, fatal>>
            BY <1>4 DEF runWorker
        <3>2. timer' \in BOOLEAN /\ awaiting' \in BOOLEAN /\ rerun' \in BOOLEAN
            BY <1>4 DEF runWorker, flush, OutboxTypeOK
        <3>3. inflight'.phase \in Phases
            BY <1>4, FlightBegins DEF runWorker, flush, FlightTyped, Flight, NoPass, Phases
        <3> QED BY <3>1, <3>2, <3>3 DEF OutboxTypeOK, Phases
    <2>2. FlightTyped'
        BY <1>4, FlightBegins, SameFlightTyped DEF runWorker, flush
    <2> QED BY <2>1, <2>2
<1>5. CASE flushNow
    <2>1. FlightTyped'
        BY <1>5, FlightBegins, SameFlightTyped DEF flushNow, flush
    <2>2. OutboxTypeOK'
        BY <1>5, <2>1 DEF OutboxTypeOK, flushNow, flush, FlightTyped, Flight, Phases
    <2> QED BY <2>1, <2>2
<1>6. CASE onOnline
    <2>1. OutboxTypeOK'
        BY <1>6 DEF OutboxTypeOK, onOnline
    <2> QED BY <1>6, <2>1, SameFlightTyped DEF onOnline
<1>7. CASE ReadEvents
    <2>1. FlightTyped'
        <3> DEFINE queued == {[id |-> e, ver |-> events[e]] : e \in {x \in Events : events[x] > 0}}
        <3>1. queued \subseteq Version
            BY DEF OutboxTypeOK, Version
        <3>2. inflight \in Flight /\ inflight.phase = "events" /\ inflight.left = {} /\ inflight.cur = {}
            BY <1>7 DEF ReadEvents, InPhase, FlightTyped
        <3>3. inflight' = IF queued = {} THEN [inflight EXCEPT !.phase = "images"]
                          ELSE [inflight EXCEPT !.phase = "send", !.batch = queued]
            BY <1>7 DEF ReadEvents
        <3> HIDE DEF queued
        <3> QED BY <3>1, <3>2, <3>3 DEF FlightTyped, Flight, Phases
    <2> QED BY <1>7, <2>1 DEF ReadEvents, OutboxTypeOK, FlightTyped, Flight, Phases
<1>8. CASE EventsAccepted
    <2>1. PICK rs \in Outgoing : /\ stored' = Ingest(rs)
                                 /\ dropped' = dropped \union {Key("event", r.id) : r \in {x \in rs : Fate[x.id] = "reject"}}
                                 /\ inflight' = [inflight EXCEPT !.phase = "remove", !.left = rs, !.batch = @ \ rs]
        BY <1>8 DEF EventsAccepted
    <2>2. inflight \in Flight /\ inflight.phase = "send" /\ inflight.left = {} /\ inflight.cur = {}
        BY <1>8 DEF EventsAccepted, InPhase, FlightTyped
    <2>3. rs \subseteq Version
        BY <2>2, OutgoingInBatch DEF Flight
    <2>4. FlightTyped'
        BY <2>1, <2>2, <2>3 DEF FlightTyped, Flight, Phases
    <2>5. stored' \in [Events -> 0..MaxVersion]
        BY <2>1, <2>3, IngestRaises DEF OutboxTypeOK
    <2>6. dropped' \subseteq ({"event"} \X Events) \union ({"image"} \X (1..Shots))
        BY <2>1, <2>3 DEF OutboxTypeOK, Key, Version
    <2> QED BY <1>8, <2>4, <2>5, <2>6 DEF EventsAccepted, OutboxTypeOK, FlightTyped, Flight, Phases
<1>9. CASE EventsRefused
    <2>1. PICK rs \in Outgoing : IF inflight.single
                                 THEN /\ dropped' = dropped \union {Key("event", r.id) : r \in rs}
                                      /\ inflight' = [inflight EXCEPT !.phase = "remove", !.left = rs, !.batch = @ \ rs]
                                 ELSE /\ inflight' = [inflight EXCEPT !.single = TRUE]
                                      /\ UNCHANGED dropped
        BY <1>9 DEF EventsRefused
    <2>2. inflight \in Flight /\ inflight.phase = "send" /\ inflight.left = {} /\ inflight.cur = {}
        BY <1>9 DEF EventsRefused, InPhase, FlightTyped
    <2>3. rs \subseteq Version
        BY <2>2, OutgoingInBatch DEF Flight
    <2>4. FlightTyped'
        <3>1. CASE inflight.single
            <4>1. inflight' = [inflight EXCEPT !.phase = "remove", !.left = rs, !.batch = @ \ rs]
                BY <2>1, <3>1
            <4> QED BY <2>2, <2>3, <4>1 DEF FlightTyped, Flight, Phases
        <3>2. CASE ~inflight.single
            <4>1. inflight' = [inflight EXCEPT !.single = TRUE]
                BY <2>1, <3>2
            <4> QED BY <2>2, <4>1 DEF FlightTyped, Flight
        <3> QED BY <3>1, <3>2
    <2>5. dropped' \subseteq ({"event"} \X Events) \union ({"image"} \X (1..Shots))
        BY <2>1, <2>3 DEF OutboxTypeOK, Key, Version
    <2> QED BY <1>9, <2>4, <2>5 DEF EventsRefused, OutboxTypeOK, FlightTyped, Flight, Phases
<1>10. CASE EventsFailed
    <2>1. FlightTyped'
        BY <1>10, FlightBegins DEF EventsFailed
    <2>2. stored' \in [Events -> 0..MaxVersion]
        <3>1. \A rs \in Outgoing : rs \subseteq Version
            BY OutgoingInBatch DEF FlightTyped, Flight
        <3> QED BY <1>10, <3>1, IngestRaises DEF EventsFailed, OutboxTypeOK
    <2> QED BY <1>10, <2>1, <2>2 DEF EventsFailed, OutboxTypeOK, FlightTyped, Flight, Phases
<1>11. CASE RemovalReads
    <2>1. PICK r \in inflight.left : inflight' = IF events[r.id] > r.ver THEN AfterRemoval(inflight.left \ {r})
                                                 ELSE [inflight EXCEPT !.cur = {r}]
        BY <1>11 DEF RemovalReads
    <2>2. inflight \in Flight /\ inflight.phase = "remove" /\ inflight.left \subseteq Version
        BY <1>11 DEF RemovalReads, InPhase, FlightTyped
    <2>3. FlightTyped'
        <3>1. CASE inflight' = AfterRemoval(inflight.left \ {r})
            BY <2>2, <3>1, FlightGoesOn
        <3>2. CASE inflight' = [inflight EXCEPT !.cur = {r}]
            BY <2>2, <3>2 DEF FlightTyped, Flight
        <3> QED BY <2>1, <3>1, <3>2
    <2> QED BY <1>11, <2>3 DEF RemovalReads, OutboxTypeOK, FlightTyped, Flight, Phases
<1>12. CASE RemovalDeletes
    <2>1. PICK r \in inflight.cur : /\ events' = [events EXCEPT ![r.id] = 0]
                                    /\ index' = index \ {Key("event", r.id)}
                                    /\ inflight' = AfterRemoval(inflight.left \ {r})
        BY <1>12 DEF RemovalDeletes
    <2>2. inflight.phase = "remove"
        BY <1>12 DEF RemovalDeletes, InPhase
    <2>3. FlightTyped'
        BY <2>1, <2>2, FlightGoesOn
    <2>4. events' \in [Events -> 0..MaxVersion]
        <3>1. r.id \in Events
            BY <2>2 DEF FlightTyped, Version
        <3> QED BY <2>1, <3>1 DEF OutboxTypeOK
    <2>5. index' \subseteq ({"event"} \X Events) \union ({"image"} \X (1..Shots))
        BY <2>1 DEF OutboxTypeOK
    <2> QED BY <1>12, <2>3, <2>4, <2>5 DEF RemovalDeletes, OutboxTypeOK, FlightTyped, Flight, Phases
<1>13. CASE ReadImages
    <2>1. FlightTyped'
        BY <1>13 DEF ReadImages, InPhase, FlightTyped, Flight, Phases, OutboxTypeOK
    <2> QED BY <1>13, <2>1 DEF ReadImages, OutboxTypeOK, FlightTyped, Flight, Phases
<1>14. CASE NextImage
    <2> DEFINE i == Min(inflight.left)
    <2>1. inflight' = IF Waits(i) \/ i \notin images THEN [inflight EXCEPT !.left = @ \ {i}]
                      ELSE [inflight EXCEPT !.left = @ \ {i}, !.cur = {i}]
        BY <1>14 DEF NextImage
    <2>2. inflight.phase = "upload"
        BY <1>14 DEF NextImage, InPhase
    <2> HIDE DEF i
    <2>3. FlightTyped'
        BY <2>1, <2>2 DEF FlightTyped, Flight, Phases, OutboxTypeOK
    <2> QED BY <1>14, <2>3 DEF NextImage, OutboxTypeOK, FlightTyped, Flight, Phases
<1>15. CASE ImageUploaded
    <2>1. FlightTyped'
        BY <1>15 DEF ImageUploaded, InPhase, FlightTyped, Flight, Phases
    <2> QED BY <1>15, <2>1 DEF ImageUploaded, InPhase, OutboxTypeOK, FlightTyped, Flight, Phases
<1>22. CASE ImageRefused
    <2>1. FlightTyped'
        BY <1>22 DEF ImageRefused, InPhase, FlightTyped, Flight, Phases
    <2>2. dropped' \subseteq ({"event"} \X Events) \union ({"image"} \X (1..Shots))
        BY <1>22 DEF ImageRefused, InPhase, FlightTyped, OutboxTypeOK, Key
    <2> QED BY <1>22, <2>1, <2>2 DEF ImageRefused, remote, OutboxTypeOK, FlightTyped, Flight, Phases
<1>16. CASE UploadFailed
    <2>1. FlightTyped'
        BY <1>16 DEF UploadFailed, InPhase, FlightTyped, Flight, Phases
    <2>2. received' \subseteq 1..Shots
        BY <1>16 DEF UploadFailed, InPhase, FlightTyped, OutboxTypeOK
    <2> QED BY <1>16, <2>1, <2>2 DEF UploadFailed, OutboxTypeOK, FlightTyped, Flight, Phases
<1>17. CASE PassOver
    <2>1. FlightTyped'
        BY <1>17, FlightBegins DEF PassOver
    <2>2. timer' \in BOOLEAN /\ backoff' \in BOOLEAN /\ rerun' \in BOOLEAN /\ awaiting' \in BOOLEAN
        BY <1>17 DEF PassOver, OutboxTypeOK, FlightTyped, Flight
    <2> QED BY <1>17, <2>1, <2>2 DEF PassOver, OutboxTypeOK, FlightTyped, Flight, Phases
<1>18. CASE Refused
    <2>1. FlightTyped'
        BY <1>18, FlightBegins DEF Refused
    <2> QED BY <1>18, <2>1 DEF Refused, OutboxTypeOK, FlightTyped, Flight, Phases
<1>19. CASE NetworkFails \/ NetworkReturns \/ LoseControl \/ Verified
    <2>1. FlightTyped'
        BY <1>19, SameFlightTyped DEF NetworkFails, NetworkReturns, LoseControl, Verified
    <2>2. CASE NetworkFails
        <3>1. outages' \in 0..MaxOutages
            BY <2>2 DEF NetworkFails, OutboxTypeOK
        <3> QED BY <2>1, <2>2, <3>1 DEF NetworkFails, OutboxTypeOK
    <2>3. CASE NetworkReturns \/ LoseControl
        BY <2>1, <2>3 DEF NetworkReturns, LoseControl, OutboxTypeOK
    <2>4. CASE Verified
        <3>1. timer' \in BOOLEAN
            BY <2>4 DEF Verified, kick, OutboxTypeOK
        <3> QED BY <2>1, <2>4, <3>1 DEF Verified, OutboxTypeOK
    <2> QED BY <1>19, <2>2, <2>3, <2>4
<1>20. CASE Restart
    <2>1. FlightTyped'
        BY <1>20, FlightBegins DEF Restart
    <2>2. index' \subseteq ({"event"} \X Events) \union ({"image"} \X (1..Shots))
        BY <1>20 DEF Restart, OutboxTypeOK, Key
    <2>3. reloads' \in 0..MaxReloads
        BY <1>20 DEF Restart, OutboxTypeOK
    <2> QED BY <1>20, <2>1, <2>2, <2>3 DEF Restart, OutboxTypeOK, FlightTyped, Flight, Phases
<1>21. CASE UNCHANGED outboxVars
    <2>1. FlightTyped'
        BY <1>21, SameFlightTyped DEF outboxVars
    <2>2. OutboxTypeOK'
        BY <1>21, ZenonT(60) DEF outboxVars, OutboxTypeOK
    <2> QED BY <2>1, <2>2
<1> QED
    BY <1>1, <1>2, <1>3, <1>4, <1>5, <1>6, <1>7, <1>8, <1>9, <1>10, <1>11, <1>12, <1>13, <1>14, <1>15, <1>16,
       <1>17, <1>18, <1>19, <1>20, <1>21, <1>22 DEF OutboxNext, FlushStep

(***************************************************************************)
(* The invariant.                                                          *)
(***************************************************************************)

(* What the index says of an item is whether the item is queued.           *)
LEMMA IndexTells ==
    ASSUME IndexExact
    PROVE  /\ \A e \in Events : Key("event", e) \in index <=> events[e] > 0
           /\ \A i : Key("image", i) \in index <=> i \in images
BY DEF IndexExact, Key

(* A step that leaves the queue alone and of which the server only learns. *)
LEMMA ServerLearns ==
    ASSUME LaneInv, LaneTypes', UNCHANGED <<latest, events, images, shots, index, overtaken>>,
           dropped \subseteq dropped', OnlyRefusedDropped',
           \A e \in Events : stored[e] <= stored'[e] /\ stored'[e] <= latest[e],
           received \subseteq received', \A i \in received' : i \in received \/ Told(EventOf[i]),
           \A r \in inflight'.batch : r.ver <= latest[r.id],
           Removals',
           inflight'.phase = "upload" => \A i \in inflight'.cur : Told(EventOf[i])
    PROVE  LaneInv'
<1> USE DEF LaneInv
<1>1. /\ \A e \in Events : /\ latest[e] \in Nat /\ events[e] \in Nat
                            /\ stored[e] \in Nat /\ stored'[e] \in Nat
      /\ EventOf \in [1..Shots -> Events] /\ received' \subseteq 1..Shots
    <2>1. \A e \in Events : latest[e] \in 0..MaxVersion /\ events[e] \in 0..MaxVersion /\ stored[e] \in 0..MaxVersion
        BY DEF LaneTypes, OutboxTypeOK
    <2>2. (\A e \in Events : stored'[e] \in 0..MaxVersion) /\ received' \subseteq 1..Shots
        BY DEF LaneTypes, OutboxTypeOK
    <2> QED BY <2>1, <2>2, OutboxAssumption
<1>2. \A e \in Events : Told(e) => Told(e)'
    BY <1>1 DEF Told
<1>3. \A e \in Events : Safe(e) => Safe(e)'
    BY <1>1 DEF Safe
<1>4. Versions'
    BY <1>1 DEF Versions
<1>5. NoneForgotten'
    BY <1>2 DEF NoneForgotten
<1>6. Shown'
    <2>1. inflight'.phase = "upload" => inflight'.cur \subseteq 1..Shots
        BY DEF LaneTypes, FlightTyped
    <2>2. inflight'.phase = "upload" => \A i \in inflight'.cur : Told(EventOf[i])'
        BY <1>1, <1>2, <2>1
    <2> QED BY <2>2 DEF Shown
<1>7. IndexExact'
    BY DEF IndexExact
<1>8. NewestVersionKept'
    BY <1>3 DEF NewestVersionKept
<1>9. ScreenshotFollowsEvent'
    BY <1>1, <1>2 DEF ScreenshotFollowsEvent
<1>10. ScreenshotsKept'
    BY DEF ScreenshotsKept
<1> QED BY <1>4, <1>5, <1>6, <1>7, <1>8, <1>9, <1>10

(* A step that only ends a pass, begins one, or leaves it alone.           *)
LEMMA NothingLearned ==
    ASSUME LaneInv, LaneTypes',
           UNCHANGED <<latest, events, images, shots, index, stored, received, dropped, overtaken>>,
           \/ UNCHANGED inflight
           \/ inflight'.batch = {} /\ inflight'.phase \notin {"remove", "upload"}
    PROVE  LaneInv'
<1>1. \A e \in Events : stored[e] <= stored'[e] /\ stored'[e] <= latest[e]
    <2>1. \A e \in Events : stored[e] \in Nat
        BY OutboxAssumption DEF LaneInv, LaneTypes, OutboxTypeOK
    <2> QED BY <2>1 DEF LaneInv, Versions
<1>2. OnlyRefusedDropped'
    BY DEF LaneInv, OnlyRefusedDropped
<1>3. \A r \in inflight'.batch : r.ver <= latest[r.id]
    BY DEF LaneInv, Versions
<1>4. Removals'
    BY DEF LaneInv, Removals, Settled
<1>5. inflight'.phase = "upload" => \A i \in inflight'.cur : Told(EventOf[i])
    BY DEF LaneInv, Shown
<1> QED BY <1>1, <1>2, <1>3, <1>4, <1>5, ServerLearns

(* The server takes what goes out, or it does not; never anything else.    *)
LEMMA IngestWithinReported ==
    ASSUME LaneInv, NEW rs \in Outgoing
    PROVE  /\ rs \subseteq Version
           /\ \A r \in rs : r.ver <= latest[r.id]
           /\ \A e \in Events : stored[e] <= Ingest(rs)[e] /\ Ingest(rs)[e] <= latest[e]
           /\ \A r \in rs : Fate[r.id] = "accept" => Ingest(rs)[r.id] >= r.ver
<1>1. rs \subseteq inflight.batch /\ rs \subseteq Version
    BY OutgoingInBatch DEF LaneInv, LaneTypes, FlightTyped, Flight
<1>2. \A r \in rs : r.ver <= latest[r.id]
    BY <1>1 DEF LaneInv, Versions
<1>3. stored \in [Events -> 0..MaxVersion] /\ \A e \in Events : stored[e] <= latest[e]
    BY DEF LaneInv, LaneTypes, OutboxTypeOK, Versions
<1>4. /\ \A e \in Events : /\ Ingest(rs)[e] >= stored[e]
                           /\ Ingest(rs)[e] = stored[e] \/ \E r \in rs : r.id = e /\ Ingest(rs)[e] = r.ver
      /\ \A r \in rs : Fate[r.id] = "accept" => Ingest(rs)[r.id] >= r.ver
      /\ Ingest(rs) \in [Events -> 0..MaxVersion]
    BY <1>1, <1>3, IngestRaises
<1>5. \A e \in Events : stored[e] \in Nat /\ Ingest(rs)[e] \in Nat
    BY <1>3, <1>4, OutboxAssumption
<1>6. \A e \in Events : stored[e] <= Ingest(rs)[e]
    BY <1>4, <1>5
<1>7. \A e \in Events : Ingest(rs)[e] <= latest[e]
    BY <1>2, <1>3, <1>4
<1> QED BY <1>1, <1>2, <1>4, <1>6, <1>7

(* The answer to the events settles them before any is removed.            *)
LEMMA AcceptedInv ==
    ASSUME LaneInv, LaneTypes', EventsAccepted
    PROVE  LaneInv'
<1>1. PICK rs \in Outgoing :
          /\ \A r \in rs : Fate[r.id] # "invalid"
          /\ stored' = Ingest(rs)
          /\ dropped' = dropped \union {Key("event", r.id) : r \in {x \in rs : Fate[x.id] = "reject"}}
          /\ inflight' = [inflight EXCEPT !.phase = "remove", !.left = rs, !.batch = @ \ rs]
    BY DEF EventsAccepted
<1>2. /\ rs \subseteq Version
      /\ \A r \in rs : r.ver <= latest[r.id]
      /\ \A e \in Events : stored[e] <= stored'[e] /\ stored'[e] <= latest[e]
      /\ \A r \in rs : Fate[r.id] = "accept" => stored'[r.id] >= r.ver
    BY <1>1, IngestWithinReported
<1>3. inflight \in Flight /\ inflight.phase = "send" /\ inflight.cur = {}
    BY DEF EventsAccepted, InPhase, LaneInv, LaneTypes, FlightTyped
<1>4. /\ inflight'.phase = "remove" /\ inflight'.left = rs /\ inflight'.cur = {}
      /\ inflight'.batch \subseteq inflight.batch
    BY <1>1, <1>3 DEF Flight
<1>5. \A r \in rs : Settled(r)'
    <2> SUFFICES ASSUME NEW r \in rs PROVE Settled(r)'
        OBVIOUS
    <2>1. r.id \in Events
        BY <1>2 DEF Version
    <2>2. Fate[r.id] \in {"accept", "reject"}
        BY <1>1, <2>1, OutboxAssumption
    <2>3. CASE Fate[r.id] = "accept"
        BY <1>2, <2>3 DEF Settled
    <2>4. CASE Fate[r.id] = "reject"
        BY <1>1, <2>4 DEF Settled
    <2> QED BY <2>2, <2>3, <2>4
<1>6. Removals'
    BY <1>2, <1>4, <1>5 DEF Removals, EventsAccepted, store
<1>7. OnlyRefusedDropped'
    BY <1>1 DEF LaneInv, OnlyRefusedDropped, Key
<1>8. \A r \in inflight'.batch : r.ver <= latest[r.id]
    BY <1>4 DEF LaneInv, Versions
<1> QED BY <1>1, <1>2, <1>4, <1>6, <1>7, <1>8, ServerLearns DEF EventsAccepted, store

(* A batch that is refused is sent again one by one, and only what is      *)
(* refused alone is dropped.                                               *)
LEMMA RefusedInv ==
    ASSUME LaneInv, LaneTypes', EventsRefused
    PROVE  LaneInv'
<1>1. PICK rs \in Outgoing :
          /\ \E r \in rs : Fate[r.id] = "invalid"
          /\ IF inflight.single
             THEN /\ dropped' = dropped \union {Key("event", r.id) : r \in rs}
                  /\ inflight' = [inflight EXCEPT !.phase = "remove", !.left = rs, !.batch = @ \ rs]
             ELSE /\ inflight' = [inflight EXCEPT !.single = TRUE]
                  /\ UNCHANGED dropped
    BY DEF EventsRefused
<1>2. rs \subseteq Version /\ \A r \in rs : r.ver <= latest[r.id]
    BY <1>1, IngestWithinReported
<1>3. inflight \in Flight /\ inflight.phase = "send" /\ inflight.cur = {}
    BY DEF EventsRefused, InPhase, LaneInv, LaneTypes, FlightTyped
<1>4. \A e \in Events : stored[e] <= stored[e] /\ stored[e] <= latest[e]
    <2>1. \A e \in Events : stored[e] \in Nat
        BY OutboxAssumption DEF LaneInv, LaneTypes, OutboxTypeOK
    <2> QED BY <2>1 DEF LaneInv, Versions
<1>5. UNCHANGED <<latest, events, images, shots, index, stored, received, overtaken>>
    BY DEF EventsRefused, store, remote
<1>6. CASE inflight.single
    <2>1. PICK r \in inflight.batch : rs = {r} /\ Fate[r.id] = "invalid"
        BY <1>1, <1>6 DEF Outgoing
    <2>2. /\ inflight'.phase = "remove" /\ inflight'.left = rs /\ inflight'.cur = {}
          /\ inflight'.batch \subseteq inflight.batch
        BY <1>1, <1>3, <1>6 DEF Flight
    <2>3. dropped' = dropped \union {Key("event", r.id)}
        BY <1>1, <1>6, <2>1
    <2>4. Removals'
        BY <1>2, <1>5, <2>1, <2>2, <2>3 DEF Removals, Settled
    <2>5. OnlyRefusedDropped'
        BY <2>1, <2>3 DEF LaneInv, OnlyRefusedDropped, Key
    <2>6. \A x \in inflight'.batch : x.ver <= latest[x.id]
        BY <2>2 DEF LaneInv, Versions
    <2> QED BY <1>4, <1>5, <2>2, <2>3, <2>4, <2>5, <2>6, ServerLearns
<1>7. CASE ~inflight.single
    <2>1. /\ inflight'.phase = "send" /\ inflight'.batch = inflight.batch /\ dropped' = dropped
        BY <1>1, <1>3, <1>7 DEF Flight
    <2>2. Removals'
        BY <2>1 DEF Removals
    <2>3. OnlyRefusedDropped'
        BY <2>1 DEF LaneInv, OnlyRefusedDropped
    <2>4. \A x \in inflight'.batch : x.ver <= latest[x.id]
        BY <2>1 DEF LaneInv, Versions
    <2> QED BY <1>4, <1>5, <2>1, <2>2, <2>3, <2>4, ServerLearns
<1> QED BY <1>6, <1>7

(* Whether or not the server took the events of a request that failed,     *)
(* they stay queued.                                                       *)
LEMMA FailedInv ==
    ASSUME LaneInv, LaneTypes', EventsFailed
    PROVE  LaneInv'
<1>1. UNCHANGED <<latest, events, images, shots, index, received, dropped, overtaken>>
    BY DEF EventsFailed, store
<1>2. \A e \in Events : stored[e] <= stored'[e] /\ stored'[e] <= latest[e]
    <2>1. PICK rs \in Outgoing : stored' = stored \/ stored' = Ingest(rs)
        BY DEF EventsFailed
    <2>2. \A e \in Events : stored[e] \in Nat /\ stored[e] <= latest[e]
        BY OutboxAssumption DEF LaneInv, LaneTypes, OutboxTypeOK, Versions
    <2> QED BY <2>1, <2>2, IngestWithinReported
<1>3. inflight'.batch = {} /\ inflight'.phase \notin {"remove", "upload"}
    BY FlightBegins DEF EventsFailed
<1>4. OnlyRefusedDropped' /\ Removals'
    BY <1>1, <1>3 DEF LaneInv, OnlyRefusedDropped, Removals
<1> QED BY <1>1, <1>2, <1>3, <1>4, ServerLearns

(* A batch is a snapshot of the queue.                                     *)
LEMMA ReadEventsInv ==
    ASSUME LaneInv, LaneTypes', ReadEvents
    PROVE  LaneInv'
<1> DEFINE queued == {[id |-> e, ver |-> events[e]] : e \in {x \in Events : events[x] > 0}}
<1>1. UNCHANGED <<latest, events, images, shots, index, stored, received, dropped, overtaken>>
    BY DEF ReadEvents, store, remote
<1>2. inflight \in Flight /\ inflight.phase = "events" /\ inflight.left = {} /\ inflight.cur = {}
    BY DEF ReadEvents, InPhase, LaneInv, LaneTypes, FlightTyped
<1>3. inflight' = IF queued = {} THEN [inflight EXCEPT !.phase = "images"]
                  ELSE [inflight EXCEPT !.phase = "send", !.batch = queued]
    BY DEF ReadEvents
<1>4. \A r \in queued : r.ver <= latest[r.id]
    <2>1. \A e \in Events : events[e] \in {0, latest[e]} /\ latest[e] \in Nat
        BY OutboxAssumption DEF LaneInv, Versions, LaneTypes, OutboxTypeOK
    <2> QED BY <2>1
<1> HIDE DEF queued
<1>5. /\ inflight'.phase \notin {"remove", "upload"}
      /\ inflight'.batch = inflight.batch \/ inflight'.batch = queued
    BY <1>2, <1>3 DEF Flight
<1>6. \A r \in inflight'.batch : r.ver <= latest[r.id]
    BY <1>4, <1>5 DEF LaneInv, Versions
<1>7. \A e \in Events : stored[e] <= stored'[e] /\ stored'[e] <= latest[e]
    <2>1. \A e \in Events : stored[e] \in Nat
        BY OutboxAssumption DEF LaneInv, LaneTypes, OutboxTypeOK
    <2> QED BY <1>1, <2>1 DEF LaneInv, Versions
<1>8. OnlyRefusedDropped' /\ Removals'
    BY <1>1, <1>5 DEF LaneInv, OnlyRefusedDropped, Removals
<1> QED BY <1>1, <1>5, <1>6, <1>7, <1>8, ServerLearns

(* A removal that finds something newer ends there.                        *)
LEMMA RemovalReadsInv ==
    ASSUME LaneInv, LaneTypes', RemovalReads
    PROVE  LaneInv'
<1>1. UNCHANGED <<latest, events, images, shots, index, stored, received, dropped, overtaken>>
    BY DEF RemovalReads, store, remote
<1>2. PICK r \in inflight.left : inflight' = IF events[r.id] > r.ver THEN AfterRemoval(inflight.left \ {r})
                                             ELSE [inflight EXCEPT !.cur = {r}]
    BY DEF RemovalReads
<1>3. inflight \in Flight /\ inflight.phase = "remove" /\ inflight.left \subseteq Version /\ inflight.cur = {}
    BY DEF RemovalReads, InPhase, LaneInv, LaneTypes, FlightTyped
<1>4. \A x \in inflight.left : x.ver <= latest[x.id] /\ Settled(x)
    BY <1>3 DEF LaneInv, Removals
<1>5. /\ inflight'.batch = inflight.batch /\ inflight'.phase # "upload"
      /\ inflight'.phase = "remove" => inflight'.left \subseteq inflight.left
      /\ inflight'.cur = {} \/ (inflight'.cur = {r} /\ events[r.id] <= r.ver)
    <2>1. CASE events[r.id] > r.ver
        <3> DEFINE rest == inflight.left \ {r}
        <3>1. FlightTyped /\ rest \in SUBSET inflight.left /\ inflight' = AfterRemoval(rest)
            BY <1>2, <2>1 DEF LaneInv, LaneTypes
        <3> HIDE DEF rest
        <3> QED BY <1>3, <3>1, FlightGoesOn
    <2>2. CASE ~(events[r.id] > r.ver)
        <3>1. events[r.id] \in 0..MaxVersion /\ r.ver \in 1..MaxVersion
            BY <1>3 DEF LaneInv, LaneTypes, OutboxTypeOK, Version
        <3>2. inflight' = [inflight EXCEPT !.cur = {r}]
            BY <1>2, <2>2
        <3>3. events[r.id] <= r.ver
            BY <2>2, <3>1, OutboxAssumption
        <3> QED BY <1>3, <3>2, <3>3 DEF Flight
    <2> QED BY <2>1, <2>2
<1>6. Removals'
    BY <1>1, <1>4, <1>5 DEF Removals, Settled
<1>7. \A x \in inflight'.batch : x.ver <= latest[x.id]
    BY <1>5 DEF LaneInv, Versions
<1>8. \A e \in Events : stored[e] <= stored'[e] /\ stored'[e] <= latest[e]
    <2>1. \A e \in Events : stored[e] \in Nat
        BY OutboxAssumption DEF LaneInv, LaneTypes, OutboxTypeOK
    <2> QED BY <1>1, <2>1 DEF LaneInv, Versions
<1>9. OnlyRefusedDropped'
    BY <1>1 DEF LaneInv, OnlyRefusedDropped
<1> QED BY <1>1, <1>5, <1>6, <1>7, <1>8, <1>9, ServerLearns

(* What is deleted is settled, unless a newer version came in between.     *)
LEMMA RemovalDeletesInv ==
    ASSUME LaneInv, LaneTypes', RemovalDeletes
    PROVE  LaneInv'
<1> USE DEF LaneInv
<1>1. UNCHANGED <<latest, images, shots, stored, received, dropped, overtaken>>
    BY DEF RemovalDeletes, remote
<1>2. PICK r \in inflight.cur : /\ events' = [events EXCEPT ![r.id] = 0]
                                /\ index' = index \ {Key("event", r.id)}
                                /\ inflight' = AfterRemoval(inflight.left \ {r})
    BY DEF RemovalDeletes
<1>3. inflight.phase = "remove" /\ r \in Version /\ r.id \in Events /\ r.ver \in 1..MaxVersion
    BY <1>2 DEF RemovalDeletes, InPhase, LaneTypes, FlightTyped, Version
<1>4. /\ r.ver <= latest[r.id] /\ Settled(r)
      /\ events[r.id] <= r.ver \/ r.id \in overtaken
      /\ \A x \in inflight.left : x.ver <= latest[x.id] /\ Settled(x)
    BY <1>2, <1>3 DEF Removals
<1>5. /\ inflight'.batch = inflight.batch /\ inflight'.cur = {} /\ inflight'.phase # "upload"
      /\ inflight'.phase = "remove" => inflight'.left \subseteq inflight.left
    <2> DEFINE rest == inflight.left \ {r}
    <2>1. FlightTyped /\ rest \in SUBSET inflight.left /\ inflight' = AfterRemoval(rest)
        BY <1>2 DEF LaneTypes
    <2> HIDE DEF rest
    <2> QED BY <1>3, <2>1, FlightGoesOn
<1>6. \A e \in Events : /\ latest[e] \in Nat /\ events[e] \in Nat /\ stored[e] \in Nat
                        /\ events'[e] = IF e = r.id THEN 0 ELSE events[e]
    <2>1. /\ \A e \in Events : latest[e] \in 0..MaxVersion /\ stored[e] \in 0..MaxVersion
          /\ events \in [Events -> 0..MaxVersion]
        BY DEF LaneTypes, OutboxTypeOK
    <2> QED BY <1>2, <2>1, OutboxAssumption
<1>7. \A e \in Events : Told(e)' <=> Told(e)
    BY <1>1 DEF Told
<1>8. Versions'
    BY <1>1, <1>5, <1>6 DEF Versions
<1>9. Removals'
    BY <1>1, <1>4, <1>5 DEF Removals, Settled
<1>10. NoneForgotten'
    <2>1. Told(r.id)
        BY <1>3, <1>4, <1>6, OutboxAssumption DEF Settled, Told
    <2> QED BY <1>1, <1>6, <1>7, <2>1 DEF NoneForgotten
<1>11. Shown'
    BY <1>1, <1>5 DEF Shown
<1>12. IndexExact'
    <2>1. {x \in Events : events'[x] > 0} = {x \in Events : events[x] > 0} \ {r.id}
        BY <1>6
    <2> QED BY <1>1, <1>2, <2>1 DEF IndexExact, Key
<1>13. NewestVersionKept'
    <2> SUFFICES ASSUME NEW e \in Events PROVE Safe(e)' \/ e \in overtaken
        BY <1>1 DEF NewestVersionKept
    <2>1. Safe(e) \/ e \in overtaken
        BY DEF NewestVersionKept
    <2>2. CASE e # r.id
        BY <1>1, <1>6, <2>1, <2>2 DEF Safe
    <2>3. CASE e = r.id
        <3>1. events[e] \in {0, latest[e]}
            BY DEF Versions
        <3>2. CASE e \in overtaken
            BY <3>2
        <3>3. CASE events[e] <= r.ver /\ events[e] = latest[e]
            BY <1>1, <1>3, <1>4, <1>6, <2>3, <3>3, OutboxAssumption DEF Safe, Settled
        <3>4. CASE events[e] = 0
            BY <1>1, <1>6, <2>1, <2>3, <3>4 DEF Safe
        <3> QED BY <1>4, <2>3, <3>1, <3>2, <3>3, <3>4
    <2> QED BY <2>2, <2>3
<1>14. ScreenshotFollowsEvent'
    BY <1>1 DEF ScreenshotFollowsEvent, Told
<1>15. ScreenshotsKept' /\ OnlyRefusedDropped'
    BY <1>1 DEF ScreenshotsKept, OnlyRefusedDropped
<1> QED BY <1>8, <1>9, <1>10, <1>11, <1>12, <1>13, <1>14, <1>15

(* A screenshot goes out only when its event no longer waits.              *)
LEMMA NextImageInv ==
    ASSUME LaneInv, LaneTypes', NextImage
    PROVE  LaneInv'
<1> DEFINE i == Min(inflight.left)
<1>1. UNCHANGED <<latest, events, images, shots, index, stored, received, dropped, overtaken>>
    BY DEF NextImage, store, remote
<1>2. inflight' = IF Waits(i) \/ i \notin images THEN [inflight EXCEPT !.left = @ \ {i}]
                  ELSE [inflight EXCEPT !.left = @ \ {i}, !.cur = {i}]
    BY DEF NextImage
<1>3. inflight \in Flight /\ inflight.phase = "upload" /\ inflight.cur = {}
    BY DEF NextImage, InPhase, LaneInv, LaneTypes, FlightTyped
<1> HIDE DEF i
<1>4. /\ inflight'.phase = "upload" /\ inflight'.batch = inflight.batch
      /\ inflight'.cur = {} \/ (inflight'.cur = {i} /\ ~Waits(i) /\ i \in images)
    BY <1>2, <1>3 DEF Flight
<1>5. ASSUME ~Waits(i), i \in images PROVE Told(EventOf[i])
    <2>1. i \in 1..shots /\ i \in 1..Shots
        BY <1>5 DEF LaneInv, Shown, LaneTypes, OutboxTypeOK
    <2>2. EventOf[i] \in Events /\ latest[EventOf[i]] > 0
        BY <2>1, OutboxAssumption DEF LaneInv, Shown
    <2>3. ~(events[EventOf[i]] > 0)
        BY <1>5, <2>2, IndexTells DEF LaneInv, Waits
    <2> QED BY <2>2, <2>3 DEF LaneInv, NoneForgotten
<1>6. \A x \in inflight'.cur : Told(EventOf[x])
    BY <1>4, <1>5
<1>7. \A x \in inflight'.batch : x.ver <= latest[x.id]
    BY <1>4 DEF LaneInv, Versions
<1>8. \A e \in Events : stored[e] <= stored'[e] /\ stored'[e] <= latest[e]
    <2>1. \A e \in Events : stored[e] \in Nat
        BY OutboxAssumption DEF LaneInv, LaneTypes, OutboxTypeOK
    <2> QED BY <1>1, <2>1 DEF LaneInv, Versions
<1>9. OnlyRefusedDropped' /\ Removals'
    BY <1>1, <1>4 DEF LaneInv, OnlyRefusedDropped, Removals
<1> QED BY <1>1, <1>6, <1>7, <1>8, <1>9, ServerLearns

(* A pass reads the screenshots, and nothing is in hand yet.               *)
LEMMA ReadImagesInv ==
    ASSUME LaneInv, LaneTypes', ReadImages
    PROVE  LaneInv'
<1>1. UNCHANGED <<latest, events, images, shots, index, stored, received, dropped, overtaken>>
    BY DEF ReadImages, store, remote
<1>2. inflight'.phase = "upload" /\ inflight'.batch = inflight.batch /\ inflight'.cur = {}
    BY DEF ReadImages, InPhase, LaneInv, LaneTypes, FlightTyped, Flight
<1>3. \A x \in inflight'.batch : x.ver <= latest[x.id]
    BY <1>2 DEF LaneInv, Versions
<1>4. \A e \in Events : stored[e] <= stored'[e] /\ stored'[e] <= latest[e]
    <2>1. \A e \in Events : stored[e] \in Nat
        BY OutboxAssumption DEF LaneInv, LaneTypes, OutboxTypeOK
    <2> QED BY <1>1, <2>1 DEF LaneInv, Versions
<1>5. OnlyRefusedDropped' /\ Removals'
    BY <1>1, <1>2 DEF LaneInv, OnlyRefusedDropped, Removals
<1> QED BY <1>1, <1>2, <1>3, <1>4, <1>5, ServerLearns

(* A screenshot may have reached the server although nobody heard of it.   *)
LEMMA UploadFailedInv ==
    ASSUME LaneInv, LaneTypes', UploadFailed
    PROVE  LaneInv'
<1>1. UNCHANGED <<latest, events, images, shots, index, stored, dropped, overtaken>>
    BY DEF UploadFailed, store
<1>2. inflight'.phase = "upload" /\ inflight'.batch = inflight.batch /\ inflight'.cur = {}
    BY DEF UploadFailed, InPhase, LaneInv, LaneTypes, FlightTyped, Flight
<1>3. received \subseteq received' /\ received' \subseteq received \union inflight.cur
    BY DEF UploadFailed
<1>4. \A i \in inflight.cur : Told(EventOf[i])
    BY DEF UploadFailed, InPhase, LaneInv, Shown
<1>5. \A x \in inflight'.batch : x.ver <= latest[x.id]
    BY <1>2 DEF LaneInv, Versions
<1>6. \A e \in Events : stored[e] <= stored'[e] /\ stored'[e] <= latest[e]
    <2>1. \A e \in Events : stored[e] \in Nat
        BY OutboxAssumption DEF LaneInv, LaneTypes, OutboxTypeOK
    <2> QED BY <1>1, <2>1 DEF LaneInv, Versions
<1>7. OnlyRefusedDropped' /\ Removals'
    BY <1>1, <1>2 DEF LaneInv, OnlyRefusedDropped, Removals
<1> QED BY <1>1, <1>2, <1>3, <1>4, <1>5, <1>6, <1>7, ServerLearns

(* An upload and the removal after it.                                     *)
LEMMA ImageUploadedInv ==
    ASSUME LaneInv, LaneTypes', ImageUploaded
    PROVE  LaneInv'
<1> USE DEF LaneInv
<1>1. UNCHANGED <<latest, events, shots, stored, dropped, overtaken>>
    BY DEF ImageUploaded
<1>2. /\ received' = received \union inflight.cur
      /\ images' = images \ inflight.cur
      /\ index' = index \ {Key("image", i) : i \in inflight.cur}
      /\ inflight' = [inflight EXCEPT !.cur = {}]
    BY DEF ImageUploaded
<1>3. inflight.phase = "upload" /\ \A i \in inflight.cur : Told(EventOf[i])
    BY DEF ImageUploaded, InPhase, Shown
<1>4. inflight'.phase = "upload" /\ inflight'.batch = inflight.batch /\ inflight'.cur = {}
    BY <1>2, <1>3 DEF LaneTypes, FlightTyped, Flight
<1>5. Versions' /\ Removals' /\ NoneForgotten'
    BY <1>1, <1>4 DEF Versions, Removals, NoneForgotten, Told
<1>6. Shown'
    BY <1>1, <1>2, <1>4 DEF Shown
<1>7. IndexExact'
    BY <1>1, <1>2 DEF IndexExact, Key
<1>8. NewestVersionKept' /\ OnlyRefusedDropped'
    BY <1>1 DEF NewestVersionKept, Safe, OnlyRefusedDropped
<1>9. ScreenshotFollowsEvent'
    BY <1>1, <1>2, <1>3 DEF ScreenshotFollowsEvent, Told
<1>10. ScreenshotsKept'
    BY <1>1, <1>2 DEF ScreenshotsKept
<1> QED BY <1>5, <1>6, <1>7, <1>8, <1>9, <1>10

(* A new version is queued; in a removal's window it may be lost.          *)
LEMMA putEventInv ==
    ASSUME LaneInv, LaneTypes', NEW e \in Events, putEvent(e)
    PROVE  LaneInv'
<1> USE DEF LaneInv
<1>1. UNCHANGED <<images, shots, stored, received, dropped, inflight>>
    BY DEF putEvent, remote
<1>2. /\ latest' = [latest EXCEPT ![e] = @ + 1]
      /\ events' = [events EXCEPT ![e] = latest[e] + 1]
      /\ index' = index \union {Key("event", e)}
      /\ overtaken' = IF Removing(e) THEN overtaken \union {e} ELSE overtaken
    BY DEF putEvent
<1>3. \A x \in Events : /\ latest[x] \in Nat /\ events[x] \in Nat /\ stored[x] \in Nat
                        /\ latest'[x] = IF x = e THEN latest[e] + 1 ELSE latest[x]
                        /\ events'[x] = IF x = e THEN latest[e] + 1 ELSE events[x]
    <2>1. /\ latest \in [Events -> 0..MaxVersion] /\ events \in [Events -> 0..MaxVersion]
          /\ \A x \in Events : stored[x] \in 0..MaxVersion
        BY DEF LaneTypes, OutboxTypeOK
    <2> QED BY <1>2, <2>1, OutboxAssumption
<1>4. \A x \in Events : latest[x] <= latest'[x]
    BY <1>3
<1>5. \A r \in Version : r.id \in Events /\ r.ver \in Nat
    BY OutboxAssumption DEF Version
<1>6. inflight.batch \subseteq Version
    BY DEF LaneTypes, FlightTyped, Flight
<1>7. Versions'
    <2>1. \A x \in Events : events'[x] \in {0, latest'[x]} /\ stored'[x] <= latest'[x]
        BY <1>1, <1>3 DEF Versions
    <2>2. \A r \in inflight'.batch : r.ver <= latest'[r.id]
        <3> SUFFICES ASSUME NEW r \in inflight.batch PROVE r.ver <= latest'[r.id]
            BY <1>1
        <3>1. r.id \in Events /\ r.ver \in Nat /\ r.ver <= latest[r.id]
            BY <1>5, <1>6 DEF Versions
        <3> QED BY <1>3, <3>1
    <2> QED BY <2>1, <2>2 DEF Versions
<1>8. Removals'
    <2> SUFFICES ASSUME inflight.phase = "remove"
                 PROVE  /\ \A r \in inflight.left \union inflight.cur : r.ver <= latest'[r.id] /\ Settled(r)
                        /\ \A r \in inflight.cur : events'[r.id] <= r.ver \/ r.id \in overtaken'
        BY <1>1 DEF Removals, Settled
    <2>1. inflight.left \union inflight.cur \subseteq Version
        BY DEF LaneTypes, FlightTyped
    <2>2. ASSUME NEW r \in inflight.left \union inflight.cur PROVE r.ver <= latest'[r.id] /\ Settled(r)
        <3>1. r.id \in Events /\ r.ver \in Nat /\ r.ver <= latest[r.id] /\ Settled(r)
            BY <1>5, <2>1 DEF Removals
        <3> QED BY <1>3, <3>1
    <2>3. ASSUME NEW r \in inflight.cur PROVE events'[r.id] <= r.ver \/ r.id \in overtaken'
        <3>1. r.id \in Events /\ (events[r.id] <= r.ver \/ r.id \in overtaken)
            BY <1>5, <2>1 DEF Removals
        <3>2. CASE r.id = e
            BY <1>2, <3>2 DEF Removing
        <3>3. CASE r.id # e
            BY <1>2, <1>3, <3>1, <3>3
        <3> QED BY <3>2, <3>3
    <2> QED BY <2>2, <2>3
<1>9. NoneForgotten'
    BY <1>1, <1>3 DEF NoneForgotten, Told
<1>10. Shown'
    <2>1. \A i \in 1..shots : EventOf[i] \in Events /\ latest[EventOf[i]] > 0
        <3>1. shots \in 0..Shots
            BY DEF LaneTypes, OutboxTypeOK
        <3>2. \A i \in 1..shots : latest[EventOf[i]] > 0
            BY DEF Shown
        <3>3. EventOf \in [1..Shots -> Events] /\ Shots \in Nat
            BY OutboxAssumption
        <3> QED BY <3>1, <3>2, <3>3
    <2>2. \A i \in 1..shots : latest'[EventOf[i]] > 0
        BY <1>3, <2>1
    <2> QED BY <1>1, <2>2 DEF Shown, Told
<1>11. IndexExact'
    <2>1. {x \in Events : events'[x] > 0} = {x \in Events : events[x] > 0} \union {e}
        BY <1>3
    <2> QED BY <1>1, <1>2, <2>1 DEF IndexExact, Key
<1>12. NewestVersionKept'
    BY <1>1, <1>2, <1>3 DEF NewestVersionKept, Safe
<1>13. ScreenshotFollowsEvent' /\ ScreenshotsKept' /\ OnlyRefusedDropped'
    BY <1>1 DEF ScreenshotFollowsEvent, ScreenshotsKept, OnlyRefusedDropped, Told
<1> QED BY <1>7, <1>8, <1>9, <1>10, <1>11, <1>12, <1>13

(* An upload refused for good: the screenshot is reported as dropped.      *)
LEMMA ImageRefusedInv ==
    ASSUME LaneInv, LaneTypes', ImageRefused
    PROVE  LaneInv'
<1> USE DEF LaneInv
<1>1. UNCHANGED <<latest, events, shots, stored, received, overtaken>>
    BY DEF ImageRefused, remote
<1>2. /\ images' = images \ inflight.cur
      /\ index' = index \ {Key("image", i) : i \in inflight.cur}
      /\ dropped' = dropped \union {Key("image", i) : i \in inflight.cur}
      /\ inflight' = [inflight EXCEPT !.cur = {}]
    BY DEF ImageRefused
<1>3. inflight'.phase = "upload" /\ inflight'.batch = inflight.batch /\ inflight'.cur = {}
    BY <1>2 DEF ImageRefused, InPhase, LaneTypes, FlightTyped, Flight
<1>4. \A e : Key("event", e) \in dropped' <=> Key("event", e) \in dropped
    BY <1>2 DEF Key
<1>5. \A e : Told(e)' <=> Told(e)
    BY <1>1, <1>4 DEF Told
<1>6. Versions' /\ Removals' /\ NoneForgotten'
    BY <1>1, <1>3, <1>5 DEF Versions, Removals, NoneForgotten
<1>7. Shown'
    BY <1>1, <1>2, <1>3 DEF Shown
<1>8. IndexExact'
    BY <1>1, <1>2 DEF IndexExact, Key
<1>9. NewestVersionKept' /\ OnlyRefusedDropped'
    BY <1>1, <1>4 DEF NewestVersionKept, Safe, OnlyRefusedDropped
<1>10. ScreenshotFollowsEvent'
    BY <1>1, <1>5 DEF ScreenshotFollowsEvent
<1>11. ScreenshotsKept'
    BY <1>1, <1>2 DEF ScreenshotsKept
<1> QED BY <1>6, <1>7, <1>8, <1>9, <1>10, <1>11

(* Screenshots that leave the queue unsent are reported; no event is.      *)
LEMMA ImagesDropped ==
    ASSUME LaneInv, LaneTypes', NEW out \in SUBSET (1..Shots),
           UNCHANGED <<latest, events, stored, received, overtaken, inflight>>,
           dropped' = dropped \union {Key("image", i) : i \in out},
           IndexExact', images' \subseteq 1..shots',
           \A i \in 1..shots' : latest[EventOf[i]] > 0,
           \A i \in 1..shots' : i \in images' \/ i \in out \/ (i \in 1..shots /\ i \notin images)
    PROVE  LaneInv'
<1> USE DEF LaneInv
<1>1. \A e : Key("event", e) \in dropped' <=> Key("event", e) \in dropped
    BY DEF Key
<1>2. \A e : Told(e)' <=> Told(e)
    BY <1>1 DEF Told
<1>3. Versions' /\ NoneForgotten'
    BY <1>2 DEF Versions, NoneForgotten
<1>4. Removals'
    BY <1>1 DEF Removals, Settled
<1>5. Shown'
    BY <1>2 DEF Shown
<1>6. NewestVersionKept' /\ OnlyRefusedDropped'
    BY <1>1 DEF NewestVersionKept, Safe, OnlyRefusedDropped
<1>7. ScreenshotFollowsEvent'
    BY <1>2 DEF ScreenshotFollowsEvent
<1>8. ScreenshotsKept'
    <2> SUFFICES ASSUME NEW i \in 1..shots' PROVE i \in images' \/ i \in received' \/ Key("image", i) \in dropped'
        BY DEF ScreenshotsKept
    <2>1. CASE i \in out
        BY <2>1
    <2>2. CASE i \in 1..shots /\ i \notin images
        BY <2>2 DEF ScreenshotsKept
    <2> QED BY <2>1, <2>2
<1> QED BY <1>3, <1>4, <1>5, <1>6, <1>7, <1>8

(* Over the limit the oldest screenshots go.                               *)
LEMMA putEvidenceInv ==
    ASSUME LaneInv, LaneTypes', putEvidence
    PROVE  LaneInv'
<1>1. PICK over \in SUBSET (images \union {shots + 1}) :
          /\ images' = (images \union {shots + 1}) \ over
          /\ index' = (index \union {Key("image", shots + 1)}) \ {Key("image", i) : i \in over}
          /\ dropped' = dropped \union {Key("image", i) : i \in over}
    BY ScreenshotTaken
<1>2. UNCHANGED <<latest, events, stored, received, overtaken, inflight>>
    BY DEF putEvidence, remote
<1>3. shots < Shots /\ shots' = shots + 1 /\ latest[EventOf[shots + 1]] > 0
    BY DEF putEvidence
<1>4. shots \in 0..Shots /\ images \subseteq 1..shots /\ \A i \in 1..shots : latest[EventOf[i]] > 0
    BY DEF LaneInv, LaneTypes, OutboxTypeOK, Shown
<1>5. \A i : i \in 1..shots' <=> i \in 1..shots \/ i = shots + 1
    BY <1>3, <1>4, OutboxAssumption
<1>6. 1..shots' \subseteq 1..Shots
    BY <1>3, <1>4, OutboxAssumption
<1>7. over \in SUBSET (1..Shots)
    BY <1>1, <1>4, <1>5, <1>6
<1>8. IndexExact'
    BY <1>1, <1>2 DEF LaneInv, IndexExact, Key
<1>9. images' \subseteq 1..shots' /\ \A i \in 1..shots' : latest[EventOf[i]] > 0
    BY <1>1, <1>3, <1>4, <1>5
<1>10. \A i \in 1..shots' : i \in images' \/ i \in over \/ (i \in 1..shots /\ i \notin images)
    BY <1>1, <1>5
<1> QED BY <1>1, <1>2, <1>7, <1>8, <1>9, <1>10, ImagesDropped

(* A withdrawal empties the queue of its images.                           *)
LEMMA discardImagesInv ==
    ASSUME LaneInv, LaneTypes', discardImages
    PROVE  LaneInv'
<1>1. /\ images' = {} /\ index' = index \ {Key("image", i) : i \in images}
      /\ dropped' = dropped \union {Key("image", i) : i \in images}
      /\ UNCHANGED <<latest, events, shots, stored, received, overtaken, inflight>>
    BY DEF discardImages, remote
<1>2. images \in SUBSET (1..Shots) /\ \A i \in 1..shots : latest[EventOf[i]] > 0
    BY DEF LaneInv, LaneTypes, OutboxTypeOK, Shown
<1>3. IndexExact'
    BY <1>1 DEF LaneInv, IndexExact, Key
<1> QED BY <1>1, <1>2, <1>3, ImagesDropped

(* A page that is loaded anew finds what was queued.                       *)
LEMMA RestartInv ==
    ASSUME LaneInv, LaneTypes', Restart
    PROVE  LaneInv'
<1>1. UNCHANGED <<latest, events, images, shots, stored, received, dropped, overtaken>>
    BY DEF Restart, remote
<1>2. UNCHANGED index
    BY DEF Restart, LaneInv, IndexExact
<1>3. inflight'.batch = {} /\ inflight'.phase \notin {"remove", "upload"}
    BY FlightBegins DEF Restart
<1> QED BY <1>1, <1>2, <1>3, NothingLearned

(* The worker, the callers of flush, the end of a pass and the network     *)
(* move nothing.                                                           *)
LEMMA WorkerInv ==
    ASSUME LaneInv, LaneTypes',
           \/ runWorker \/ flushNow \/ onOnline \/ PassOver \/ Refused
           \/ NetworkFails \/ NetworkReturns \/ LoseControl \/ Verified
           \/ UNCHANGED outboxVars
    PROVE  LaneInv'
<1>1. UNCHANGED <<latest, events, images, shots, index, stored, received, dropped, overtaken>>
    BY DEF runWorker, flushNow, onOnline, PassOver, Refused, NetworkFails, NetworkReturns, LoseControl, Verified,
           outboxVars, store, remote
<1>2. \/ UNCHANGED inflight
      \/ inflight' = NoPass
      \/ inflight' = [NoPass EXCEPT !.phase = "events"]
    BY DEF runWorker, flushNow, flush, onOnline, PassOver, Refused, NetworkFails, NetworkReturns, LoseControl,
           Verified, outboxVars
<1>3. \/ UNCHANGED inflight
      \/ inflight'.batch = {} /\ inflight'.phase \notin {"remove", "upload"}
    BY <1>2, FlightBegins
<1> QED BY <1>1, <1>3, NothingLearned

(* The invariant of the main lane, step by step.                           *)
LEMMA LaneInvKept ==
    ASSUME LaneInv, [OutboxNext]_outboxVars
    PROVE  LaneInv'
<1>1. LaneTypes'
    BY LaneTypesKept DEF LaneInv
<1>2. ASSUME NEW e \in Events, putEvent(e) PROVE LaneInv'
    BY <1>1, <1>2, putEventInv
<1>3. CASE putEvidence
    BY <1>1, <1>3, putEvidenceInv
<1>4. CASE discardImages
    BY <1>1, <1>4, discardImagesInv
<1>5. CASE ReadEvents
    BY <1>1, <1>5, ReadEventsInv
<1>6. CASE EventsAccepted
    BY <1>1, <1>6, AcceptedInv
<1>7. CASE EventsRefused
    BY <1>1, <1>7, RefusedInv
<1>8. CASE EventsFailed
    BY <1>1, <1>8, FailedInv
<1>9. CASE RemovalReads
    BY <1>1, <1>9, RemovalReadsInv
<1>10. CASE RemovalDeletes
    BY <1>1, <1>10, RemovalDeletesInv
<1>11. CASE ReadImages
    BY <1>1, <1>11, ReadImagesInv
<1>12. CASE NextImage
    BY <1>1, <1>12, NextImageInv
<1>13. CASE ImageUploaded
    BY <1>1, <1>13, ImageUploadedInv
<1>17. CASE ImageRefused
    BY <1>1, <1>17, ImageRefusedInv
<1>14. CASE UploadFailed
    BY <1>1, <1>14, UploadFailedInv
<1>15. CASE Restart
    BY <1>1, <1>15, RestartInv
<1>16. CASE \/ runWorker \/ flushNow \/ onOnline \/ PassOver \/ Refused
            \/ NetworkFails \/ NetworkReturns \/ LoseControl \/ Verified
            \/ UNCHANGED outboxVars
    BY <1>1, <1>16, WorkerInv
<1> QED
    BY <1>2, <1>3, <1>4, <1>5, <1>6, <1>7, <1>8, <1>9, <1>10, <1>11, <1>12, <1>13, <1>14, <1>15, <1>16,
       <1>17 DEF OutboxNext, FlushStep

(* An empty outbox satisfies it.                                           *)
LEMMA LaneInvInit == OutboxInit => LaneInv
<1> SUFFICES ASSUME OutboxInit PROVE LaneInv
    OBVIOUS
<1> USE DEF OutboxInit
<1>1. FlightTyped
    <2>1. inflight = [phase |-> "none", batch |-> {}, single |-> FALSE, left |-> {}, cur |-> {}, failed |-> FALSE]
        BY DEF NoPass
    <2>2. inflight \in Flight
        BY <2>1 DEF Flight, Phases
    <2> QED BY <2>1, <2>2 DEF FlightTyped
<1>2. inflight.phase = "none" /\ inflight.batch = {}
    BY DEF NoPass
<1>3. OutboxTypeOK
    <2>1. /\ latest \in [Events -> 0..MaxVersion] /\ events \in [Events -> 0..MaxVersion]
          /\ stored \in [Events -> 0..MaxVersion] /\ shots \in 0..Shots
          /\ outages \in 0..MaxOutages /\ reloads \in 0..MaxReloads
        BY OutboxAssumption
    <2>2. /\ images \subseteq 1..Shots /\ received \subseteq 1..Shots /\ overtaken \subseteq Events
          /\ index \subseteq ({"event"} \X Events) \union ({"image"} \X (1..Shots))
          /\ dropped \subseteq ({"event"} \X Events) \union ({"image"} \X (1..Shots))
        OBVIOUS
    <2> QED BY <1>2, <2>1, <2>2 DEF OutboxTypeOK
<1>4. Versions /\ Removals /\ NoneForgotten
    BY <1>2 DEF Versions, Removals, NoneForgotten
<1>5. Shown /\ ScreenshotsKept
    BY <1>2 DEF Shown, ScreenshotsKept
<1>6. IndexExact
    BY DEF IndexExact
<1>7. NewestVersionKept /\ ScreenshotFollowsEvent /\ OnlyRefusedDropped
    BY DEF NewestVersionKept, Safe, ScreenshotFollowsEvent, OnlyRefusedDropped
<1> QED BY <1>1, <1>3, <1>4, <1>5, <1>6, <1>7 DEF LaneInv, LaneTypes

(***************************************************************************)
(* The worker is woken.                                                    *)
(***************************************************************************)

(* WorkIsScheduled, made inductive: a pass counts only if the worker waits *)
(* for it, since only then does its end arm the timer for what is left.    *)
Woken == hasMainWork /\ ~fatal /\ ~backoff => timer \/ (inflight # NoPass /\ awaiting)

(* Every step that adds work or ends a pass leaves a timer armed.          *)
LEMMA WokenKept ==
    ASSUME LaneTypes, LaneTypes', Woken, [OutboxNext]_outboxVars
    PROVE  Woken'
<1> USE DEF Woken, hasMainWork
<1> USE DEF store, remote, worker, env
<1>1. ASSUME NEW e \in Events, putEvent(e) PROVE Woken'
    BY <1>1 DEF putEvent, kick
<1>2. CASE putEvidence \/ discardImages \/ Verified
    BY <1>2 DEF putEvidence, discardImages, Verified, kick
<1>3. CASE runWorker
    <2>1. NoPass.phase = "none" /\ [NoPass EXCEPT !.phase = "events"].phase = "events"
        BY DEF NoPass
    <2>2. [NoPass EXCEPT !.phase = "events"] # NoPass
        BY <2>1
    <2> QED BY <1>3, <2>2 DEF runWorker, flush
<1>4. CASE flushNow
    <2>1. UNCHANGED <<index, fatal, backoff, timer, awaiting>>
        BY <1>4 DEF flushNow
    <2>2. inflight # NoPass => UNCHANGED inflight
        BY <1>4 DEF flushNow, flush
    <2> QED BY <2>1, <2>2
<1>5. CASE onOnline \/ Restart
    BY <1>5 DEF onOnline, Restart
<1>6. CASE PassOver
    <2>1. UNCHANGED <<index, fatal>>
        BY <1>6 DEF PassOver
    <2>2. CASE ~inflight.failed /\ rerun /\ hasMainWork
        <3>1. NoPass.phase = "none" /\ [NoPass EXCEPT !.phase = "events"].phase = "events"
            BY DEF NoPass
        <3>2. inflight' # NoPass /\ UNCHANGED <<timer, backoff, awaiting>>
            BY <1>6, <2>2, <3>1 DEF PassOver
        <3> QED BY <2>1, <3>2
    <2>3. CASE ~(~inflight.failed /\ rerun /\ hasMainWork)
        <3>1. /\ backoff' = IF awaiting THEN inflight.failed ELSE backoff
              /\ timer' = (timer \/ (awaiting /\ (inflight.failed \/ hasMainWork)))
            BY <1>6, <2>3 DEF PassOver
        <3> QED BY <2>1, <3>1
    <2> QED BY <2>2, <2>3
<1>7. CASE Refused
    BY <1>7 DEF Refused
<1>8. CASE \/ ReadEvents \/ EventsAccepted \/ EventsRefused \/ EventsFailed \/ RemovalReads \/ RemovalDeletes
           \/ ReadImages \/ NextImage \/ ImageUploaded \/ ImageRefused \/ UploadFailed
    <2>1. UNCHANGED <<timer, backoff, awaiting, fatal>> /\ index' \subseteq index
        BY <1>8 DEF ReadEvents, EventsAccepted, EventsRefused, EventsFailed, RemovalReads, RemovalDeletes,
                    ReadImages, NextImage, ImageUploaded, ImageRefused, UploadFailed
    <2>2. inflight' # NoPass
        <3>1. NoPass.phase = "none"
            BY DEF NoPass
        <3>2. inflight'.phase # "none"
            <4>1. inflight \in Flight
                BY DEF LaneTypes, FlightTyped
            <4>2. CASE ReadEvents \/ ReadImages
                BY <4>1, <4>2 DEF ReadEvents, ReadImages, Flight
            <4>3. CASE EventsAccepted \/ EventsRefused
                <5>1. inflight.phase = "send"
                    BY <4>3 DEF EventsAccepted, EventsRefused, InPhase
                <5>2. \/ \E rs \in Outgoing :
                            inflight' = [inflight EXCEPT !.phase = "remove", !.left = rs, !.batch = @ \ rs]
                      \/ inflight' = [inflight EXCEPT !.single = TRUE]
                    BY <4>3 DEF EventsAccepted, EventsRefused
                <5> QED BY <4>1, <5>1, <5>2 DEF Flight
            <4>4. CASE EventsFailed
                BY <4>4 DEF EventsFailed, NoPass
            <4>5. CASE RemovalReads \/ RemovalDeletes
                BY <4>1, <4>5 DEF RemovalReads, RemovalDeletes, InPhase, AfterRemoval, Flight
            <4>6. CASE NextImage
                BY <4>1, <4>6 DEF NextImage, InPhase, Flight
            <4>7. CASE ImageUploaded \/ ImageRefused \/ UploadFailed
                BY <4>1, <4>7 DEF ImageUploaded, ImageRefused, UploadFailed, InPhase, Flight
            <4> QED BY <1>8, <4>2, <4>3, <4>4, <4>5, <4>6, <4>7
        <3> QED BY <3>1, <3>2
    <2> QED BY <2>1, <2>2
<1>9. CASE NetworkFails \/ NetworkReturns \/ LoseControl \/ UNCHANGED outboxVars
    BY <1>9 DEF NetworkFails, NetworkReturns, LoseControl, outboxVars
<1> QED
    BY <1>1, <1>2, <1>3, <1>4, <1>5, <1>6, <1>7, <1>8, <1>9 DEF OutboxNext, FlushStep

(***************************************************************************)
(* Theorems.                                                               *)
(***************************************************************************)

(* The invariant holds always.                                             *)
LEMMA LaneInvAlways == OutboxSpec => []LaneInv
<1>1. LaneInv /\ [OutboxNext]_outboxVars => LaneInv'
    BY LaneInvKept
<1> QED BY <1>1, LaneInvInit, PTL DEF OutboxSpec

(* The variables of the outbox have their types.                           *)
THEOREM OutboxTypeCorrect == OutboxSpec => []OutboxTypeOK
<1>1. LaneInv => OutboxTypeOK
    BY DEF LaneInv, LaneTypes
<1> QED BY <1>1, LaneInvAlways, PTL

(* Whatever fails, is sent twice or reloads, the newest version of an      *)
(* event is on the server, still queued or reported as dropped; only in a  *)
(* removal's window can it be lost.                                        *)
THEOREM NewestVersionIsKept == OutboxSpec => []NewestVersionKept
<1>1. LaneInv => NewestVersionKept
    BY DEF LaneInv
<1> QED BY <1>1, LaneInvAlways, PTL

(* While delivery is healthy, queued work has a timer or a pass.           *)
THEOREM WorkAlwaysScheduled == OutboxSpec => []WorkIsScheduled
<1>1. OutboxInit => Woken
    BY DEF OutboxInit, Woken
<1>2. LaneInv /\ LaneInv' /\ Woken /\ [OutboxNext]_outboxVars => Woken'
    BY WokenKept DEF LaneInv
<1>3. Woken => WorkIsScheduled
    BY DEF Woken, WorkIsScheduled
<1> QED BY <1>1, <1>2, <1>3, LaneInvAlways, PTL DEF OutboxSpec

(* The server only has screenshots of events it has, or has refused; in a  *)
(* removal's window too, since an earlier version was taken.               *)
THEOREM ScreenshotsFollowEvents == OutboxSpec => []ScreenshotFollowsEvent
<1>1. LaneInv => ScreenshotFollowsEvent
    BY DEF LaneInv
<1> QED BY <1>1, LaneInvAlways, PTL

(* Screenshots are never lost silently, and of events only those are       *)
(* dropped that the server refuses, however they were batched.             *)
THEOREM DropsAreReported == OutboxSpec => [](ScreenshotsKept /\ OnlyRefusedDropped)
<1>1. LaneInv => ScreenshotsKept /\ OnlyRefusedDropped
    BY DEF LaneInv
<1> QED BY <1>1, LaneInvAlways, PTL
==============================================================================
