-------------------------- MODULE ContinuityContent --------------------------
(***************************************************************************)
(* The inductive invariant about the content of the checkpoint store, and  *)
(* why selecting a predecessor and preparing a record preserve it; what a  *)
(* commit reuses, and what the segments it appends hold.                   *)
(***************************************************************************)
EXTENDS ContinuityStoreProofs

USE SMTT(20), Zenon

(* Segments are a partitioned forest, every checkpoint holds what its      *)
(* exchange committed, every entry of the visible index represents its key *)
(* and is reached from a checkpoint, and every running exchange continues  *)
(* what it means to reuse.                                                 *)
Content ==
    /\ now \in 0..MaxTime
    /\ Partitioned(segments, exchange)
    /\ \A e \in DOMAIN records : Stored(segments, exchange, e, records[e])
    /\ \A k \in DOMAIN visibleHistory :
          /\ Represents(segments, exchange, k, visibleHistory[k])
          /\ Reached(segments, records, visibleHistory[k])
    /\ \A e \in Exchange : Running(segments, exchange, exchange[e])

CInv == IInv /\ Content

----------------------------------------------------------------------------
(* The visible-history index owns nothing.                                 *)

(* w keeps of v what the checkpoints r reach.                              *)
Swept(segs, r, v, w) ==
    /\ DOMAIN w \subseteq DOMAIN v
    /\ \A k \in DOMAIN w : w[k] = v[k] /\ Reached(segs, r, w[k])

LEMMA SweepVisible ==
    ASSUME NEW r, NEW b, NEW v, NEW x, NEW segs
    PROVE  LET s == sweepVisibleHistory(StoreOf(r, b, v, x), segs)
           IN  s.records = r /\ Swept(segs, r, v, s.visibleHistory)
<1> DEFINE st == StoreOf(r, b, v, x)
           reachable == UNION {Ancestors(segs, r[e].after) : e \in DOMAIN r}
           orphan == {k \in DOMAIN v : v[k] \notin reachable}
           w == Without(v, orphan)
<1>1. st.records = r /\ st.visibleHistory = v  BY Zenon DEF StoreOf
<1>2. sweepVisibleHistory(st, segs) = [st EXCEPT !.visibleHistory = w]
  BY Zenon, <1>1 DEF sweepVisibleHistory
<1>3. DOMAIN w = DOMAIN v \ orphan /\ \A k \in DOMAIN w : w[k] = v[k]  BY Zenon DEF Without
<1>4. \A k \in DOMAIN w : v[k] \in reachable  BY Zenon, <1>3
<1>5. ASSUME NEW k \in DOMAIN w PROVE Reached(segs, r, w[k])
  <2>1. v[k] \in reachable /\ w[k] = v[k]  BY Zenon, <1>3, <1>4
  <2>2. \E e \in DOMAIN r : v[k] \in Ancestors(segs, r[e].after)  BY Zenon, <2>1
  <2> QED  BY Zenon, <2>1, <2>2 DEF Reached
<1>6. Swept(segs, r, v, w)  BY Zenon, <1>3, <1>5 DEF Swept
<1> HIDE DEF w
<1>7. [st EXCEPT !.visibleHistory = w].records = r /\ [st EXCEPT !.visibleHistory = w].visibleHistory = w
  BY Zenon DEF StoreOf
<1> QED  BY Zenon, <1>2, <1>6, <1>7

LEMMA DeleteVisible ==
    ASSUME NEW r, NEW b, NEW v, NEW y, NEW ids, Indexed(r, b), NEW segs
    PROVE  LET s == sweepVisibleHistory(deleteRecords(StoreOf(r, b, v, y), ids), segs)
           IN  Swept(segs, s.records, v, s.visibleHistory)
<1>1. PICK rr, bb : deleteRecords(StoreOf(r, b, v, y), ids) = StoreOf(rr, bb, v, y)  BY DeleteKeeps
<1>2. LET s == sweepVisibleHistory(StoreOf(rr, bb, v, y), segs)
      IN  s.records = rr /\ Swept(segs, rr, v, s.visibleHistory)
  BY Zenon, SweepVisible
<1> QED  BY Zenon, <1>1, <1>2

LEMMA ReclaimVisible ==
    ASSUME NEW r, NEW b, NEW v, NEW x, NEW segs, Indexed(r, b), \A k \in DOMAIN v : Reached(segs, r, v[k])
    PROVE  LET s == reclaimExpired(StoreOf(r, b, v, x), segs)
           IN  Swept(segs, s.records, v, s.visibleHistory)
<1> DEFINE st == StoreOf(r, b, v, x)
           due == {y \in x : y.at <= now}
           dead == {y.id : y \in due} \cap {e \in DOMAIN r : r[e].expiresAt <= now}
           popped == StoreOf(r, b, v, x \ due)
<1>1. st.records = r /\ st.expires = x /\ st.visibleHistory = v  BY Zenon DEF StoreOf
<1>2. [st EXCEPT !.expires = @ \ due] = popped
  <2> HIDE DEF due
  <2> QED  BY DEF StoreOf
<1>3. reclaimExpired(st, segs) = IF due = {} THEN st ELSE IF dead = {} THEN popped
                                 ELSE sweepVisibleHistory(deleteRecords(popped, dead), segs)
  <2>1. reclaimExpired(st, segs) =
           IF due = {} THEN st ELSE IF dead = {} THEN [st EXCEPT !.expires = @ \ due]
           ELSE sweepVisibleHistory(deleteRecords([st EXCEPT !.expires = @ \ due], dead), segs)
    BY Zenon, <1>1 DEF reclaimExpired
  <2> QED  BY Zenon, <1>2, <2>1
<1>4. popped.records = r /\ popped.visibleHistory = v  BY Zenon DEF StoreOf
<1>5. Swept(segs, r, v, v)  BY Zenon DEF Swept
<1>6. LET s == sweepVisibleHistory(deleteRecords(popped, dead), segs) IN Swept(segs, s.records, v, s.visibleHistory)
  BY Zenon, DeleteVisible
<1> HIDE DEF st, due, dead, popped
<1>7. LET s == reclaimExpired(st, segs) IN Swept(segs, s.records, v, s.visibleHistory)
  BY Zenon, <1>1, <1>3, <1>4, <1>5, <1>6
<1> QED  BY Zenon, <1>7 DEF st

LEMMA EvictVisible ==
    ASSUME NEW r, NEW b, NEW v, NEW x, NEW segs, Indexed(r, b), NEW o
    PROVE  LET s == evictOldest(StoreOf(r, b, v, x), segs, o)
           IN  Swept(segs, s.records, v, s.visibleHistory)
<1>1. [StoreOf(r, b, v, x) EXCEPT !.expires = @ \ {o}] = StoreOf(r, b, v, x \ {o})  BY DEF StoreOf
<1>2. evictOldest(StoreOf(r, b, v, x), segs, o)
         = sweepVisibleHistory(deleteRecords(StoreOf(r, b, v, x \ {o}), {o.id}), segs)
  BY Zenon, <1>1 DEF evictOldest
<1>3. LET s == sweepVisibleHistory(deleteRecords(StoreOf(r, b, v, x \ {o}), {o.id}), segs)
      IN  Swept(segs, s.records, v, s.visibleHistory)
  BY Zenon, DeleteVisible
<1> QED  BY Zenon, <1>2, <1>3

----------------------------------------------------------------------------
(* Selecting a predecessor and preparing the record.                       *)

(* A step that only lets one exchange go on and removes checkpoints.       *)
LEMMA GoesOn ==
    ASSUME CInv, NEW e \in Exchange, exchange[e].at # "done", NEW val,
           exchange' = [exchange EXCEPT ![e] = val], segments' = segments, now' = now,
           DOMAIN records' \subseteq DOMAIN records, \A d \in DOMAIN records' : records'[d] = records[d],
           Swept(segments, records', visibleHistory, visibleHistory'),
           Running(segments, exchange, val)
    PROVE  Content'
<1>1. /\ DOMAIN exchange = Exchange /\ \A d \in DOMAIN records : d \in Exchange /\ exchange[d].at = "done"
  BY Zenon DEF CInv, IInv, Started
<1>2. exchange'[e] = val /\ \A d \in Exchange : d # e => exchange'[d] = exchange[d]  BY Zenon, <1>1
<1>3. Finished(exchange, exchange')  BY Zenon, <1>2 DEF Finished
<1>4. /\ Partitioned(segments, exchange) /\ now \in 0..MaxTime
      /\ \A d \in DOMAIN records : Stored(segments, exchange, d, records[d])
      /\ \A k \in DOMAIN visibleHistory : Represents(segments, exchange, k, visibleHistory[k])
      /\ \A d \in Exchange : Running(segments, exchange, exchange[d])
  BY Zenon DEF CInv, Content
<1>5. Grown(segments, segments, {})  BY Zenon, <1>4, GrownSelf DEF Partitioned
<1>6. Partitioned(segments, exchange')  BY Zenon, <1>3, <1>4, PartitionStays
<1>7. ASSUME NEW d \in DOMAIN records' PROVE Stored(segments, exchange', d, records'[d])
  <2>1. d \in DOMAIN records /\ records'[d] = records[d]  BY Zenon
  <2>2. d \in Exchange /\ exchange[d].at = "done" /\ Stored(segments, exchange, d, records[d])  BY Zenon, <1>1, <1>4, <2>1
  <2> QED  BY <1>3, <1>5, <2>1, <2>2, StoredStays
<1>8. ASSUME NEW k \in DOMAIN visibleHistory'
      PROVE  Represents(segments, exchange', k, visibleHistory'[k]) /\ Reached(segments, records', visibleHistory'[k])
  <2>1. /\ k \in DOMAIN visibleHistory /\ visibleHistory'[k] = visibleHistory[k]
        /\ Reached(segments, records', visibleHistory'[k])
    BY Zenon DEF Swept
  <2>2. Represents(segments, exchange, k, visibleHistory[k])  BY Zenon, <1>4, <2>1
  <2>3. Represents(segments, exchange', k, visibleHistory[k])  BY <1>3, <1>4, <1>5, <2>2, RepresentsStays
  <2> QED  BY Zenon, <2>1, <2>3
<1>9. ASSUME NEW d \in Exchange PROVE Running(segments, exchange', exchange'[d])
  <2>1. Running(segments, exchange, exchange'[d])  BY Zenon, <1>2, <1>4
  <2> QED  BY <1>3, <1>4, <1>5, <2>1, RunningStays
<1> QED  BY Zenon, <1>4, <1>6, <1>7, <1>8, <1>9 DEF Content

LEMMA SweptSelf ==
    ASSUME CInv
    PROVE  Swept(segments, records, visibleHistory, visibleHistory)
BY Zenon DEF CInv, Content, Swept

LEMMA BeginContent ==
    ASSUME CInv, NEW e \in Exchange, NEW ws \in Workspace, NEW q \in Request, Begin(e, ws, q)
    PROVE  Content'
<1> DEFINE asked == <<Item(q, "whole")>>
           val == [Idle EXCEPT !.at = "open", !.workspace = ws, !.request = q, !.retained = asked]
<1>1. /\ exchange[e].at # "done" /\ exchange' = [exchange EXCEPT ![e] = val]
      /\ UNCHANGED <<now, segments, records, visibleHistory>>
  BY Zenon DEF Begin, store
<1>2. <<>> \o asked = asked /\ <<>> \in Seq(Items)  OBVIOUS
<1>3. asked \in Seq(Items) /\ asked # <<>> /\ Seen(asked) = Append(<<>>, q)
  <2>1. LET t == <<>> \o asked IN t \in Seq(Items) /\ t # <<>> /\ Seen(t) = Append(Seen(<<>>), q)
    BY Zenon, <1>2, AskedShows
  <2> QED  BY Zenon, <1>2, <2>1, NothingShown DEF Nil
<1> HIDE DEF asked
<1>4. /\ val.at = "open" /\ val.workspace = ws /\ val.request = q /\ val.retained = asked
      /\ val.previous = Nil /\ val.reuse.kind = None /\ DOMAIN val = DOMAIN Idle
  BY Zenon DEF Idle, NoReuse
<1> HIDE DEF val
<1>5. "open" # "prepared" /\ None \notin {"token", "history"}  BY Zenon DEF None
<1>6. Composed(segments, exchange, val)  BY Zenon, <1>3, <1>4, <1>5, NothingShown DEF Composed
<1>7. Running(segments, exchange, val)  BY Zenon, <1>3, <1>4, <1>6 DEF Running
<1>8. Swept(segments, records', visibleHistory, visibleHistory')  BY Zenon, <1>1, SweptSelf
<1>9. DOMAIN records' \subseteq DOMAIN records /\ \A d \in DOMAIN records' : records'[d] = records[d]  BY Zenon, <1>1
<1> QED  BY Zenon, <1>1, <1>7, <1>8, <1>9, GoesOn

LEMMA PrepareContent ==
    ASSUME CInv, NEW e \in Exchange, NEW round \in BOOLEAN, prepareRecord(e, round)
    PROVE  Content'
<1> DEFINE x == exchange[e]
           kept == IF round THEN Append(x.retained, Item(e, "private")) ELSE x.retained
           val == [x EXCEPT !.at = "prepared", !.expiresAt = now + TTL, !.retained = kept]
<1>1. /\ x.at = "open" /\ exchange' = [exchange EXCEPT ![e] = val]
      /\ UNCHANGED <<now, segments, records, visibleHistory>>
  BY Zenon DEF prepareRecord, store
<1>2. Running(segments, exchange, x)  BY Zenon DEF CInv, Content
<1>3. x.retained \in Seq(Items) /\ DOMAIN x = DOMAIN Idle /\ Composed(segments, exchange, x)
  BY Zenon, <1>1, <1>2 DEF Running
<1>4. e \in Contribution /\ Item(e, "private") \in Items
  <2>1. e \in Contribution  BY Zenon DEF Contribution
  <2> QED  BY Zenon, <2>1, ItemType
<1>5. Len(x.retained) \in Nat  BY <1>3
<1>6. /\ kept \in Seq(Items) /\ Len(x.retained) <= Len(kept) /\ Seen(kept) = Seen(x.retained) /\ kept # <<>>
      /\ \A n \in Nat : n <= Len(x.retained) => SubSeq(kept, 1, n) = SubSeq(x.retained, 1, n)
  <2>1. CASE round = FALSE
    <3>1. kept = x.retained  BY Zenon, <2>1
    <3>2. x.retained # <<>>  BY Zenon, <1>3 DEF Composed
    <3>3. Len(x.retained) <= Len(x.retained)  BY <1>5
    <3> HIDE DEF kept
    <3> QED  BY Zenon, <1>3, <3>1, <3>2, <3>3
  <2>2. CASE round = TRUE
    <3> DEFINE s == x.retained
               i == Item(e, "private")
    <3>1. kept = Append(s, i)  BY Zenon, <2>2
    <3>2. Seen(Append(s, i)) = Seen(s)  BY Zenon, <1>3, <1>4, ItemShows
    <3>3. \A n \in Nat : n <= Len(s) => SubSeq(Append(s, i), 1, n) = SubSeq(s, 1, n)  BY <1>3, <1>4, CutAppend
    <3> HIDE DEF s, i
    <3>4. s \in Seq(Items) /\ i \in Items  BY Zenon, <1>3, <1>4 DEF s, i
    <3>5. Append(s, i) \in Seq(Items) /\ Len(Append(s, i)) = Len(s) + 1 /\ Len(s) \in Nat  BY <3>4, AppendProperties
    <3>6. Len(s) <= Len(s) + 1 /\ Len(s) + 1 # 0 /\ Len(<<>>) = 0  BY <3>5
    <3>7. Append(s, i) # <<>>  BY Zenon, <3>5, <3>6
    <3>8. s = x.retained  BY Zenon DEF s
    <3>9. kept = Append(s, i)  BY Zenon, <3>1
    <3> HIDE DEF kept, x
    <3> QED  BY Zenon, <3>2, <3>3, <3>5, <3>6, <3>7, <3>8, <3>9
  <2> QED  BY Zenon, <2>1, <2>2
<1> HIDE DEF kept
<1>7. /\ val.at = "prepared" /\ val.workspace = x.workspace /\ val.request = x.request /\ val.retained = kept
      /\ val.previous = x.previous /\ val.reuse = x.reuse /\ val.advance = x.advance
      /\ val.expiresAt = now + TTL /\ DOMAIN val = DOMAIN x
  BY Zenon, <1>3 DEF Idle
<1>8. now + TTL \in TTL..(MaxTime + TTL)
  <2>1. now \in 0..MaxTime  BY Zenon DEF CInv, Content
  <2> QED  BY <2>1, StoreAssumption
<1> HIDE DEF val
<1>9. Composed(segments, exchange, val)
  <2>1. ASSUME x.reuse.kind = "token"
        PROVE  LET old == materializeItemsOf(segments, x.reuse.tail)
               IN  Len(old) < Len(kept) /\ SubSeq(kept, 1, Len(old)) = old
    <3> DEFINE old == materializeItemsOf(segments, x.reuse.tail)
    <3>1. x.reuse.tail \in DOMAIN segments /\ Len(old) < Len(x.retained) /\ SubSeq(x.retained, 1, Len(old)) = old
      BY Zenon, <1>3, <2>1 DEF Composed
    <3>2. old \in Seq(Items)  BY Zenon, <3>1 DEF CInv, Content, Partitioned, Forest
    <3> HIDE DEF old
    <3>3. Len(old) \in Nat  BY <3>2
    <3>4. Len(old) <= Len(x.retained) /\ Len(kept) \in Nat  BY <1>5, <1>6, <3>1, <3>3
    <3>5. Len(old) < Len(kept)  BY <1>5, <1>6, <3>1, <3>3, <3>4
    <3>6. SubSeq(kept, 1, Len(old)) = old  BY Zenon, <1>6, <3>1, <3>3, <3>4
    <3> QED  BY Zenon, <3>5, <3>6 DEF old
  <2>2. ASSUME x.reuse.kind = "history"
        PROVE  /\ x.reuse.prefixLength < Len(kept)
               /\ Shows(SubSeq(kept, 1, x.reuse.prefixLength), Contributions(x.reuse.history))
    <3> DEFINE n == x.reuse.prefixLength
    <3>1. /\ n \in Nat /\ n < Len(x.retained)
          /\ Shows(SubSeq(x.retained, 1, n), Contributions(x.reuse.history))
      BY Zenon, <1>3, <2>2 DEF Composed
    <3> HIDE DEF n
    <3>2. Len(kept) \in Nat  BY <1>6
    <3>3. n < Len(kept) /\ n <= Len(x.retained)  BY <1>5, <1>6, <3>1, <3>2
    <3>4. SubSeq(kept, 1, n) = SubSeq(x.retained, 1, n)  BY Zenon, <1>6, <3>1, <3>3
    <3> QED  BY Zenon, <3>1, <3>3, <3>4 DEF n
  <2>3. /\ x.workspace \in Workspace /\ x.request \in Request /\ x.previous \in Seq(Turn)
        /\ x.reuse.kind \in {None, "token", "history"}
        /\ x.advance => Seen(kept) = Append(Contributions(x.previous), x.request)
        /\ x.reuse.kind = "token" => /\ x.reuse.tail \in DOMAIN segments
                                     /\ exchange[x.reuse.tail[1]].workspace = x.workspace
        /\ x.reuse.kind = "history" => /\ x.reuse.history \in Seq(Turn) /\ x.reuse.prefixLength \in Nat
                                       /\ 1 <= x.reuse.prefixLength
    BY Zenon, <1>3, <1>6 DEF Composed
  <2> HIDE DEF x
  <2> QED  BY Zenon, <1>6, <1>7, <1>8, <2>1, <2>2, <2>3 DEF Composed
<1>10. Running(segments, exchange, val)  BY Zenon, <1>3, <1>6, <1>7, <1>9 DEF Running
<1>11. Swept(segments, records', visibleHistory, visibleHistory')  BY Zenon, <1>1, SweptSelf
<1>12. DOMAIN records' \subseteq DOMAIN records /\ \A d \in DOMAIN records' : records'[d] = records[d]  BY Zenon, <1>1
<1>13. exchange[e].at # "done"  BY Zenon, <1>1
<1> QED  BY Zenon, <1>1, <1>10, <1>11, <1>12, <1>13, GoesOn

(* What an exchange that selected a live checkpoint has composed.          *)
LEMMA ResumedRuns ==
    ASSUME CInv, NEW id \in DOMAIN records, NEW ws \in Workspace, records[id].workspace = ws,
           NEW q \in Request, NEW advance, NEW previous \in Seq(Turn),
           advance => records[id].history # Nil /\ records[id].history = previous
    PROVE  Running(segments, exchange, Resumed(ws, q, id, records[id], advance, previous))
<1> DEFINE r == records[id]
           head == materializeItemsOf(segments, r.requestTail) \o r.response
           asked == head \o <<Item(q, "whole")>>
           val == Resumed(ws, q, id, r, advance, previous)
<1>1. Stored(segments, exchange, id, r) /\ Partitioned(segments, exchange)  BY Zenon DEF CInv, Content
<1>2. /\ r.after \in DOMAIN segments /\ r.after[1] = id /\ r.workspace = exchange[id].workspace
      /\ materializeItemsOf(segments, r.after) = head
      /\ r.history # Nil => Seen(head) = Contributions(r.history)
  BY Zenon, <1>1 DEF Stored
<1>3. head \in Seq(Items)
  <2>1. materializeItemsOf(segments, r.after) \in Seq(Items)  BY Zenon, <1>1, <1>2 DEF Partitioned, Forest
  <2> QED  BY Zenon, <1>2, <2>1
<1>4. val.retained = asked
  <2>1. materializeItems(r.requestTail) = materializeItemsOf(segments, r.requestTail)  BY Zenon DEF materializeItems
  <2> HIDE DEF r
  <2> QED  BY Zenon, <2>1 DEF Resumed, Idle
<1>5. /\ val.at = "open" /\ val.workspace = ws /\ val.request = q /\ val.advance = advance
      /\ val.previous = previous /\ val.reuse = Token(ws, r.after) /\ DOMAIN val = DOMAIN Idle
  <2> HIDE DEF r
  <2> QED  BY Zenon DEF Resumed, Idle
<1>6. Token(ws, r.after).kind = "token" /\ Token(ws, r.after).tail = r.after  BY Zenon DEF Token
<1>7. advance => Seen(head) = Contributions(previous)  BY Zenon, <1>2
<1> HIDE DEF head
<1>8. /\ asked \in Seq(Items) /\ asked # <<>> /\ Len(asked) = Len(head) + 1
      /\ Seen(asked) = Append(Seen(head), q) /\ SubSeq(asked, 1, Len(head)) = head
  BY Zenon, <1>3, AskedShows
<1>9. Len(head) < Len(asked)
  <2>1. Len(head) \in Nat  BY <1>3
  <2> QED  BY <1>8, <2>1
<1>10. val.reuse.kind = "token" /\ val.reuse.tail = r.after  BY Zenon, <1>5, <1>6
<1> HIDE DEF asked, val
<1>11. "open" # "prepared" /\ "token" # "history"  BY Zenon
<1>12. Composed(segments, exchange, val)
  BY Zenon, <1>2, <1>4, <1>5, <1>7, <1>8, <1>9, <1>10, <1>11 DEF Composed
<1>13. Running(segments, exchange, val)  BY Zenon, <1>4, <1>5, <1>8, <1>12 DEF Running
<1> QED  BY Zenon, <1>13 DEF val, r

(* What an exchange has composed whose client resent a history that no one *)
(* checkpoint carries.                                                     *)
LEMMA ResentRuns ==
    ASSUME CInv, NEW ws \in Workspace, NEW q \in Request, NEW h \in Seq(Turn), h # <<>>, NEW split \in BOOLEAN
    PROVE  LET resent == Represent(h, split)
           IN  Running(segments, exchange,
                       [Idle EXCEPT !.at = "open", !.workspace = ws, !.request = q,
                                    !.retained = resent \o <<Item(q, "whole")>>,
                                    !.previous = h, !.reuse = Visible(h, Len(resent))])
<1> DEFINE resent == Represent(h, split)
           asked == resent \o <<Item(q, "whole")>>
           reuse == Visible(h, Len(resent))
           val == [Idle EXCEPT !.at = "open", !.workspace = ws, !.request = q, !.retained = asked,
                               !.previous = h, !.reuse = reuse]
<1>1. /\ resent \in Seq(Items) /\ Seen(resent) = Contributions(h) /\ Shows(resent, Contributions(h))
  BY Zenon, RepresentShows DEF Shows
<1>2. Len(resent) >= 1  BY Zenon, RepresentNonempty
<1> HIDE DEF resent
<1>3. /\ asked \in Seq(Items) /\ asked # <<>> /\ Len(asked) = Len(resent) + 1
      /\ Seen(asked) = Append(Contributions(h), q) /\ SubSeq(asked, 1, Len(resent)) = resent
  BY Zenon, <1>1, AskedShows
<1>4. reuse.kind = "history" /\ reuse.history = h /\ reuse.prefixLength = Len(resent)  BY Zenon DEF Visible
<1> HIDE DEF asked, reuse
<1>5. Len(resent) \in Nat  BY <1>1
<1>6. Len(resent) \in Nat /\ 1 <= Len(resent) /\ Len(resent) < Len(asked)  BY <1>2, <1>3, <1>5
<1>7. /\ val.at = "open" /\ val.workspace = ws /\ val.request = q /\ val.retained = asked
      /\ val.previous = h /\ val.reuse = reuse /\ DOMAIN val = DOMAIN Idle
  BY Zenon DEF Idle
<1> HIDE DEF val
<1>8. "open" # "prepared" /\ "token" # "history"  BY Zenon
<1>9. Composed(segments, exchange, val)  BY Zenon, <1>1, <1>3, <1>4, <1>6, <1>7, <1>8 DEF Composed
<1>10. Running(segments, exchange, val)  BY Zenon, <1>3, <1>7, <1>9 DEF Running
<1> QED  BY Zenon, <1>10 DEF val, asked, reuse, resent

(* What Get and FindByHistory leave of the visible index.                  *)
LEMMA ReclaimedVisible ==
    ASSUME CInv
    PROVE  LET st == reclaimExpired(Store, segments)
           IN  Swept(segments, st.records, visibleHistory, st.visibleHistory)
<1>1. Indexed(records, byHistory)  BY Zenon DEF CInv, IInv, Sound
<1>2. \A k \in DOMAIN visibleHistory : Reached(segments, records, visibleHistory[k])  BY Zenon DEF CInv, Content
<1>3. LET s == reclaimExpired(StoreOf(records, byHistory, visibleHistory, expires), segments)
      IN  Swept(segments, s.records, visibleHistory, s.visibleHistory)
  BY <1>1, <1>2, ReclaimVisible
<1> QED  BY Zenon, <1>3, StoreIsStoreOf

LEMMA InstalledReclaimed ==
    ASSUME CInv, Install(reclaimExpired(Store, segments)), now' = now
    PROVE  /\ DOMAIN records' \subseteq DOMAIN records /\ \A d \in DOMAIN records' : records'[d] = records[d]
           /\ Swept(segments, records', visibleHistory, visibleHistory')
<1>1. IInv  BY Zenon DEF CInv
<1>2. /\ DOMAIN records' = {d \in DOMAIN records : records[d].expiresAt > now}
      /\ \A d \in DOMAIN records' : records'[d] = records[d]
  BY Zenon, <1>1, ReclaimStep
<1>3. /\ records' = reclaimExpired(Store, segments).records
      /\ visibleHistory' = reclaimExpired(Store, segments).visibleHistory
  BY Zenon DEF Install
<1>4. Swept(segments, records', visibleHistory, visibleHistory')  BY Zenon, <1>3, ReclaimedVisible
<1> QED  BY Zenon, <1>2, <1>4

LEMMA ExplicitContent ==
    ASSUME CInv, NEW e \in Exchange, NEW ws \in Workspace, NEW q \in Request, NEW id, NEW same,
           ResumeExplicit(e, ws, q, id, same)
    PROVE  Content'
<1> DEFINE st == reclaimExpired(Store, segments)
           r == st.records[id]
           found == Resumed(ws, q, id, r, Extends(r, same), r.history)
           lost == [Idle EXCEPT !.at = "failed"]
           val == IF Addressed(st, ws, id) THEN found ELSE lost
<1>1. /\ exchange[e].at = "new" /\ exchange' = [exchange EXCEPT ![e] = val] /\ Install(st)
      /\ now' = now /\ segments' = segments
  BY Zenon DEF ResumeExplicit
<1>2. IInv  BY Zenon DEF CInv
<1>3. /\ DOMAIN st.records = {d \in DOMAIN records : records[d].expiresAt > now}
      /\ \A d \in DOMAIN st.records : st.records[d] = records[d]
  BY Zenon, <1>2, Reclaimed
<1>4. /\ DOMAIN records' \subseteq DOMAIN records /\ \A d \in DOMAIN records' : records'[d] = records[d]
      /\ Swept(segments, records', visibleHistory, visibleHistory')
  BY Zenon, <1>1, InstalledReclaimed
<1> HIDE DEF st
<1>5. Running(segments, exchange, val)
  <2>1. CASE Addressed(st, ws, id)
    <3>1. id \in DOMAIN records /\ r = records[id] /\ r.workspace = ws  BY Zenon, <1>3, <2>1 DEF Addressed
    <3>2. Stored(segments, exchange, id, records[id])  BY Zenon, <3>1 DEF CInv, Content
    <3>3. r.history \in Seq(Turn)  BY Zenon, <3>1, <3>2 DEF Stored
    <3>4. Extends(r, same) => r.history # Nil  BY Zenon DEF Extends
    <3>5. val = found  BY <2>1
    <3> HIDE DEF val, r
    <3>6. Running(segments, exchange, Resumed(ws, q, id, records[id], Extends(r, same), r.history))
      BY Zenon, <3>1, <3>3, <3>4, ResumedRuns
    <3> QED  BY Zenon, <3>1, <3>5, <3>6
  <2>2. CASE ~Addressed(st, ws, id)
    <3>1. val = lost  BY Zenon, <2>2
    <3>2. lost.at = "failed" /\ lost.retained = <<>> /\ DOMAIN lost = DOMAIN Idle  BY Zenon DEF Idle
    <3>3. <<>> \in Seq(Items) /\ "failed" \notin {"open", "prepared"}  OBVIOUS
    <3> HIDE DEF lost, val
    <3> QED  BY Zenon, <3>1, <3>2, <3>3 DEF Running
  <2> QED  BY Zenon, <2>1, <2>2
<1>6. exchange[e].at # "done"  BY <1>1
<1> HIDE DEF val
<1> QED  BY Zenon, <1>1, <1>4, <1>5, <1>6, GoesOn

LEMMA HistoryContent ==
    ASSUME CInv, NEW e \in Exchange, NEW ws \in Workspace, NEW q \in Request,
           NEW h \in HistoryUpTo(MaxTurns), NEW split \in BOOLEAN, ResumeByHistory(e, ws, q, h, split)
    PROVE  Content'
<1> DEFINE st == reclaimExpired(Store, segments)
           key == <<ws, h>>
           resent == Represent(h, split)
           begun == [Idle EXCEPT !.at = "open", !.workspace = ws, !.request = q,
                                 !.retained = resent \o <<Item(q, "whole")>>,
                                 !.previous = h, !.reuse = Visible(h, Len(resent))]
<1>1. /\ exchange[e].at = "new" /\ Install(st) /\ now' = now /\ segments' = segments
      /\ \/ \E id \in FindByHistory(st, ws, h) :
               exchange' = [exchange EXCEPT ![e] = Resumed(ws, q, id, st.records[id], TRUE, h)]
         \/ exchange' = [exchange EXCEPT ![e] = begun]
  BY Zenon DEF ResumeByHistory
<1>2. IInv  BY Zenon DEF CInv
<1>3. /\ Sound(st.records, st.byHistory, st.expires)
      /\ DOMAIN st.records = {d \in DOMAIN records : records[d].expiresAt > now}
      /\ \A d \in DOMAIN st.records : st.records[d] = records[d]
  BY Zenon, <1>2, Reclaimed
<1>4. /\ DOMAIN records' \subseteq DOMAIN records /\ \A d \in DOMAIN records' : records'[d] = records[d]
      /\ Swept(segments, records', visibleHistory, visibleHistory')
  BY Zenon, <1>1, InstalledReclaimed
<1>5. h \in Seq(Turn) /\ h # <<>>
  <2>1. PICK k \in 1..MaxTurns : h \in [1..k -> Turn]  BY Zenon DEF HistoryUpTo
  <2>2. k \in Nat /\ 1 \in 1..k  BY StoreAssumption
  <2>3. h \in Seq(Turn)  BY <2>1, <2>2
  <2>4. DOMAIN h = 1..k  BY Zenon, <2>1
  <2>5. DOMAIN <<>> = {}  OBVIOUS
  <2> QED  BY Zenon, <2>2, <2>3, <2>4, <2>5
<1>6. Running(segments, exchange, begun)  BY Zenon, <1>5, ResentRuns
<1> HIDE DEF st
<1>7. ASSUME NEW id \in FindByHistory(st, ws, h)
      PROVE  Running(segments, exchange, Resumed(ws, q, id, st.records[id], TRUE, h))
  <2>1. id \in Members(st, ws, h) /\ id \in DOMAIN st.records  BY Zenon DEF FindByHistory
  <2>2. key \in DOMAIN st.byHistory /\ id \in st.byHistory[key]
    BY Zenon, <2>1 DEF Members
  <2>3. id \in Carry(st.records, key)  BY Zenon, <1>3, <2>2 DEF Sound, Indexed
  <2>4. st.records[id].history # Nil /\ <<st.records[id].workspace, st.records[id].history>> = <<ws, h>>
    BY Zenon, <2>3 DEF Carry
  <2>5. st.records[id] = records[id] /\ id \in DOMAIN records  BY Zenon, <1>3, <2>1
  <2>6. records[id].workspace = ws /\ records[id].history = h /\ records[id].history # Nil
    BY Zenon, <2>4, <2>5
  <2>7. Running(segments, exchange, Resumed(ws, q, id, records[id], TRUE, h))  BY Zenon, <1>5, <2>5, <2>6, ResumedRuns
  <2> QED  BY Zenon, <2>5, <2>7
<1>8. exchange[e].at # "done"  BY <1>1
<1> HIDE DEF begun
<1>9. CASE exchange' = [exchange EXCEPT ![e] = begun]  BY Zenon, <1>1, <1>4, <1>6, <1>8, <1>9, GoesOn
<1>10. ASSUME NEW id \in FindByHistory(st, ws, h),
              exchange' = [exchange EXCEPT ![e] = Resumed(ws, q, id, st.records[id], TRUE, h)]
       PROVE  Content'
  <2> DEFINE val == Resumed(ws, q, id, st.records[id], TRUE, h)
  <2>1. Running(segments, exchange, val) /\ exchange' = [exchange EXCEPT ![e] = val]  BY Zenon, <1>7, <1>10
  <2> HIDE DEF val
  <2> QED  BY Zenon, <1>1, <1>4, <1>8, <2>1, GoesOn
<1> QED  BY Zenon, <1>1, <1>9, <1>10

(* What resolveStorageReuse hands to the commit of e: segments grown by at *)
(* most the base of e, and a base of the exchange's workspace from which   *)
(* the rest of the retained items completes what it shows.                 *)
Resolved(e, x, u) ==
    LET rest == SubSeq(x.retained, u.prefix + 1, Len(x.retained))
        whole == materializeItemsOf(u.segs, u.base) \o rest
    IN  /\ Grown(segments, u.segs, {<<e, "base">>}) /\ u.base \in DOMAIN u.segs \cup {Nil}
        /\ <<e, "base">> \in DOMAIN u.segs => u.base = <<e, "base">>
        /\ rest \in Seq(Items) /\ rest # <<>>
        /\ x.reuse.kind # "history" => whole = x.retained
        /\ Seen(whole) = Seen(x.retained) /\ Private(whole) = Private(x.retained)
        /\ \A a \in Ancestors(u.segs, u.base) :
              a = <<e, "base">> \/ (a \in DOMAIN segments /\ exchange[a[1]].workspace = x.workspace)
        /\ u.key # None =>
              /\ u.key \in HistoryKey /\ u.key[1] = x.workspace /\ u.base \in DOMAIN u.segs
              /\ Shows(materializeItemsOf(u.segs, u.base), Contributions(u.key[2]))

LEMMA ResolveNothing ==
    ASSUME CInv, NEW e \in Exchange, exchange[e].at # "done", NEW x, x.retained \in Seq(Items), Composed(segments, exchange, x),
           x.reuse.kind = None
    PROVE  Resolved(e, x, [base |-> Nil, prefix |-> 0, key |-> None, segs |-> segments])
<1> DEFINE u == [base |-> Nil, prefix |-> 0, key |-> None, segs |-> segments]
           s == x.retained
<1>0. Partitioned(segments, exchange)  BY Zenon DEF CInv, Content
<1>1. u.base = Nil /\ u.prefix = 0 /\ u.key = None /\ u.segs = segments  OBVIOUS
<1>2. Forest(segments) /\ Solved(segments) /\ Nil \notin DOMAIN segments
  BY Zenon DEF CInv, Content, Partitioned, Forest
<1>3. materializeItemsOf(segments, Nil) = <<>> /\ Ancestors(segments, Nil) = {}
  BY Zenon, <1>2, MaterializeEquation, AncestorsEquation
<1>4. SubSeq(s, 0 + 1, Len(s)) = s
  <2>1. 0 + 1 = 1  OBVIOUS
  <2> QED  BY Zenon, <2>1, SubSeqFull
<1>5. <<>> \o s = s  BY ConcatEmptySeq
<1>6. <<e, "base">> \notin DOMAIN segments  BY Zenon, <1>0, Fresh
<1>7. Grown(segments, segments, {<<e, "base">>})  BY Zenon, <1>2, GrownSelf
<1>8. s # <<>>  BY Zenon DEF Composed
<1> HIDE DEF u
<1> QED  BY Zenon, <1>1, <1>3, <1>4, <1>5, <1>6, <1>7, <1>8 DEF Resolved

LEMMA ResolveToken ==
    ASSUME CInv, NEW e \in Exchange, exchange[e].at # "done", NEW x, x.retained \in Seq(Items),
           Composed(segments, exchange, x), x.reuse.kind = "token"
    PROVE  Resolved(e, x, [base |-> x.reuse.tail, prefix |-> Len(materializeItems(x.reuse.tail)), key |-> None,
                           segs |-> segments])
<1> DEFINE t == x.reuse.tail
           kept == materializeItemsOf(segments, t)
           u == [base |-> t, prefix |-> Len(materializeItems(t)), key |-> None, segs |-> segments]
           s == x.retained
           rest == SubSeq(s, Len(kept) + 1, Len(s))
<1>0. Partitioned(segments, exchange)  BY Zenon DEF CInv, Content
<1>1. u.base = t /\ u.prefix = Len(kept) /\ u.key = None /\ u.segs = segments  BY Zenon DEF materializeItems
<1>2. Forest(segments)  BY Zenon, <1>0 DEF Partitioned
<1>3. /\ t \in DOMAIN segments /\ exchange[t[1]].workspace = x.workspace
      /\ Len(kept) < Len(s) /\ SubSeq(s, 1, Len(kept)) = kept
  BY Zenon DEF Composed
<1>4. kept \in Seq(Items)  BY Zenon, <1>2, <1>3 DEF Forest
<1>5. \A a \in Ancestors(segments, t) : a \in DOMAIN segments /\ exchange[a[1]].workspace = x.workspace
  BY Zenon, <1>0, <1>2, <1>3 DEF Partitioned, Forest
<1>6. <<e, "base">> \notin DOMAIN segments  BY Zenon, <1>0, Fresh
<1>7. Grown(segments, segments, {<<e, "base">>})  BY Zenon, <1>2, GrownSelf
<1> HIDE DEF kept, u
<1>8. Len(kept) \in Nat /\ Len(s) \in Nat /\ Len(kept) <= Len(s)
  <2>1. Len(kept) \in Nat /\ Len(s) \in Nat  BY <1>4
  <2> QED  BY <1>3, <2>1
<1>9. rest \in Seq(Items) /\ rest # <<>> /\ s = kept \o rest  BY Zenon, <1>3, <1>8, CutJoins
<1>10. kept = materializeItemsOf(u.segs, u.base)  BY Zenon, <1>1 DEF kept
<1> HIDE DEF rest
<1>11. SubSeq(s, u.prefix + 1, Len(s)) = rest  BY Zenon, <1>1 DEF rest
<1>12. Resolved(e, x, u)  BY Zenon, <1>1, <1>3, <1>5, <1>6, <1>7, <1>9, <1>10, <1>11 DEF Resolved
<1> QED  BY Zenon, <1>12 DEF u

(* A history's prefix that the index holds is replaced by the segment of   *)
(* its first representation; another becomes the base of this commit.      *)
LEMMA ResolveHistory ==
    ASSUME CInv, NEW e \in Exchange, exchange[e].at # "done", NEW x, x.retained \in Seq(Items),
           Composed(segments, exchange, x), x.reuse.kind = "history",
           NEW base, NEW segs,
           \/ /\ <<x.workspace, x.reuse.history>> \in DOMAIN visibleHistory
              /\ base = visibleHistory[<<x.workspace, x.reuse.history>>] /\ segs = segments
           \/ LET new == appendSegment(segments, <<e, "base">>, Nil, SubSeq(x.retained, 1, x.reuse.prefixLength))
              IN  base = new.tail /\ segs = new.segs
    PROVE  Resolved(e, x, [base |-> base, prefix |-> x.reuse.prefixLength,
                           key |-> <<x.workspace, x.reuse.history>>, segs |-> segs])
<1> DEFINE h == x.reuse.history
           n == x.reuse.prefixLength
           key == <<x.workspace, h>>
           u == [base |-> base, prefix |-> n, key |-> key, segs |-> segs]
           s == x.retained
           pre == SubSeq(s, 1, n)
           rest == SubSeq(s, n + 1, Len(s))
           kept == materializeItemsOf(segs, base)
           name == <<e, "base">>
<1>0. Partitioned(segments, exchange) /\ Forest(segments)  BY Zenon DEF CInv, Content, Partitioned
<1>1. u.base = base /\ u.prefix = n /\ u.key = key /\ u.segs = segs  BY Zenon
<1>2. /\ x.workspace \in Workspace /\ h \in Seq(Turn) /\ n \in Nat /\ 1 <= n /\ n < Len(s)
      /\ Shows(pre, Contributions(h))
  BY Zenon DEF Composed
<1>3. key \in HistoryKey /\ key[1] = x.workspace /\ key[2] = h  BY Zenon, <1>2 DEF HistoryKey
<1>4. /\ pre \in Seq(Items) /\ rest \in Seq(Items) /\ rest # <<>> /\ Len(pre) = n /\ s = pre \o rest
  <2>1. Len(s) \in Nat  OBVIOUS
  <2>2. n <= Len(s)  BY <1>2, <2>1
  <2> QED  BY Zenon, <1>2, <2>2, CutJoins
<1>5. pre # <<>>
  <2>1. n # 0 /\ Len(<<>>) = 0  BY <1>2
  <2> QED  BY Zenon, <1>4, <2>1
<1>6. name \notin DOMAIN segments /\ name # Nil  BY <1>0, Fresh
<1> HIDE DEF key, u, pre, rest, name
<1>7. /\ Grown(segments, segs, {name}) /\ base \in DOMAIN segs /\ (name \in DOMAIN segs => base = name)
      /\ Shows(kept, Contributions(h))
      /\ \A a \in Ancestors(segs, base) :
            a = name \/ (a \in DOMAIN segments /\ exchange[a[1]].workspace = x.workspace)
  <2>1. CASE key \in DOMAIN visibleHistory /\ base = visibleHistory[key] /\ segs = segments
    <3>1. Represents(segments, exchange, key, base)  BY Zenon, <2>1 DEF CInv, Content
    <3>2. base \in DOMAIN segments /\ exchange[base[1]].workspace = x.workspace /\ Shows(kept, Contributions(h))
      BY Zenon, <1>3, <2>1, <3>1 DEF Represents
    <3>3. \A a \in Ancestors(segments, base) : a \in DOMAIN segments /\ exchange[a[1]].workspace = x.workspace
      BY Zenon, <1>0, <3>2 DEF Partitioned, Forest
    <3>4. Grown(segments, segments, {name})  BY Zenon, <1>0, GrownSelf
    <3> QED  BY Zenon, <1>6, <2>1, <3>2, <3>3, <3>4
  <2>2. ASSUME NEW new, new = appendSegment(segments, name, Nil, pre), base = new.tail, segs = new.segs
        PROVE  /\ Grown(segments, segs, {name}) /\ base \in DOMAIN segs /\ (name \in DOMAIN segs => base = name)
               /\ Shows(kept, Contributions(h))
               /\ \A a \in Ancestors(segs, base) :
                     a = name \/ (a \in DOMAIN segments /\ exchange[a[1]].workspace = x.workspace)
    <3>0. Nil \in DOMAIN segments \cup {Nil}  OBVIOUS
    <3>1. AppendedTo(segments, name, Nil, pre, new)  BY Zenon, <1>0, <1>4, <1>6, <2>2, <3>0, AppendGrows
    <3>2. materializeItemsOf(segments, Nil) = <<>> /\ Ancestors(segments, Nil) = {}
      BY Zenon, <1>0, MaterializeEquation, AncestorsEquation DEF Forest
    <3>3. <<>> \o pre = pre  BY <1>4, ConcatEmptySeq
    <3>4. /\ Grown(segments, segs, {name}) /\ base = name /\ name \in DOMAIN segs
          /\ kept = pre /\ Ancestors(segs, base) \subseteq {} \cup {name}
      BY Zenon, <1>5, <2>2, <3>1, <3>2, <3>3 DEF AppendedTo
    <3> HIDE DEF kept
    <3> QED  BY Zenon, <1>2, <3>4 DEF pre
  <2> QED  BY Zenon, <2>1, <2>2 DEF key, pre, name
<1>8. kept \in Seq(Items) /\ Seen(kept) = Seen(pre) /\ Private(kept) = Private(pre)
  BY Zenon, <1>2, <1>7 DEF Shows, pre
<1>9. kept = materializeItemsOf(u.segs, u.base)  BY Zenon, <1>1
<1> HIDE DEF kept
<1>10. Seen(kept \o rest) = Seen(s) /\ Private(kept \o rest) = Private(s)
  <2>1. Seen(kept \o rest) = Seen(pre \o rest) /\ Private(kept \o rest) = Private(pre \o rest)
    BY Zenon, <1>4, <1>8, ShowAlike
  <2> QED  BY Zenon, <1>4, <2>1
<1>11. SubSeq(s, u.prefix + 1, Len(s)) = rest  BY Zenon, <1>1 DEF rest
<1>12. Resolved(e, x, u)
  BY Zenon, <1>1, <1>3, <1>4, <1>7, <1>9, <1>10, <1>11 DEF Resolved, name
<1> QED  BY Zenon, <1>12 DEF u, key

LEMMA ReuseResolved ==
    ASSUME CInv, NEW e \in Exchange, exchange[e].at = "prepared", NEW st, NEW r,
           Swept(segments, r, visibleHistory, st.visibleHistory)
    PROVE  Resolved(e, exchange[e], resolveStorageReuse(st, e, exchange[e]))
<1> DEFINE x == exchange[e]
           u == resolveStorageReuse(st, e, x)
<1>1. x.at = "prepared" /\ exchange[e].at # "done"  BY Zenon
<1>2. Running(segments, exchange, x)  BY Zenon DEF CInv, Content
<1>3. x.retained \in Seq(Items) /\ Composed(segments, exchange, x)  BY Zenon, <1>1, <1>2 DEF Running
<1>4. x.reuse.kind \in {None, "token", "history"}  BY Zenon, <1>3 DEF Composed
<1>5. None # "token" /\ None # "history"  BY Zenon DEF None
<1> HIDE DEF x
<1>6. ASSUME x.reuse.kind = None PROVE Resolved(e, x, u)
  <2>1. u = [base |-> Nil, prefix |-> 0, key |-> None, segs |-> segments]
    BY Zenon, <1>5, <1>6 DEF resolveStorageReuse
  <2> QED  BY <1>1, <1>3, <1>6, <2>1, ResolveNothing
<1>7. ASSUME x.reuse.kind = "token" PROVE Resolved(e, x, u)
  <2>1. u = [base |-> x.reuse.tail, prefix |-> Len(materializeItems(x.reuse.tail)), key |-> None, segs |-> segments]
    BY Zenon, <1>5, <1>7 DEF resolveStorageReuse
  <2> QED  BY <1>1, <1>3, <1>7, <2>1, ResolveToken
<1>8. ASSUME x.reuse.kind = "history" PROVE Resolved(e, x, u)
  <2> DEFINE key == <<x.workspace, x.reuse.history>>
             new == appendSegment(segments, <<e, "base">>, Nil, SubSeq(x.retained, 1, x.reuse.prefixLength))
  <2>1. u = IF key \in DOMAIN st.visibleHistory
            THEN [base |-> st.visibleHistory[key], prefix |-> x.reuse.prefixLength, key |-> key, segs |-> segments]
            ELSE [base |-> new.tail, prefix |-> x.reuse.prefixLength, key |-> key, segs |-> new.segs]
    BY Zenon, <1>5, <1>8 DEF resolveStorageReuse, VisibleKey
  <2>2. key \in DOMAIN st.visibleHistory =>
           key \in DOMAIN visibleHistory /\ st.visibleHistory[key] = visibleHistory[key]
    BY Zenon DEF Swept
  <2>3. ASSUME NEW base, NEW segs,
               \/ key \in DOMAIN visibleHistory /\ base = visibleHistory[key] /\ segs = segments
               \/ base = new.tail /\ segs = new.segs
        PROVE  Resolved(e, x, [base |-> base, prefix |-> x.reuse.prefixLength, key |-> key, segs |-> segs])
    BY ZenonT(30), <1>1, <1>3, <1>8, <2>3, ResolveHistory
  <2> HIDE DEF key, new, u
  <2>4. CASE key \in DOMAIN st.visibleHistory
    <3>1. Resolved(e, x, [base |-> st.visibleHistory[key], prefix |-> x.reuse.prefixLength, key |-> key, segs |-> segments])
      BY Zenon, <2>2, <2>3, <2>4
    <3> QED  BY Zenon, <2>1, <2>4, <3>1
  <2>5. CASE key \notin DOMAIN st.visibleHistory
    <3>1. Resolved(e, x, [base |-> new.tail, prefix |-> x.reuse.prefixLength, key |-> key, segs |-> new.segs])
      BY Zenon, <2>3
    <3> QED  BY Zenon, <2>1, <2>5, <3>1
  <2> QED  BY Zenon, <2>4, <2>5
<1>9. Resolved(e, x, u)  BY Zenon, <1>4, <1>6, <1>7, <1>8
<1> QED  BY Zenon, <1>9 DEF x, u

(* The segments Put leaves, and what its two tails materialise to.         *)
Mine(e, x, b) == b[1] = e \/ (b \in DOMAIN segments /\ exchange[b[1]].workspace = x.workspace)

Committed(e, x, u, requestTail, after, i) ==
    LET got == materializeItemsOf(after.segs, requestTail)
        own == {<<e, "base">>, <<e, "request">>, <<e, "after">>}
    IN  /\ Grown(segments, after.segs, own)
        /\ requestTail = <<e, "request">> /\ after.tail = <<e, "after">>
        /\ requestTail \in DOMAIN after.segs /\ after.tail \in DOMAIN after.segs
        /\ x.reuse.kind # "history" => got = x.retained
        /\ Seen(got) = Seen(x.retained) /\ Private(got) = Private(x.retained)
        /\ materializeItemsOf(after.segs, after.tail) = got \o <<i>>
        /\ \A s \in own \cap DOMAIN after.segs : \A b \in Ancestors(after.segs, s) : Mine(e, x, b)
        /\ u.key # None =>
              /\ u.key \in HistoryKey /\ u.key[1] = x.workspace
              /\ u.base \in DOMAIN after.segs /\ Mine(e, x, u.base)
              /\ u.base \in Ancestors(after.segs, after.tail)
              /\ Shows(materializeItemsOf(after.segs, u.base), Contributions(u.key[2]))

LEMMA CommitGrows ==
    ASSUME CInv, NEW e \in Exchange, exchange[e].at # "done", NEW x, NEW u, Resolved(e, x, u), NEW i \in Items
    PROVE  LET asked == appendSegment(u.segs, <<e, "request">>, u.base,
                                      SubSeq(x.retained, u.prefix + 1, Len(x.retained)))
               after == appendSegment(asked.segs, <<e, "after">>, asked.tail, <<i>>)
           IN  Committed(e, x, u, asked.tail, after, i)
<1> DEFINE rest == SubSeq(x.retained, u.prefix + 1, Len(x.retained))
           n == <<e, "request">>
           m == <<e, "after">>
           o == <<e, "base">>
           asked == appendSegment(u.segs, n, u.base, rest)
           after == appendSegment(asked.segs, m, asked.tail, <<i>>)
           kept == materializeItemsOf(u.segs, u.base)
           end == after.segs
<1>1. /\ Grown(segments, u.segs, {o}) /\ u.base \in DOMAIN u.segs \cup {Nil}
      /\ o \in DOMAIN u.segs => u.base = o
      /\ rest \in Seq(Items) /\ rest # <<>>
      /\ x.reuse.kind # "history" => kept \o rest = x.retained
      /\ Seen(kept \o rest) = Seen(x.retained) /\ Private(kept \o rest) = Private(x.retained)
      /\ \A a \in Ancestors(u.segs, u.base) :
            a = o \/ (a \in DOMAIN segments /\ exchange[a[1]].workspace = x.workspace)
      /\ u.key # None =>
            /\ u.key \in HistoryKey /\ u.key[1] = x.workspace /\ u.base \in DOMAIN u.segs
            /\ Shows(kept, Contributions(u.key[2]))
  BY Zenon DEF Resolved
<1>2. Partitioned(segments, exchange)  BY Zenon DEF CInv, Content
<1>3. n # m /\ n # o /\ m # o /\ n[1] = e /\ m[1] = e /\ o[1] = e  BY Zenon
<1>4. n \notin DOMAIN segments /\ n # Nil /\ m \notin DOMAIN segments /\ m # Nil /\ o # Nil  BY <1>2, Fresh
<1> HIDE DEF rest, n, m, o
<1>5. Forest(u.segs) /\ n \notin DOMAIN u.segs /\ m \notin DOMAIN u.segs
  BY Zenon, <1>1, <1>3, <1>4 DEF Grown
<1>6. /\ Grown(u.segs, end, {n, m}) /\ asked.tail = n /\ after.tail = m
      /\ n \in DOMAIN end /\ m \in DOMAIN end
      /\ materializeItemsOf(end, n) = kept \o rest
      /\ materializeItemsOf(end, m) = (kept \o rest) \o <<i>>
      /\ Ancestors(end, n) \subseteq Ancestors(u.segs, u.base) \cup {n, m}
      /\ Ancestors(end, m) \subseteq Ancestors(u.segs, u.base) \cup {n, m}
      /\ Ancestors(u.segs, u.base) \subseteq Ancestors(end, m)
  BY ZenonT(60), <1>1, <1>3, <1>4, <1>5, AppendBoth
<1> HIDE DEF asked, after, end, kept
<1>7. Grown(segments, end, {o, n, m})
  <2>1. Grown(segments, end, {o} \cup {n, m})  BY Zenon, <1>1, <1>6, GrownAgain
  <2>2. {o} \cup {n, m} = {o, n, m}  BY Zenon
  <2> QED  BY Zenon, <2>1, <2>2
<1>8. \A b \in Ancestors(u.segs, u.base) \cup {n, m} : Mine(e, x, b)  BY Zenon, <1>1, <1>3 DEF Mine
<1>9. ASSUME NEW s \in {o, n, m} \cap DOMAIN end, NEW b \in Ancestors(end, s) PROVE Mine(e, x, b)
  <2>1. CASE s = n \/ s = m  BY Zenon, <1>6, <1>8, <2>1
  <2>2. CASE s = o
    <3>1. o \in DOMAIN u.segs  BY Zenon, <1>3, <1>6, <2>2 DEF Grown
    <3>2. u.base = o /\ Ancestors(end, o) = Ancestors(u.segs, o)  BY Zenon, <1>1, <1>6, <3>1 DEF Grown
    <3> QED  BY Zenon, <1>8, <2>2, <3>2
  <2> QED  BY Zenon, <2>1, <2>2
<1>10. ASSUME u.key # None
       PROVE  /\ u.key \in HistoryKey /\ u.key[1] = x.workspace
              /\ u.base \in DOMAIN end /\ Mine(e, x, u.base) /\ u.base \in Ancestors(end, m)
              /\ Shows(materializeItemsOf(end, u.base), Contributions(u.key[2]))
  <2>1. u.key \in HistoryKey /\ u.key[1] = x.workspace /\ u.base \in DOMAIN u.segs /\ Shows(kept, Contributions(u.key[2]))
    BY Zenon, <1>1, <1>10
  <2>2. u.base \in DOMAIN end /\ materializeItemsOf(end, u.base) = kept  BY Zenon, <1>6, <2>1 DEF Grown, kept
  <2>3. u.base \in Ancestors(u.segs, u.base)
    <3>1. Solved(u.segs) /\ Nil \notin DOMAIN u.segs  BY Zenon, <1>5 DEF Forest
    <3>2. Ancestors(u.segs, u.base) = {u.base} \cup Ancestors(u.segs, u.segs[u.base].parent)
      BY <2>1, <3>1, AncestorsEquation
    <3> QED  BY Zenon, <3>2
  <2> QED  BY Zenon, <1>6, <1>8, <2>1, <2>2, <2>3
<1>11. Committed(e, x, u, n, after, i)
  BY Zenon, <1>1, <1>6, <1>7, <1>9, <1>10 DEF Committed, n, m, o, end
<1>12. Committed(e, x, u, asked.tail, after, i)  BY Zenon, <1>6, <1>11
<1> QED  BY Zenon, <1>12 DEF asked, after, rest, n, m

=============================================================================
