----------------------- MODULE ContinuityContentProofs -----------------------
(***************************************************************************)
(* What the checkpoints of the store hold, for any exchanges, workspaces,  *)
(* contributions, capacity and lifetimes: segments form a forest that only *)
(* grows, so a checkpoint's content never changes, is what was committed,  *)
(* is described by its history key and stays within its workspace.         *)
(***************************************************************************)
EXTENDS ContinuityContent

USE SMTT(20), Zenon

(* The store Put inserts into: reclaimed, and without the oldest record    *)
(* when it is full.                                                        *)
LEMMA StoreBefore ==
    ASSUME CInv, NEW live,
           LET st == reclaimExpired(Store, segments)
           IN  live = st \/ \E o \in Oldest(st) : live = evictOldest(st, segments, o)
    PROVE  /\ DOMAIN live.records \subseteq DOMAIN records
           /\ \A d \in DOMAIN live.records : live.records[d] = records[d]
           /\ Swept(segments, live.records, visibleHistory, live.visibleHistory)
<1> DEFINE st == reclaimExpired(Store, segments)
<1>1. IInv  BY DEF CInv
<1>2. /\ Sound(st.records, st.byHistory, st.expires)
      /\ st = StoreOf(st.records, st.byHistory, st.visibleHistory, st.expires)
      /\ DOMAIN st.records = {e \in DOMAIN records : records[e].expiresAt > now}
      /\ \A e \in DOMAIN st.records : st.records[e] = records[e]
  BY Zenon, <1>1, Reclaimed
<1>3. Swept(segments, st.records, visibleHistory, st.visibleHistory)  BY Zenon, ReclaimedVisible
<1>4. live = st \/ \E o \in Oldest(st) : live = evictOldest(st, segments, o)  BY Zenon
<1> HIDE DEF st
<1>5. CASE live = st  BY Zenon, <1>2, <1>3, <1>5
<1>6. ASSUME NEW o \in Oldest(st), live = evictOldest(st, segments, o)
      PROVE  /\ DOMAIN live.records \subseteq DOMAIN records
             /\ \A d \in DOMAIN live.records : live.records[d] = records[d]
             /\ Swept(segments, live.records, visibleHistory, live.visibleHistory)
  <2> DEFINE whole == StoreOf(st.records, st.byHistory, st.visibleHistory, st.expires)
  <2>1. o \in st.expires  BY Zenon DEF Oldest
  <2>2. live = evictOldest(whole, segments, o)  BY Zenon, <1>2, <1>6
  <2>3. Left(live, st.records, o.id)
    <3>1. Left(evictOldest(whole, segments, o), st.records, o.id)  BY Zenon, <1>2, <2>1, EvictKeeps
    <3> QED  BY Zenon, <2>2, <3>1
  <2>4. PICK rr, bb, w, xx : /\ live = StoreOf(rr, bb, w, xx)
                             /\ DOMAIN rr = DOMAIN st.records \ {o.id}
                             /\ \A d \in DOMAIN rr : rr[d] = st.records[d]
    BY <2>3 DEF Left
  <2>5. live.records = rr  BY Zenon, <2>4 DEF StoreOf
  <2>6. Indexed(st.records, st.byHistory)  BY Zenon, <1>2 DEF Sound
  <2>7. Swept(segments, live.records, st.visibleHistory, live.visibleHistory)  BY Zenon, <2>2, <2>6, EvictVisible
  <2>8. Swept(segments, live.records, visibleHistory, live.visibleHistory)  BY Zenon, <1>3, <2>7 DEF Swept
  <2> QED  BY Zenon, <1>2, <2>4, <2>5, <2>8
<1> QED  BY Zenon, <1>4, <1>5, <1>6

(* What Put does, over the store it inserts into.                          *)
LEMMA PutUnfolds ==
    ASSUME NEW e, NEW a, NEW known, Put(e, a, known)
    PROVE  LET x == exchange[e]
               st == reclaimExpired(Store, segments)
               u == resolveStorageReuse(st, e, x)
               asked == appendSegment(u.segs, <<e, "request">>, u.base,
                                      SubSeq(x.retained, u.prefix + 1, Len(x.retained)))
               after == appendSegment(asked.segs, <<e, "after">>, asked.tail, <<Item(a, "whole")>>)
               rec == [workspace |-> x.workspace, history |-> Advance(x, a, known), requestTail |-> asked.tail,
                       after |-> after.tail, response |-> <<Item(a, "whole")>>, expiresAt |-> x.expiresAt]
           IN  /\ x.at = "prepared" /\ now' = now /\ segments' = after.segs
               /\ exchange' = [exchange EXCEPT ![e] = [x EXCEPT !.at = "done", !.committed = x.retained]]
               /\ \E live : /\ live = st \/ \E o \in Oldest(st) : live = evictOldest(st, segments, o)
                            /\ Install(Insert(live, e, x, rec, u))
<1> DEFINE x == exchange[e]
           st == reclaimExpired(Store, segments)
           u == resolveStorageReuse(st, e, x)
           asked == appendSegment(u.segs, <<e, "request">>, u.base, SubSeq(x.retained, u.prefix + 1, Len(x.retained)))
           after == appendSegment(asked.segs, <<e, "after">>, asked.tail, <<Item(a, "whole")>>)
           rec == [workspace |-> x.workspace, history |-> Advance(x, a, known), requestTail |-> asked.tail,
                   after |-> after.tail, response |-> <<Item(a, "whole")>>, expiresAt |-> x.expiresAt]
<1>1. /\ x.at = "prepared" /\ now' = now /\ segments' = after.segs
      /\ IF Full(st) THEN \E o \in Oldest(st) : Install(Insert(evictOldest(st, segments, o), e, x, rec, u))
         ELSE Install(Insert(st, e, x, rec, u))
  BY Zenon DEF Put
<1>2. exchange' = [exchange EXCEPT ![e] = [x EXCEPT !.at = "done", !.committed = x.retained]]  BY Zenon DEF Put
<1> HIDE DEF st, u, asked, after, rec
<1>3. \E live : /\ live = st \/ \E o \in Oldest(st) : live = evictOldest(st, segments, o)
                /\ Install(Insert(live, e, x, rec, u))
  BY Zenon, <1>1
<1> QED  BY Zenon, <1>1, <1>2, <1>3 DEF st, u, asked, after, rec

LEMMA PutContent ==
    ASSUME CInv, NEW e \in Exchange, NEW a \in Response, NEW known, Put(e, a, known)
    PROVE  /\ Content'
           /\ \E own : Grown(segments, segments', own)
           /\ \A d \in DOMAIN records' : d = e \/ (d \in DOMAIN records /\ records'[d] = records[d])
<1> DEFINE x == exchange[e]
           st == reclaimExpired(Store, segments)
           u == resolveStorageReuse(st, e, x)
           asked == appendSegment(u.segs, <<e, "request">>, u.base, SubSeq(x.retained, u.prefix + 1, Len(x.retained)))
           i == Item(a, "whole")
           after == appendSegment(asked.segs, <<e, "after">>, asked.tail, <<i>>)
           rec == [workspace |-> x.workspace, history |-> Advance(x, a, known), requestTail |-> asked.tail,
                   after |-> after.tail, response |-> <<i>>, expiresAt |-> x.expiresAt]
           val == [x EXCEPT !.at = "done", !.committed = x.retained]
           end == after.segs
           own == {<<e, "base">>, <<e, "request">>, <<e, "after">>}
<1>1. /\ x.at = "prepared" /\ now' = now /\ segments' = end /\ exchange' = [exchange EXCEPT ![e] = val]
      /\ \E live : /\ live = st \/ \E o \in Oldest(st) : live = evictOldest(st, segments, o)
                   /\ Install(Insert(live, e, x, rec, u))
  BY Zenon, PutUnfolds
<1>2. PICK live : /\ live = st \/ \E o \in Oldest(st) : live = evictOldest(st, segments, o)
                  /\ Install(Insert(live, e, x, rec, u))
  BY Zenon, <1>1
<1>3. /\ DOMAIN live.records \subseteq DOMAIN records
      /\ \A d \in DOMAIN live.records : live.records[d] = records[d]
      /\ Swept(segments, live.records, visibleHistory, live.visibleHistory)
  BY Zenon, <1>2, StoreBefore
<1>4. a \in Contribution /\ i \in Items
  <2>1. a \in Contribution  BY DEF Contribution
  <2> QED  BY Zenon, <2>1, ItemType
<1>5. /\ Partitioned(segments, exchange) /\ Forest(segments) /\ DOMAIN segments \subseteq SegmentName
      /\ now \in 0..MaxTime
      /\ \A d \in DOMAIN records : Stored(segments, exchange, d, records[d])
      /\ \A k \in DOMAIN visibleHistory : Represents(segments, exchange, k, visibleHistory[k])
      /\ \A d \in Exchange : Running(segments, exchange, exchange[d])
  BY Zenon DEF CInv, Content, Partitioned
<1>6. /\ DOMAIN exchange = Exchange /\ \A d \in DOMAIN records : d \in Exchange /\ exchange[d].at = "done"
  BY Zenon DEF CInv, IInv, Started
<1>7. x.at # "done" /\ x.retained \in Seq(Items) /\ DOMAIN x = DOMAIN Idle /\ Composed(segments, exchange, x)
  BY Zenon, <1>1, <1>5 DEF Running
<1>8. Swept(segments, st.records, visibleHistory, st.visibleHistory)  BY Zenon, ReclaimedVisible
<1>9. Resolved(e, x, u)
  <2> HIDE DEF st
  <2> QED  BY Zenon, <1>1, <1>8, ReuseResolved
<1>10. Committed(e, x, u, asked.tail, after, i)
  <2> HIDE DEF u, i, st
  <2> QED  BY <1>4, <1>7, <1>9, CommitGrows
<1>11. /\ rec.workspace = x.workspace /\ rec.history = Advance(x, a, known) /\ rec.requestTail = asked.tail
       /\ rec.after = after.tail /\ rec.response = <<i>> /\ rec.expiresAt = x.expiresAt
  <2> HIDE DEF x, asked, after, i
  <2> QED  BY Zenon
<1>12. /\ val.at = "done" /\ val.workspace = x.workspace /\ val.retained = x.retained /\ val.reuse = x.reuse
       /\ val.committed = x.retained /\ DOMAIN val = DOMAIN Idle
  <2> HIDE DEF x
  <2> QED  BY Zenon, <1>7 DEF Idle
<1> HIDE DEF val, rec, st, u, asked, after, i
<1>13. exchange'[e] = val /\ \A d \in Exchange : d # e => exchange'[d] = exchange[d]  BY Zenon, <1>1, <1>6
<1>14. Finished(exchange, exchange')  BY <1>7, <1>13 DEF Finished
<1>15. /\ Grown(segments, end, own)
       /\ rec.requestTail = <<e, "request">> /\ rec.after = <<e, "after">>
       /\ rec.requestTail \in DOMAIN end /\ rec.after \in DOMAIN end
       /\ x.reuse.kind # "history" => materializeItemsOf(end, rec.requestTail) = x.retained
       /\ Seen(materializeItemsOf(end, rec.requestTail)) = Seen(x.retained)
       /\ Private(materializeItemsOf(end, rec.requestTail)) = Private(x.retained)
       /\ materializeItemsOf(end, rec.after) = materializeItemsOf(end, rec.requestTail) \o <<i>>
       /\ \A s \in own \cap DOMAIN end : \A b \in Ancestors(end, s) : Mine(e, x, b)
       /\ u.key # None =>
             /\ u.key \in HistoryKey /\ u.key[1] = x.workspace
             /\ u.base \in DOMAIN end /\ Mine(e, x, u.base) /\ u.base \in Ancestors(end, rec.after)
             /\ Shows(materializeItemsOf(end, u.base), Contributions(u.key[2]))
  BY Zenon, <1>10, <1>11 DEF Committed
<1>16. \A b : Mine(e, x, b) => exchange'[b[1]].workspace = x.workspace
  <2> SUFFICES ASSUME NEW b, Mine(e, x, b) PROVE exchange'[b[1]].workspace = x.workspace  BY Zenon
  <2>1. CASE b[1] = e  BY Zenon, <1>12, <1>13, <2>1
  <2>2. CASE b \in DOMAIN segments /\ exchange[b[1]].workspace = x.workspace
    <3>1. exchange'[b[1]] = exchange[b[1]]  BY <1>5, <1>14, <2>2, OwnersStay
    <3> QED  BY Zenon, <2>2, <3>1
  <2> QED  BY Zenon, <2>1, <2>2 DEF Mine
<1>17. \A s \in own : s[1] = e /\ s \in SegmentName  BY DEF SegmentName
<1> HIDE DEF own, end, x
<1>18. Partitioned(end, exchange')
  <2>1. /\ Forest(end) /\ DOMAIN segments \subseteq DOMAIN end /\ DOMAIN end \subseteq DOMAIN segments \cup own
        /\ \A s \in DOMAIN segments : Ancestors(end, s) = Ancestors(segments, s)
    BY Zenon, <1>15 DEF Grown
  <2>2. DOMAIN end \subseteq SegmentName  BY Zenon, <1>5, <1>17, <2>1
  <2>3. Partitioned(segments, exchange')  BY Zenon, <1>5, <1>14, PartitionStays
  <2>4. ASSUME NEW s \in DOMAIN end
        PROVE  /\ exchange'[s[1]].at = "done"
               /\ \A b \in Ancestors(end, s) : exchange'[b[1]].workspace = exchange'[s[1]].workspace
    <3>1. CASE s \in DOMAIN segments  BY Zenon, <2>1, <2>3, <3>1 DEF Partitioned
    <3>2. CASE s \in own
      <4>1. s[1] = e /\ \A b \in Ancestors(end, s) : Mine(e, x, b)  BY Zenon, <1>15, <1>17, <3>2
      <4> QED  BY Zenon, <1>12, <1>13, <1>16, <4>1
    <3> QED  BY Zenon, <2>1, <3>1, <3>2
  <2> QED  BY Zenon, <2>1, <2>2, <2>4 DEF Partitioned
<1>19. Stored(end, exchange', e, rec)
  <2>1. x.workspace \in Workspace /\ x.expiresAt \in TTL..(MaxTime + TTL)  BY Zenon, <1>1, <1>7 DEF Composed
  <2>2. rec.history \in Seq(Turn) /\ (rec.history # Nil => Append(Seen(x.retained), a) = Contributions(rec.history))
    <3>1. LET h == Advance(x, a, known)
          IN  h \in Seq(Turn) /\ (h # Nil => Append(Seen(x.retained), a) = Contributions(h))
      BY <1>7, AdvanceShows
    <3> QED  BY Zenon, <1>11, <3>1
  <2>3. <<i>> \in Seq(Items)  BY <1>4
  <2>4. rec.after[1] = e  BY <1>15
  <2>5. materializeItemsOf(end, rec.requestTail) \in Seq(Items)  BY Zenon, <1>15 DEF Grown, Forest
  <2> DEFINE got == materializeItemsOf(end, rec.requestTail)
  <2>6. Seen(got \o <<i>>) = Append(Seen(got), a)
    <3> HIDE DEF got
    <3>1. got \in Seq(Items)  BY Zenon, <2>5 DEF got
    <3>2. got \o <<i>> = Append(got, i)  BY <1>4, <3>1, AppendIsConcat
    <3>3. Seen(Append(got, Item(a, "whole"))) = Append(Seen(got), a)  BY Zenon, <1>4, <3>1, ItemShows
    <3> QED  BY Zenon, <3>2, <3>3 DEF i
  <2>7. rec.history # Nil => Seen(materializeItemsOf(end, rec.after)) = Contributions(rec.history)
    BY Zenon, <1>15, <2>2, <2>6
  <2> QED  BY Zenon, <1>11, <1>12, <1>13, <1>15, <2>1, <2>2, <2>3, <2>4, <2>7 DEF Stored
<1>20. /\ records' = With(live.records, e, rec)
       /\ visibleHistory' = IF u.key = None THEN live.visibleHistory ELSE With(live.visibleHistory, u.key, u.base)
  <2>1. /\ Insert(live, e, x, rec, u).records = With(live.records, e, rec)
        /\ Insert(live, e, x, rec, u).visibleHistory
              = IF u.key = None THEN live.visibleHistory ELSE With(live.visibleHistory, u.key, u.base)
    BY Zenon DEF Insert
  <2> QED  BY Zenon, <1>2, <2>1 DEF Install
<1>21. /\ DOMAIN records' = DOMAIN live.records \cup {e} /\ records'[e] = rec
       /\ \A d \in DOMAIN live.records : d # e => records'[d] = live.records[d]
  BY Zenon, <1>20 DEF With
<1>22. e \notin DOMAIN records  BY Zenon, <1>6, <1>7 DEF x
<1>23. \A d \in DOMAIN live.records : records'[d] = records[d] /\ d \in DOMAIN records /\ d \in DOMAIN records'
  BY Zenon, <1>3, <1>21, <1>22
<1>24. ASSUME NEW d \in DOMAIN records' PROVE Stored(end, exchange', d, records'[d])
  <2>1. CASE d = e  BY Zenon, <1>19, <1>21, <2>1
  <2>2. CASE d \in DOMAIN live.records
    <3>1. d \in Exchange /\ exchange[d].at = "done" /\ Stored(segments, exchange, d, records'[d])
      BY Zenon, <1>5, <1>6, <1>23, <2>2
    <3> QED  BY <1>14, <1>15, <3>1, StoredStays
  <2> QED  BY Zenon, <1>21, <2>1, <2>2
<1>25. ASSUME NEW k \in DOMAIN live.visibleHistory
       PROVE  /\ Represents(end, exchange', k, live.visibleHistory[k])
              /\ Reached(end, records', live.visibleHistory[k])
  <2>1. /\ k \in DOMAIN visibleHistory /\ live.visibleHistory[k] = visibleHistory[k]
        /\ Reached(segments, live.records, live.visibleHistory[k])
    BY Zenon, <1>3 DEF Swept
  <2>2. Represents(segments, exchange, k, live.visibleHistory[k])  BY Zenon, <1>5, <2>1
  <2>3. Represents(end, exchange', k, live.visibleHistory[k])  BY <1>5, <1>14, <1>15, <2>2, RepresentsStays
  <2>4. \A d \in DOMAIN live.records :
           d \in DOMAIN records' /\ records'[d] = live.records[d] /\ live.records[d].after \in DOMAIN segments
    BY Zenon, <1>3, <1>5, <1>23 DEF Stored
  <2>5. Reached(end, records', live.visibleHistory[k])  BY Zenon, <1>15, <2>1, <2>4, ReachedStays
  <2> QED  BY Zenon, <2>3, <2>5
<1>26. ASSUME NEW k \in DOMAIN visibleHistory'
       PROVE  Represents(end, exchange', k, visibleHistory'[k]) /\ Reached(end, records', visibleHistory'[k])
  <2>1. CASE u.key = None
    <3>1. visibleHistory' = live.visibleHistory  BY Zenon, <1>20, <2>1
    <3> QED  BY Zenon, <1>25, <3>1
  <2>2. CASE u.key # None
    <3>1. visibleHistory' = With(live.visibleHistory, u.key, u.base)  BY Zenon, <1>20, <2>2
    <3>2. /\ k \in DOMAIN live.visibleHistory \cup {u.key}
          /\ visibleHistory'[k] = IF k = u.key THEN u.base ELSE live.visibleHistory[k]
      BY Zenon, <3>1 DEF With
    <3>3. CASE k = u.key
      <4>1. Represents(end, exchange', u.key, u.base)  BY Zenon, <1>15, <1>16, <2>2 DEF Represents
      <4>2. Reached(end, records', u.base)  BY Zenon, <1>15, <1>21, <2>2 DEF Reached
      <4> QED  BY Zenon, <3>2, <3>3, <4>1, <4>2
    <3>4. CASE k # u.key  BY Zenon, <1>25, <3>2, <3>4
    <3> QED  BY Zenon, <3>3, <3>4
  <2> QED  BY Zenon, <2>1, <2>2
<1>27. ASSUME NEW d \in Exchange PROVE Running(end, exchange', exchange'[d])
  <2>1. CASE d = e
    <3>1. "done" \notin {"open", "prepared"}  BY Zenon
    <3> QED  BY Zenon, <1>7, <1>12, <1>13, <2>1, <3>1 DEF Running
  <2>2. CASE d # e
    <3>1. Running(segments, exchange, exchange'[d])  BY Zenon, <1>5, <1>13, <2>2
    <3> QED  BY <1>5, <1>14, <1>15, <3>1, RunningStays
  <2> QED  BY Zenon, <2>1, <2>2
<1>28. Content'
  <2>1. segments' = end /\ now' \in 0..MaxTime  BY Zenon, <1>1, <1>5
  <2> QED  BY Zenon, <1>18, <1>24, <1>26, <1>27, <2>1 DEF Content
<1>29. \E names : Grown(segments, segments', names)  BY Zenon, <1>1, <1>15
<1>30. \A d \in DOMAIN records' : d = e \/ (d \in DOMAIN records /\ records'[d] = records[d])
  BY Zenon, <1>21, <1>23
<1> QED  BY Zenon, <1>28, <1>29, <1>30

----------------------------------------------------------------------------
(* The invariant, and what it gives.                                       *)

LEMMA ContentStarts == Init => CInv
<1> SUFFICES ASSUME Init PROVE CInv  BY Zenon
<1>1. IInv  BY Zenon, StoreStarts
<1>2. /\ DOMAIN segments = {} /\ DOMAIN records = {} /\ DOMAIN visibleHistory = {}
      /\ now = 0 /\ exchange = [e \in Exchange |-> Idle]
  BY Zenon DEF Init
<1>3. now \in 0..MaxTime  BY <1>2, StoreAssumption
<1>4. Partitioned(segments, exchange)  BY Zenon, <1>2, EmptyForest DEF Partitioned
<1>5. Idle.at = "new" /\ Idle.retained = <<>>  BY Zenon DEF Idle
<1>6. <<>> \in Seq(Items) /\ "new" \notin {"open", "prepared"}  OBVIOUS
<1>7. \A e \in Exchange : Running(segments, exchange, exchange[e])  BY Zenon, <1>2, <1>5, <1>6 DEF Running
<1>8. Content  BY Zenon, <1>2, <1>3, <1>4, <1>7 DEF Content
<1> QED  BY Zenon, <1>1, <1>8 DEF CInv

LEMMA TickContent ==
    ASSUME CInv, Tick \/ UNCHANGED vars
    PROVE  Content' /\ segments' = segments /\ records' = records
<1>1. UNCHANGED <<segments, records, visibleHistory, exchange>>  BY Zenon DEF Tick, vars, store
<1>2. now' \in 0..MaxTime
  <2>1. now \in 0..MaxTime  BY Zenon DEF CInv, Content
  <2>2. CASE now' = now  BY Zenon, <2>1, <2>2
  <2>3. CASE now < MaxTime /\ now' = now + 1  BY <2>1, <2>3, StoreAssumption
  <2> QED  BY <2>2, <2>3 DEF Tick, vars
<1> QED  BY Zenon, <1>1, <1>2 DEF CInv, Content

LEMMA ContentNext ==
    ASSUME CInv, [Next]_vars
    PROVE  CInv'
<1>1. IInv'  BY Zenon, StoreNextKeeps DEF CInv
<1>2. Content'
  BY Zenon, TickContent, BeginContent, ExplicitContent, HistoryContent, PrepareContent, PutContent DEF Next
<1> QED  BY Zenon, <1>1, <1>2 DEF CInv

LEMMA ContentInvariance == Spec => []CInv
<1>1. CInv /\ [Next]_vars => CInv'  BY Zenon, ContentNext
<1> QED  BY ContentStarts, <1>1, PTL DEF Spec

LEMMA ContentTypes ==
    ASSUME CInv
    PROVE  TypeOK
<1>1. /\ now \in 0..MaxTime /\ Partitioned(segments, exchange)
      /\ \A e \in DOMAIN records : Stored(segments, exchange, e, records[e])
      /\ \A k \in DOMAIN visibleHistory : Represents(segments, exchange, k, visibleHistory[k])
      /\ \A e \in Exchange : Running(segments, exchange, exchange[e])
  BY Zenon DEF CInv, Content
<1>2. /\ DOMAIN exchange = Exchange /\ \A d \in DOMAIN records : d \in Exchange /\ exchange[d].at = "done"
      /\ Indexed(records, byHistory) /\ expires = Heap(records)
  BY Zenon DEF CInv, IInv, Started, Sound
<1>3. \A e \in DOMAIN records :
         /\ records[e].workspace \in Workspace /\ records[e].history \in Seq(Turn)
         /\ {records[e].requestTail, records[e].after} \subseteq DOMAIN segments
         /\ records[e].expiresAt \in TTL..(MaxTime + TTL)
  BY Zenon, <1>1 DEF Stored
<1>4. \A e \in DOMAIN records : <<records[e].workspace, records[e].history>> \in HistoryKey
  BY Zenon, <1>3 DEF HistoryKey
<1>5. ASSUME NEW k \in DOMAIN byHistory PROVE k \in HistoryKey /\ byHistory[k] \subseteq Exchange
  <2>1. byHistory[k] = Carry(records, k) /\ byHistory[k] # {}  BY Zenon, <1>2 DEF Indexed
  <2>2. PICK e : e \in Carry(records, k)  BY Zenon, <2>1
  <2>3. e \in DOMAIN records /\ <<records[e].workspace, records[e].history>> = k  BY Zenon, <2>2 DEF Carry
  <2>4. k \in HistoryKey  BY Zenon, <1>4, <2>3
  <2>5. byHistory[k] \subseteq Exchange  BY Zenon, <1>2, <2>1 DEF Carry
  <2> QED  BY Zenon, <2>4, <2>5
<1>6. expires \subseteq [id : Exchange, at : TTL..(MaxTime + TTL)]
  BY <1>2, <1>3 DEF Heap
<1>7. /\ DOMAIN segments \subseteq SegmentName
      /\ \A s \in DOMAIN segments :
            segments[s].parent \in DOMAIN segments \cup {Nil} /\ segments[s].items \in Seq(Items)
  BY Zenon, <1>1 DEF Partitioned, Forest
<1>8. \A k \in DOMAIN visibleHistory : k \in HistoryKey /\ visibleHistory[k] \in DOMAIN segments
  BY Zenon, <1>1 DEF Represents
<1>9. \A e \in Exchange : /\ exchange[e].at \in {"new", "open", "prepared", "done", "failed"}
                          /\ exchange[e].retained \in Seq(Items)
  BY Zenon, <1>1 DEF Running
<1>10. DOMAIN records \subseteq {e \in Exchange : exchange[e].at = "done"}  BY Zenon, <1>2
<1> QED  BY Zenon, <1>1, <1>3, <1>4, <1>5, <1>6, <1>7, <1>8, <1>9, <1>10 DEF TypeOK

(* The segments after a step hold what those before it held, and a         *)
(* checkpoint that is there before and after it is the same checkpoint.    *)
Kept ==
    /\ \E own : Grown(segments, segments', own)
    /\ \A d \in DOMAIN records \cap DOMAIN records' : records'[d] = records[d]

LEMMA ReclaimedSame ==
    ASSUME CInv, Install(reclaimExpired(Store, segments))
    PROVE  \A d \in DOMAIN records \cap DOMAIN records' : records'[d] = records[d]
<1> DEFINE st == reclaimExpired(Store, segments)
<1>1. records' = st.records  BY Zenon DEF Install
<1>2. \A d \in DOMAIN st.records : st.records[d] = records[d]  BY StoreBefore
<1> HIDE DEF st
<1> QED  BY Zenon, <1>1, <1>2

(* No step of any exchange, expiry or eviction included, changes a segment *)
(* or a checkpoint that stays.                                             *)
LEMMA StepKeeps ==
    ASSUME CInv, [Next]_vars
    PROVE  Kept
<1>1. Forest(segments)  BY Zenon DEF CInv, Content, Partitioned
<1>2. ASSUME segments' = segments PROVE \E own : Grown(segments, segments', own)
  BY Zenon, <1>1, <1>2, GrownSelf
<1>3. CASE Tick \/ UNCHANGED vars  BY Zenon, <1>2, <1>3, TickContent DEF Kept
<1>4. ASSUME NEW e \in Exchange, NEW ws \in Workspace, NEW q \in Request, Begin(e, ws, q) PROVE Kept
  BY Zenon, <1>2, <1>4 DEF Begin, store, Kept
<1>5. ASSUME NEW e \in Exchange, NEW ws, NEW q, NEW id, NEW same, ResumeExplicit(e, ws, q, id, same) PROVE Kept
  BY Zenon, <1>2, <1>5, ReclaimedSame DEF ResumeExplicit, Kept
<1>6. ASSUME NEW e \in Exchange, NEW ws, NEW q, NEW h, NEW split, ResumeByHistory(e, ws, q, h, split) PROVE Kept
  BY Zenon, <1>2, <1>6, ReclaimedSame DEF ResumeByHistory, Kept
<1>7. ASSUME NEW e \in Exchange, NEW round, prepareRecord(e, round) PROVE Kept
  BY Zenon, <1>2, <1>7 DEF prepareRecord, store, Kept
<1>8. ASSUME NEW e \in Exchange, NEW a \in Response, NEW known, Put(e, a, known) PROVE Kept
  <2>1. exchange[e].at = "prepared"  BY Zenon, <1>8 DEF Put
  <2>2. e \notin DOMAIN records
    <3>1. e \in DOMAIN records => exchange[e].at = "done"  BY Zenon DEF CInv, IInv, Started
    <3> QED  BY <2>1, <3>1
  <2> QED  BY Zenon, <1>8, <2>2, PutContent DEF Kept
<1> QED  BY Zenon, <1>3, <1>4, <1>5, <1>6, <1>7, <1>8 DEF Next

(* For any exchanges, workspaces, contributions, capacity and lifetime,    *)
(* whatever Put, Get, expiry and eviction do: the store's maps have their  *)
(* types and name allocated segments only, the history index and the       *)
(* expiry heap are exact, the capacity holds, every tail of the visible-   *)
(* history index is reachable from a live checkpoint (what                 *)
(* sweepVisibleHistory is for), and no checkpoint is built on a segment    *)
(* that an exchange of another workspace committed.                        *)
THEOREM StoreCorrect == Spec => []StoreInv
<1>1. CInv => VisibleIndexNonOwning /\ WorkspacesShareNothing
  <2> SUFFICES ASSUME CInv PROVE VisibleIndexNonOwning /\ WorkspacesShareNothing  BY Zenon
  <2>1. VisibleIndexNonOwning  BY Zenon DEF CInv, Content, Reached, VisibleIndexNonOwning
  <2>2. ASSUME NEW e \in DOMAIN records, NEW s \in Ancestors(segments, records[e].after)
        PROVE  exchange[s[1]].workspace = records[e].workspace
    <3>1. Stored(segments, exchange, e, records[e]) /\ Partitioned(segments, exchange)
      BY Zenon DEF CInv, Content
    <3>2. /\ records[e].after \in DOMAIN segments /\ records[e].after[1] = e
          /\ records[e].workspace = exchange[e].workspace
      BY Zenon, <3>1 DEF Stored
    <3>3. exchange[s[1]].workspace = exchange[records[e].after[1]].workspace
      BY Zenon, <3>1, <3>2 DEF Partitioned
    <3> QED  BY Zenon, <3>2, <3>3
  <2> QED  BY Zenon, <2>1, <2>2 DEF WorkspacesShareNothing
<1>2. HistoryIndexExact /\ ExpiryCoversRecords /\ CapacityBounded /\ CInv => StoreInv
  BY Zenon, <1>1, ContentTypes DEF StoreInv
<1> QED  BY <1>2, IndexesExact, ContentInvariance, PTL

(* What Get materialises of a checkpoint, through every chain of explicit  *)
(* and implicit resumption and whoever shares its segments, is what Put    *)
(* committed: exactly, when the prefix came from a selected checkpoint,    *)
(* and visibly, with the private items of its own exchange only, when the  *)
(* client resent it; and its history key is that of the turns it shows.    *)
THEOREM ContentIsCommitted == Spec => []CheckpointFaithful
<1>1. CInv => CheckpointFaithful
  <2> SUFFICES ASSUME CInv PROVE CheckpointFaithful  BY Zenon
  <2>1. \A e \in DOMAIN records : Stored(segments, exchange, e, records[e])  BY Zenon DEF CInv, Content
  <2>2. StoredAsCommitted  BY Zenon, <2>1 DEF Stored, StoredAsCommitted, materializeItems
  <2>3. HistoryDescribesContent  BY Zenon, <2>1 DEF Stored, HistoryDescribesContent, materializeItems
  <2> QED  BY Zenon, <2>2, <2>3 DEF CheckpointFaithful
<1> QED  BY <1>1, ContentInvariance, PTL

(* A stored checkpoint leaves only when it has expired or is the one a     *)
(* full store must evict, and as long as it is stored what it materialises *)
(* to never changes: appendSegment allocates beside the segments that      *)
(* other checkpoints share and writes to none of them.                     *)
THEOREM CheckpointsImmutable == Spec => LeavesOnlyWhenDue
<1> DEFINE Same == \A e \in DOMAIN records \cap DOMAIN records' :
                      materializeItems(records[e].after)' = materializeItems(records[e].after)
<1>1. CInv /\ [Next]_vars => [Same]_vars
  <2> SUFFICES ASSUME CInv, [Next]_vars PROVE Same  BY Zenon
  <2>1. Kept  BY Zenon, StepKeeps
  <2>2. PICK own : Grown(segments, segments', own)  BY Zenon, <2>1 DEF Kept
  <2>3. ASSUME NEW e \in DOMAIN records \cap DOMAIN records'
        PROVE  materializeItems(records[e].after)' = materializeItems(records[e].after)
    <3>1. records'[e] = records[e]  BY Zenon, <2>1 DEF Kept
    <3>2. Stored(segments, exchange, e, records[e])  BY Zenon DEF CInv, Content
    <3>3. records[e].after \in DOMAIN segments  BY Zenon, <3>2 DEF Stored
    <3>4. materializeItemsOf(segments', records[e].after) = materializeItemsOf(segments, records[e].after)
      BY Zenon, <2>2, <3>3 DEF Grown
    <3> QED  BY Zenon, <3>1, <3>4 DEF materializeItems
  <2> QED  BY Zenon, <2>3
<1>2. Spec => ContentImmutable  BY <1>1, ContentInvariance, PTL DEF Spec, ContentImmutable
<1> QED  BY <1>2, CheckpointsLeaveWhenDue, PTL DEF LeavesOnlyWhenDue

=============================================================================
