------------------------ MODULE ContinuityStoreProofs ------------------------
(***************************************************************************)
(* What the checkpoint store's indexes promise, for any exchanges,         *)
(* workspaces, contributions, capacity and lifetimes: the history index    *)
(* and the expiration heap describe the live checkpoints exactly, the      *)
(* store stays within its capacity, and an exchange resumes only what may  *)
(* be resumed.                                                             *)
(*                                                                         *)
(* The store functions return whole stores, so the facts are stated of a   *)
(* store's maps and kept by every function first.                          *)
(*                                                                         *)
(* The second part is about the content of segments: what appending one    *)
(* does to the ancestors and the content of every other, and what retained *)
(* items show.  materializeItems, Ancestors and Shown are recursive        *)
(* functions; that their equations have exactly one solution is carried    *)
(* along with the segments, each appended over a parent that exists.       *)
(***************************************************************************)
EXTENDS ContinuityStore, FiniteSetTheorems, SequenceTheorems, TLAPS

(* The checkpoints among r that carry the history key k.                   *)
Carry(r, k) == {e \in DOMAIN r : r[e].history # Nil /\ <<r[e].workspace, r[e].history>> = k}

(* b is the history index of the checkpoints r, and x their heap.          *)
Indexed(r, b) ==
    /\ \A k \in DOMAIN b : b[k] = Carry(r, k) /\ b[k] # {}
    /\ \A e \in DOMAIN r : r[e].history # Nil => <<r[e].workspace, r[e].history>> \in DOMAIN b

Heap(r) == {[id |-> e, at |-> r[e].expiresAt] : e \in DOMAIN r}

Sound(r, b, x) ==
    /\ Indexed(r, b) /\ x = Heap(r)
    /\ IsFiniteSet(DOMAIN r) /\ Cardinality(DOMAIN r) <= MaxRecords

(* An exchange that has not begun has selected nothing, and the store      *)
(* holds checkpoints of finished exchanges only.                           *)
Started ==
    /\ DOMAIN exchange = Exchange
    /\ \A e \in Exchange :
          /\ {"at", "expiresAt"} \subseteq DOMAIN exchange[e] /\ exchange[e].expiresAt \in Nat
          /\ exchange[e].at = "new" => exchange[e] = Idle
    /\ \A e \in DOMAIN records : e \in Exchange /\ exchange[e].at = "done"

Clocked == now \in Nat /\ \A e \in DOMAIN records : records[e].expiresAt \in Nat

IInv == Sound(records, byHistory, expires) /\ Started /\ Clocked

(* The checkpoints among r that have not expired.                          *)
Unexpired(r) == {e \in DOMAIN r : ~(r[e].expiresAt <= now)}

StoreOf(r, b, v, x) == [records |-> r, byHistory |-> b, visibleHistory |-> v, expires |-> x]

(* st is a sound store of the checkpoints r and one more, e; or of those   *)
(* but e, with room for one.                                               *)
Joined(st, r, e) ==
    \E rr, bb, w, xx :
       /\ st = StoreOf(rr, bb, w, xx) /\ Sound(rr, bb, xx)
       /\ DOMAIN rr = DOMAIN r \cup {e}
       /\ \A d \in DOMAIN r : rr[d] = r[d]

Left(st, r, e) ==
    \E rr, bb, w, xx :
       /\ st = StoreOf(rr, bb, w, xx) /\ Sound(rr, bb, xx)
       /\ Cardinality(DOMAIN rr) < MaxRecords
       /\ DOMAIN rr = DOMAIN r \ {e}
       /\ \A d \in DOMAIN rr : rr[d] = r[d]

----------------------------------------------------------------------------
(* The store functions.                                                    *)

LEMMA SweepKeeps ==
    ASSUME NEW r, NEW b, NEW v, NEW x, NEW segs
    PROVE  \E w : sweepVisibleHistory(StoreOf(r, b, v, x), segs) = StoreOf(r, b, w, x)
<1> DEFINE st == StoreOf(r, b, v, x)
           reachable == UNION {Ancestors(segs, st.records[e].after) : e \in DOMAIN st.records}
           orphan == {k \in DOMAIN st.visibleHistory : st.visibleHistory[k] \notin reachable}
           w == Without(st.visibleHistory, orphan)
<1>1. sweepVisibleHistory(st, segs) = [st EXCEPT !.visibleHistory = w]
  BY Zenon DEF sweepVisibleHistory
<1> HIDE DEF w
<1>2. [st EXCEPT !.visibleHistory = w] = StoreOf(r, b, w, x)  BY DEF StoreOf
<1> QED  BY Zenon, <1>1, <1>2

(* Removing checkpoints removes them from the index.                       *)
LEMMA DeleteKeeps ==
    ASSUME NEW r, NEW b, NEW v, NEW x, NEW ids, Indexed(r, b)
    PROVE  \E rr, bb :
              /\ deleteRecords(StoreOf(r, b, v, x), ids) = StoreOf(rr, bb, v, x)
              /\ rr = Without(r, ids) /\ Indexed(rr, bb)
<1> DEFINE st == StoreOf(r, b, v, x)
           rr == Without(r, ids)
           bb == [k \in {j \in DOMAIN b : b[j] \ ids # {}} |-> b[k] \ ids]
<1>1. deleteRecords(st, ids) = StoreOf(rr, bb, v, x)
  <2>1. st.records = r /\ st.byHistory = b  BY Zenon DEF StoreOf
  <2>2. deleteRecords(st, ids) = [st EXCEPT !.records = rr, !.byHistory = bb]
    BY Zenon, <2>1 DEF deleteRecords
  <2> HIDE DEF rr, bb
  <2>3. [st EXCEPT !.records = rr] = StoreOf(rr, b, v, x)  BY DEF StoreOf
  <2>4. [StoreOf(rr, b, v, x) EXCEPT !.byHistory = bb] = StoreOf(rr, bb, v, x)  BY DEF StoreOf
  <2>5. [st EXCEPT !.records = rr, !.byHistory = bb] = [[st EXCEPT !.records = rr] EXCEPT !.byHistory = bb]
    BY Zenon DEF StoreOf
  <2> QED  BY Zenon, <2>2, <2>3, <2>4, <2>5
<1>2. DOMAIN rr = DOMAIN r \ ids /\ \A e \in DOMAIN rr : rr[e] = r[e]  BY Zenon DEF Without
<1>3. \A k \in DOMAIN bb : bb[k] = Carry(rr, k) /\ bb[k] # {}
  <2> SUFFICES ASSUME NEW k \in DOMAIN bb PROVE bb[k] = Carry(rr, k) /\ bb[k] # {}  BY Zenon
  <2>1. k \in DOMAIN b /\ bb[k] = b[k] \ ids /\ bb[k] # {}  BY Zenon
  <2>2. Carry(rr, k) = Carry(r, k) \ ids  BY Zenon, <1>2 DEF Carry
  <2> QED  BY Zenon, <2>1, <2>2 DEF Indexed
<1>4. ASSUME NEW e \in DOMAIN rr, rr[e].history # Nil
      PROVE  <<rr[e].workspace, rr[e].history>> \in DOMAIN bb
  <2> DEFINE k == <<r[e].workspace, r[e].history>>
  <2>1. e \in DOMAIN r /\ e \notin ids /\ r[e] = rr[e]  BY Zenon, <1>2
  <2>2. k \in DOMAIN b  BY Zenon, <1>4, <2>1 DEF Indexed
  <2>3. e \in Carry(r, k)  BY Zenon, <1>4, <2>1 DEF Carry
  <2> HIDE DEF k
  <2>4. k \in DOMAIN bb  BY Zenon, <2>1, <2>2, <2>3 DEF Indexed
  <2> QED  BY Zenon, <2>1, <2>4 DEF k
<1>5. Indexed(rr, bb)  BY Zenon, <1>3, <1>4 DEF Indexed
<1> QED  BY Zenon, <1>1, <1>5

(* reclaimExpired leaves exactly the checkpoints that have not expired.    *)
LEMMA ReclaimKeeps ==
    ASSUME NEW r, NEW b, NEW v, NEW x, NEW segs, Sound(r, b, x)
    PROVE  \E rr, bb, w, xx :
              /\ reclaimExpired(StoreOf(r, b, v, x), segs) = StoreOf(rr, bb, w, xx)
              /\ Sound(rr, bb, xx)
              /\ DOMAIN rr = Unexpired(r)
              /\ \A e \in DOMAIN rr : rr[e] = r[e]
<1> DEFINE due == {y \in x : y.at <= now}
           old == {e \in DOMAIN r : r[e].expiresAt <= now}
           dead == {y.id : y \in due} \cap old
<1>1. dead = old /\ (due = {} <=> old = {})
  <2>1. \A y \in x : \E e \in DOMAIN r : y = [id |-> e, at |-> r[e].expiresAt]
    BY Zenon DEF Sound, Heap
  <2>2. \A e \in DOMAIN r : [id |-> e, at |-> r[e].expiresAt] \in x  BY Zenon DEF Sound, Heap
  <2>3. \A y \in due : y.id \in old
    <3> SUFFICES ASSUME NEW y \in due PROVE y.id \in old  BY Zenon
    <3>1. PICK e \in DOMAIN r : y = [id |-> e, at |-> r[e].expiresAt]  BY Zenon, <2>1
    <3> QED  BY Zenon, <3>1
  <2>4. \A e \in old : \E y \in due : y.id = e
    <3> SUFFICES ASSUME NEW e \in old PROVE \E y \in due : y.id = e  BY Zenon
    <3> DEFINE y == [id |-> e, at |-> r[e].expiresAt]
    <3>1. y \in x /\ y.at = r[e].expiresAt /\ y.id = e  BY Zenon, <2>2
    <3>2. y \in due  BY Zenon, <3>1
    <3> QED  BY Zenon, <3>1, <3>2
  <2> QED  BY Zenon, <2>3, <2>4
<1>2. CASE due = {}
  <2>1. reclaimExpired(StoreOf(r, b, v, x), segs) = StoreOf(r, b, v, x)
    BY Zenon, <1>2 DEF reclaimExpired, StoreOf
  <2>2. DOMAIN r = Unexpired(r)  BY Zenon, <1>1, <1>2 DEF Unexpired
  <2> QED  BY Zenon, <2>1, <2>2
<1>3. CASE due # {}
  <2> DEFINE popped == [StoreOf(r, b, v, x) EXCEPT !.expires = @ \ due]
  <2>1. popped = StoreOf(r, b, v, x \ due)  BY DEF StoreOf
  <2>2. reclaimExpired(StoreOf(r, b, v, x), segs) = sweepVisibleHistory(deleteRecords(popped, dead), segs)
    BY Zenon, <1>1, <1>3 DEF reclaimExpired, StoreOf
  <2>3. Indexed(r, b)  BY Zenon DEF Sound
  <2> HIDE DEF popped, due, dead
  <2>4. PICK rr, bb : /\ deleteRecords(StoreOf(r, b, v, x \ due), dead) = StoreOf(rr, bb, v, x \ due)
                      /\ rr = Without(r, dead) /\ Indexed(rr, bb)
    BY <2>3, DeleteKeeps
  <2>5. PICK w : sweepVisibleHistory(StoreOf(rr, bb, v, x \ due), segs) = StoreOf(rr, bb, w, x \ due)
    BY SweepKeeps
  <2>6. /\ DOMAIN rr = Unexpired(r)
        /\ \A e \in DOMAIN rr : rr[e] = r[e]
    BY Zenon, <1>1, <2>4 DEF Without, Unexpired
  <2>7. x \ due = Heap(rr)
    <3>1. \A y : y \in Heap(rr) <=> \E e \in DOMAIN r : ~(r[e].expiresAt <= now) /\ y = [id |-> e, at |-> r[e].expiresAt]
      BY Zenon, <2>6 DEF Heap, Unexpired
    <3>2. \A y : y \in x <=> \E e \in DOMAIN r : y = [id |-> e, at |-> r[e].expiresAt]
      BY Zenon DEF Sound, Heap
    <3>3. \A y \in x : y \in x \ due <=> ~(y.at <= now)  BY Zenon DEF due
    <3>4. \A e : [id |-> e, at |-> r[e].expiresAt].at = r[e].expiresAt  BY Zenon
    <3> QED  BY Zenon, <3>1, <3>2, <3>3, <3>4
  <2>8. IsFiniteSet(DOMAIN rr) /\ Cardinality(DOMAIN rr) <= MaxRecords
    <3>1. DOMAIN rr \subseteq DOMAIN r /\ IsFiniteSet(DOMAIN r) /\ Cardinality(DOMAIN r) <= MaxRecords
      BY Zenon, <2>6 DEF Sound, Unexpired
    <3>2. /\ IsFiniteSet(DOMAIN rr) /\ Cardinality(DOMAIN rr) <= Cardinality(DOMAIN r)
          /\ Cardinality(DOMAIN rr) \in Nat /\ Cardinality(DOMAIN r) \in Nat
      BY Zenon, <3>1, FS_Subset, FS_CardinalityType
    <3> QED  BY <3>1, <3>2, StoreAssumption
  <2>9. Sound(rr, bb, x \ due)  BY Zenon, <2>4, <2>7, <2>8 DEF Sound
  <2>10. reclaimExpired(StoreOf(r, b, v, x), segs) = StoreOf(rr, bb, w, x \ due)
    BY Zenon, <2>1, <2>2, <2>4, <2>5
  <2> QED  BY Zenon, <2>6, <2>9, <2>10
<1> QED  BY Zenon, <1>2, <1>3

(* Evicting the checkpoint of a heap entry makes room for one.             *)
LEMMA EvictKeeps ==
    ASSUME NEW r, NEW b, NEW v, NEW x, NEW segs, Sound(r, b, x), NEW o \in x
    PROVE  /\ Left(evictOldest(StoreOf(r, b, v, x), segs, o), r, o.id)
           /\ o.id \in DOMAIN r /\ o.at = r[o.id].expiresAt
<1>1. o.id \in DOMAIN r /\ o = [id |-> o.id, at |-> r[o.id].expiresAt]
  <2>1. PICK e \in DOMAIN r : o = [id |-> e, at |-> r[e].expiresAt]  BY Zenon DEF Sound, Heap
  <2> QED  BY Zenon, <2>1
<1>2. [StoreOf(r, b, v, x) EXCEPT !.expires = @ \ {o}] = StoreOf(r, b, v, x \ {o})  BY DEF StoreOf
<1>3. Indexed(r, b)  BY Zenon DEF Sound
<1>4. PICK rr, bb : /\ deleteRecords(StoreOf(r, b, v, x \ {o}), {o.id}) = StoreOf(rr, bb, v, x \ {o})
                    /\ rr = Without(r, {o.id}) /\ Indexed(rr, bb)
  BY <1>3, DeleteKeeps
<1>5. PICK w : sweepVisibleHistory(StoreOf(rr, bb, v, x \ {o}), segs) = StoreOf(rr, bb, w, x \ {o})
  BY SweepKeeps
<1>6. evictOldest(StoreOf(r, b, v, x), segs, o) = StoreOf(rr, bb, w, x \ {o})
  BY Zenon, <1>2, <1>4, <1>5 DEF evictOldest
<1>7. DOMAIN rr = DOMAIN r \ {o.id} /\ \A e \in DOMAIN rr : rr[e] = r[e]  BY Zenon, <1>4 DEF Without
<1>8. x \ {o} = Heap(rr)
  <2>1. \A e \in DOMAIN r : [id |-> e, at |-> r[e].expiresAt].id = e  BY Zenon
  <2>2. \A y : y \in x <=> \E e \in DOMAIN r : y = [id |-> e, at |-> r[e].expiresAt]
    BY Zenon DEF Sound, Heap
  <2>3. \A y : y \in Heap(rr) <=> \E e \in DOMAIN r : e # o.id /\ y = [id |-> e, at |-> r[e].expiresAt]
    BY Zenon, <1>7 DEF Heap
  <2>4. ASSUME NEW y \in x \ {o} PROVE y \in Heap(rr)
    <3>1. PICK e \in DOMAIN r : y = [id |-> e, at |-> r[e].expiresAt]  BY Zenon, <2>2
    <3>2. e # o.id  BY Zenon, <1>1, <3>1
    <3> QED  BY Zenon, <2>3, <3>1, <3>2
  <2>5. ASSUME NEW y \in Heap(rr) PROVE y \in x \ {o}
    <3>1. PICK e \in DOMAIN r : e # o.id /\ y = [id |-> e, at |-> r[e].expiresAt]  BY Zenon, <2>3
    <3>2. y.id # o.id  BY Zenon, <3>1
    <3> QED  BY Zenon, <2>2, <3>1, <3>2
  <2> QED  BY Zenon, <2>4, <2>5
<1>9. /\ IsFiniteSet(DOMAIN rr) /\ Cardinality(DOMAIN rr) < MaxRecords
      /\ Cardinality(DOMAIN rr) <= MaxRecords
  <2>1. IsFiniteSet(DOMAIN r) /\ Cardinality(DOMAIN r) <= MaxRecords  BY Zenon DEF Sound
  <2>2. IsFiniteSet(DOMAIN r \ {o.id}) /\ Cardinality(DOMAIN r \ {o.id}) = Cardinality(DOMAIN r) - 1
    BY Zenon, <1>1, <2>1, FS_RemoveElement
  <2>3. Cardinality(DOMAIN r) \in Nat  BY Zenon, <2>1, FS_CardinalityType
  <2> QED  BY <1>7, <2>1, <2>2, <2>3, StoreAssumption
<1>10. Sound(rr, bb, x \ {o})  BY Zenon, <1>4, <1>8, <1>9 DEF Sound
<1> QED  BY <1>1, <1>6, <1>7, <1>9, <1>10 DEF Left

(* A fresh checkpoint joins the index, the heap and the records.           *)
LEMMA InsertKeeps ==
    ASSUME NEW r, NEW b, NEW v, NEW x, Sound(r, b, x), Cardinality(DOMAIN r) < MaxRecords,
           NEW e, e \notin DOMAIN r, NEW ex, NEW rec, rec.workspace = ex.workspace, NEW u
    PROVE  Joined(Insert(StoreOf(r, b, v, x), e, ex, rec, u), r, e)
<1> DEFINE st == StoreOf(r, b, v, x)
           key == <<ex.workspace, rec.history>>
           rr == With(r, e, rec)
           bb == IF rec.history = Nil THEN b ELSE With(b, key, Members(st, ex.workspace, rec.history) \cup {e})
           w == IF u.key = None THEN v ELSE With(v, u.key, u.base)
           xx == x \cup {[id |-> e, at |-> rec.expiresAt]}
<1>1. st.records = r /\ st.byHistory = b /\ st.visibleHistory = v /\ st.expires = x  BY Zenon DEF StoreOf
<1>2. Insert(st, e, ex, rec, u) = StoreOf(rr, bb, w, xx)  BY Zenon, <1>1 DEF Insert, StoreOf
<1>3. /\ DOMAIN rr = DOMAIN r \cup {e} /\ rr[e] = rec
      /\ \A d \in DOMAIN r : rr[d] = r[d]
  BY Zenon DEF With
<1>4. xx = Heap(rr)
  <2>1. \A y : y \in x <=> \E d \in DOMAIN r : y = [id |-> d, at |-> r[d].expiresAt]
    BY Zenon DEF Sound, Heap
  <2>2. \A y : y \in Heap(rr) <=> \E d \in DOMAIN r \cup {e} : y = [id |-> d, at |-> rr[d].expiresAt]
    BY Zenon, <1>3 DEF Heap
  <2> HIDE DEF rr
  <2>3. ASSUME NEW y \in xx PROVE y \in Heap(rr)
    <3>1. CASE y \in x
      <4>1. PICK d \in DOMAIN r : y = [id |-> d, at |-> r[d].expiresAt]  BY Zenon, <2>1, <3>1
      <4> QED  BY Zenon, <1>3, <2>2, <4>1
    <3>2. CASE y = [id |-> e, at |-> rec.expiresAt]  BY Zenon, <1>3, <2>2, <3>2
    <3> QED  BY Zenon, <2>3, <3>1, <3>2
  <2>4. ASSUME NEW y \in Heap(rr) PROVE y \in xx
    <3>1. PICK d \in DOMAIN r \cup {e} : y = [id |-> d, at |-> rr[d].expiresAt]  BY Zenon, <2>2
    <3>2. CASE d = e  BY Zenon, <1>3, <3>1, <3>2
    <3>3. CASE d \in DOMAIN r  BY Zenon, <1>3, <2>1, <3>1, <3>3
    <3> QED  BY Zenon, <3>2, <3>3
  <2> QED  BY Zenon, <2>3, <2>4
<1>5. IsFiniteSet(DOMAIN rr) /\ Cardinality(DOMAIN rr) <= MaxRecords
  <2>1. IsFiniteSet(DOMAIN r) /\ Cardinality(DOMAIN r) \in Nat  BY Zenon, FS_CardinalityType DEF Sound
  <2>2. IsFiniteSet(DOMAIN r \cup {e}) /\ Cardinality(DOMAIN r \cup {e}) = Cardinality(DOMAIN r) + 1
    BY Zenon, <2>1, FS_AddElement
  <2> QED  BY <1>3, <2>1, <2>2, StoreAssumption
<1>6. Indexed(rr, bb)
  <2> DEFINE carried == rec.history # Nil
  <2>1. Members(st, ex.workspace, rec.history) = IF key \in DOMAIN b THEN b[key] ELSE {}
    BY Zenon, <1>1 DEF Members
  <2>2. \A k : Carry(rr, k) = Carry(r, k) \cup (IF carried /\ k = key THEN {e} ELSE {})
    <3> SUFFICES ASSUME NEW k PROVE Carry(rr, k) = Carry(r, k) \cup (IF carried /\ k = key THEN {e} ELSE {})
      BY Zenon
    <3>1. e \in Carry(rr, k) <=> carried /\ k = key  BY Zenon, <1>3 DEF Carry
    <3>2. \A d \in DOMAIN r : d \in Carry(rr, k) <=> d \in Carry(r, k)  BY Zenon, <1>3 DEF Carry
    <3>3. Carry(rr, k) \subseteq DOMAIN r \cup {e} /\ Carry(r, k) \subseteq DOMAIN r  BY Zenon, <1>3 DEF Carry
    <3> QED  BY Zenon, <3>1, <3>2, <3>3
  <2>3. \A k : k \notin DOMAIN b => Carry(r, k) = {}
    BY Zenon DEF Sound, Indexed, Carry
  <2>4. DOMAIN bb = DOMAIN b \cup (IF carried THEN {key} ELSE {})  BY Zenon DEF With
  <2>5. \A k \in DOMAIN bb : bb[k] = Carry(rr, k) /\ bb[k] # {}
    <3> SUFFICES ASSUME NEW k \in DOMAIN bb PROVE bb[k] = Carry(rr, k) /\ bb[k] # {}  BY Zenon
    <3>1. CASE carried /\ k = key
      <4>1. bb[k] = Members(st, ex.workspace, rec.history) \cup {e}  BY Zenon, <3>1 DEF With
      <4>2. Members(st, ex.workspace, rec.history) = Carry(r, k)
        BY Zenon, <2>1, <2>3, <3>1 DEF Sound, Indexed
      <4>3. Carry(rr, k) = Carry(r, k) \cup {e}  BY Zenon, <2>2, <3>1
      <4> QED  BY Zenon, <4>1, <4>2, <4>3
    <3>2. CASE ~(carried /\ k = key)
      <4>1. k \in DOMAIN b /\ bb[k] = b[k]  BY Zenon, <2>4, <3>2 DEF With
      <4>2. Carry(rr, k) = Carry(r, k)  BY Zenon, <2>2, <3>2
      <4> QED  BY Zenon, <4>1, <4>2 DEF Sound, Indexed
    <3> QED  BY Zenon, <3>1, <3>2
  <2>6. ASSUME NEW d \in DOMAIN rr, rr[d].history # Nil
        PROVE  <<rr[d].workspace, rr[d].history>> \in DOMAIN bb
    <3>1. CASE d = e  BY Zenon, <1>3, <2>4, <2>6, <3>1
    <3>2. CASE d \in DOMAIN r  BY Zenon, <1>3, <2>4, <2>6, <3>2 DEF Sound, Indexed
    <3> QED  BY Zenon, <1>3, <3>1, <3>2
  <2> QED  BY Zenon, <2>5, <2>6 DEF Indexed
<1>7. Sound(rr, bb, xx)  BY Zenon, <1>4, <1>5, <1>6 DEF Sound
<1> QED  BY Zenon, <1>2, <1>3, <1>7 DEF Joined

----------------------------------------------------------------------------
(* The actions.                                                            *)

LEMMA StoreIsStoreOf == Store = StoreOf(records, byHistory, visibleHistory, expires)
BY Zenon DEF Store, StoreOf

(* What Get and FindByHistory find after they reclaimed.                   *)
LEMMA Reclaimed ==
    ASSUME IInv
    PROVE  LET st == reclaimExpired(Store, segments)
           IN  /\ Sound(st.records, st.byHistory, st.expires)
               /\ st = StoreOf(st.records, st.byHistory, st.visibleHistory, st.expires)
               /\ DOMAIN st.records = {e \in DOMAIN records : records[e].expiresAt > now}
               /\ \A e \in DOMAIN st.records : st.records[e] = records[e]
<1> DEFINE st == reclaimExpired(Store, segments)
<1>1. Sound(records, byHistory, expires)  BY Zenon DEF IInv
<1>2. PICK rr, bb, w, xx :
          /\ reclaimExpired(StoreOf(records, byHistory, visibleHistory, expires), segments)
                = StoreOf(rr, bb, w, xx)
          /\ Sound(rr, bb, xx)
          /\ DOMAIN rr = Unexpired(records)
          /\ \A e \in DOMAIN rr : rr[e] = records[e]
  BY <1>1, ReclaimKeeps
<1>6. st = StoreOf(rr, bb, w, xx)  BY Zenon, <1>2, StoreIsStoreOf
<1> HIDE DEF st
<1>3. st.records = rr /\ st.byHistory = bb /\ st.visibleHistory = w /\ st.expires = xx
  BY Zenon, <1>6 DEF StoreOf
<1>4. Unexpired(records) = {e \in DOMAIN records : records[e].expiresAt > now}
  BY DEF IInv, Clocked, Unexpired
<1>5. /\ Sound(st.records, st.byHistory, st.expires)
      /\ st = StoreOf(st.records, st.byHistory, st.visibleHistory, st.expires)
      /\ DOMAIN st.records = {e \in DOMAIN records : records[e].expiresAt > now}
      /\ \A e \in DOMAIN st.records : st.records[e] = records[e]
  BY Zenon, <1>2, <1>3, <1>4, <1>6
<1> QED  BY Zenon, <1>5 DEF st

(* An exchange that goes on keeps the others as they were.                 *)
LEMMA ExchangeGoesOn ==
    ASSUME IInv, NEW e \in Exchange, exchange[e].at # "done", NEW val,
           {"at", "expiresAt"} \subseteq DOMAIN val, val.expiresAt \in Nat, val.at # "new",
           exchange' = [exchange EXCEPT ![e] = val],
           \A d \in DOMAIN records' : d \in DOMAIN records \/ (d = e /\ val.at = "done")
    PROVE  Started'
<1>1. DOMAIN exchange' = Exchange /\ exchange'[e] = val /\ \A d \in Exchange : d # e => exchange'[d] = exchange[d]
  BY Zenon DEF IInv, Started
<1> QED  BY Zenon, <1>1 DEF IInv, Started

LEMMA ResumedFacts ==
    ASSUME NEW ws, NEW q, NEW id, NEW r, NEW advance, NEW previous
    PROVE  LET x == Resumed(ws, q, id, r, advance, previous)
           IN  /\ x.at = "open" /\ x.workspace = ws /\ x.selected = id /\ x.expiresAt = 0
               /\ {"at", "expiresAt"} \subseteq DOMAIN x
BY Zenon DEF Resumed, Idle

(* A resume installs the reclaimed store.                                  *)
LEMMA ReclaimStep ==
    ASSUME IInv, Install(reclaimExpired(Store, segments)), now' = now
    PROVE  /\ Sound(records', byHistory', expires') /\ Clocked'
           /\ DOMAIN records' = {e \in DOMAIN records : records[e].expiresAt > now}
           /\ \A e \in DOMAIN records' : records'[e] = records[e]
<1> DEFINE st == reclaimExpired(Store, segments)
<1>1. /\ Sound(st.records, st.byHistory, st.expires)
      /\ DOMAIN st.records = {e \in DOMAIN records : records[e].expiresAt > now}
      /\ \A e \in DOMAIN st.records : st.records[e] = records[e]
  BY Zenon, Reclaimed
<1>2. records' = st.records /\ byHistory' = st.byHistory /\ expires' = st.expires  BY Zenon DEF Install
<1> HIDE DEF st
<1>3. /\ Sound(records', byHistory', expires')
      /\ DOMAIN records' = {e \in DOMAIN records : records[e].expiresAt > now}
      /\ \A e \in DOMAIN records' : records'[e] = records[e]
  BY Zenon, <1>1, <1>2
<1>4. Clocked'  BY Zenon, <1>3 DEF IInv, Clocked
<1> QED  BY Zenon, <1>3, <1>4

LEMMA BeginStep ==
    ASSUME IInv, NEW e \in Exchange, NEW ws, NEW q, Begin(e, ws, q)
    PROVE  IInv' /\ exchange'[e].selected = None
<1> DEFINE val == [Idle EXCEPT !.at = "open", !.workspace = ws, !.request = q, !.retained = <<Item(q, "whole")>>]
<1>1. /\ val.at = "open" /\ val.expiresAt \in Nat /\ {"at", "expiresAt"} \subseteq DOMAIN val
      /\ val.selected = None
  BY Zenon DEF Idle
<1>2. /\ exchange[e].at = "new" /\ exchange' = [exchange EXCEPT ![e] = val]
      /\ UNCHANGED <<now, records, byHistory, expires>>
  BY Zenon DEF Begin, store
<1> HIDE DEF val
<1>3. Started'  BY Zenon, <1>1, <1>2, ExchangeGoesOn
<1>4. Sound(records', byHistory', expires') /\ Clocked'  BY Zenon, <1>2 DEF IInv, Clocked
<1>5. exchange'[e] = val  BY Zenon, <1>2 DEF IInv, Started
<1> QED  BY Zenon, <1>1, <1>3, <1>4, <1>5 DEF IInv

LEMMA PrepareStep ==
    ASSUME IInv, NEW e \in Exchange, NEW round, prepareRecord(e, round)
    PROVE  IInv'
<1> DEFINE kept == IF round THEN Append(exchange[e].retained, Item(e, "private")) ELSE exchange[e].retained
           val == [exchange[e] EXCEPT !.at = "prepared", !.expiresAt = now + TTL, !.retained = kept]
<1>1. now + TTL \in Nat  BY StoreAssumption DEF IInv, Clocked
<1>2. {"at", "expiresAt"} \subseteq DOMAIN exchange[e]  BY Zenon DEF IInv, Started
<1>3. /\ exchange[e].at = "open" /\ exchange' = [exchange EXCEPT ![e] = val]
      /\ UNCHANGED <<now, records, byHistory, expires>>
  BY Zenon DEF prepareRecord, store
<1> HIDE DEF kept
<1>4. /\ val.at = "prepared" /\ val.expiresAt \in Nat /\ {"at", "expiresAt"} \subseteq DOMAIN val
  BY Zenon, <1>1, <1>2
<1> HIDE DEF val
<1>5. Started'  BY Zenon, <1>3, <1>4, ExchangeGoesOn
<1>6. Sound(records', byHistory', expires') /\ Clocked'  BY Zenon, <1>3 DEF IInv, Clocked
<1> QED  BY Zenon, <1>5, <1>6 DEF IInv

(* previous_response_id resumes the checkpoint it names or none.           *)
LEMMA ExplicitStep ==
    ASSUME IInv, NEW e \in Exchange, NEW ws, NEW q, NEW id, NEW same, ResumeExplicit(e, ws, q, id, same)
    PROVE  /\ IInv'
           /\ exchange'[e].selected # None => exchange'[e].selected \in Live(exchange'[e].workspace)
<1> DEFINE st == reclaimExpired(Store, segments)
           r == st.records[id]
           found == Resumed(ws, q, id, r, Extends(r, same), r.history)
           lost == [Idle EXCEPT !.at = "failed"]
           val == IF Addressed(st, ws, id) THEN found ELSE lost
<1>1. /\ exchange[e].at = "new" /\ exchange' = [exchange EXCEPT ![e] = val] /\ Install(st) /\ now' = now
  BY Zenon DEF ResumeExplicit
<1>2. /\ DOMAIN st.records = {d \in DOMAIN records : records[d].expiresAt > now}
      /\ \A d \in DOMAIN st.records : st.records[d] = records[d]
  BY Zenon, Reclaimed
<1>3. /\ found.at = "open" /\ found.workspace = ws /\ found.selected = id /\ found.expiresAt = 0
      /\ {"at", "expiresAt"} \subseteq DOMAIN found
  BY ResumedFacts
<1>4. /\ lost.at = "failed" /\ lost.selected = None /\ lost.expiresAt = 0
      /\ {"at", "expiresAt"} \subseteq DOMAIN lost
  BY Zenon DEF Idle
<1>5. /\ Sound(records', byHistory', expires') /\ Clocked'
      /\ DOMAIN records' = {d \in DOMAIN records : records[d].expiresAt > now}
  BY Zenon, <1>1, ReclaimStep
<1> HIDE DEF found, lost
<1>6. val.at # "new" /\ val.expiresAt \in Nat /\ {"at", "expiresAt"} \subseteq DOMAIN val
  BY <1>3, <1>4
<1>7. Started'
  <2> HIDE DEF val
  <2> QED  BY Zenon, <1>1, <1>5, <1>6, ExchangeGoesOn
<1>8. exchange'[e] = val  BY Zenon, <1>1 DEF IInv, Started
<1>9. ASSUME val.selected # None PROVE val.selected \in Live(val.workspace)
  <2>1. Addressed(st, ws, id)  BY Zenon, <1>4, <1>9
  <2>2. id \in DOMAIN st.records /\ st.records[id].workspace = ws  BY Zenon, <2>1 DEF Addressed
  <2>3. val.selected = id /\ val.workspace = ws  BY Zenon, <1>3, <2>1
  <2> HIDE DEF val, st
  <2>4. id \in Live(ws)  BY Zenon, <1>2, <2>2 DEF Live
  <2> QED  BY Zenon, <2>3, <2>4
<1> HIDE DEF val
<1> QED  BY Zenon, <1>5, <1>7, <1>8, <1>9 DEF IInv

(* A resent history resumes the one live checkpoint that carries it, and   *)
(* none only when not exactly one does.                                    *)
LEMMA HistoryStep ==
    ASSUME IInv, NEW e \in Exchange, NEW ws, NEW q, NEW h \in HistoryUpTo(MaxTurns), NEW split,
           ResumeByHistory(e, ws, q, h, split)
    PROVE  LET carriers == {id \in Live(ws) : records[id].history = h}
               selected == exchange'[e].selected
           IN  /\ IInv'
               /\ selected # None => selected \in Live(exchange'[e].workspace)
               /\ IF selected = None THEN Cardinality(carriers) # 1 ELSE carriers = {selected}
<1> DEFINE st == reclaimExpired(Store, segments)
           key == <<ws, h>>
           members == Members(st, ws, h)
           carriers == {id \in Live(ws) : records[id].history = h}
           found == FindByHistory(st, ws, h)
           resent == Represent(h, split)
           begun == [Idle EXCEPT !.at = "open", !.workspace = ws, !.request = q,
                                 !.retained = resent \o <<Item(q, "whole")>>,
                                 !.previous = h, !.reuse = Visible(h, Len(resent))]
<1>1. /\ exchange[e].at = "new" /\ Install(st) /\ now' = now
      /\ \/ \E id \in found : exchange' = [exchange EXCEPT ![e] = Resumed(ws, q, id, st.records[id], TRUE, h)]
         \/ found = {} /\ exchange' = [exchange EXCEPT ![e] = begun]
  BY Zenon DEF ResumeByHistory
<1>2. /\ Sound(st.records, st.byHistory, st.expires)
      /\ DOMAIN st.records = {d \in DOMAIN records : records[d].expiresAt > now}
      /\ \A d \in DOMAIN st.records : st.records[d] = records[d]
  BY Zenon, Reclaimed
<1>3. /\ Sound(records', byHistory', expires') /\ Clocked'
      /\ DOMAIN records' = {d \in DOMAIN records : records[d].expiresAt > now}
  BY Zenon, <1>1, ReclaimStep
<1>4. found = {id \in members \cap DOMAIN st.records : Cardinality(members) = 1}
      /\ members = IF key \in DOMAIN st.byHistory THEN st.byHistory[key] ELSE {}
  BY Zenon DEF FindByHistory, Members
<1>5. h # Nil
  <2>1. PICK k \in 1 .. MaxTurns : h \in [1 .. k -> Turn]  BY Zenon DEF HistoryUpTo
  <2>2. 1 \in DOMAIN h  BY <2>1, StoreAssumption
  <2> QED  BY <2>2 DEF Nil
<1>6. /\ begun.at # "new" /\ begun.selected = None /\ begun.expiresAt \in Nat
      /\ {"at", "expiresAt"} \subseteq DOMAIN begun
  <2> HIDE DEF resent
  <2> QED  BY Zenon DEF Idle
<1> HIDE DEF st, begun, found, resent, members
<1>7. members = Carry(st.records, key)
  <2>1. CASE key \in DOMAIN st.byHistory  BY Zenon, <1>2, <1>4, <2>1 DEF Sound, Indexed
  <2>2. CASE key \notin DOMAIN st.byHistory
    <3>1. Carry(st.records, key) = {}  BY Zenon, <1>2, <2>2 DEF Sound, Indexed, Carry
    <3> QED  BY Zenon, <1>4, <2>2, <3>1
  <2> QED  BY Zenon, <2>1, <2>2
<1>8. members = carriers
  <2>1. \A id : id \in Carry(st.records, key) <=>
                  /\ id \in DOMAIN records /\ records[id].expiresAt > now
                  /\ records[id].workspace = ws /\ records[id].history = h
    BY Zenon, <1>2, <1>5 DEF Carry
  <2>2. \A id : id \in carriers <=>
                  /\ id \in DOMAIN records /\ records[id].expiresAt > now
                  /\ records[id].workspace = ws /\ records[id].history = h
    BY Zenon DEF Live
  <2> HIDE DEF carriers
  <2> QED  BY Zenon, <1>7, <2>1, <2>2
<1>9. IsFiniteSet(members) /\ members \subseteq DOMAIN st.records /\ members \subseteq Exchange
  <2>1. members \subseteq DOMAIN st.records  BY Zenon, <1>7 DEF Carry
  <2>2. IsFiniteSet(DOMAIN st.records)  BY Zenon, <1>2 DEF Sound
  <2> QED  BY Zenon, <1>2, <2>1, <2>2, FS_Subset DEF IInv, Started
<1>10. exchange[e].at # "done" /\ \A d \in DOMAIN records' : d \in DOMAIN records  BY Zenon, <1>1, <1>3
<1>11. CASE \E id \in found : exchange' = [exchange EXCEPT ![e] = Resumed(ws, q, id, st.records[id], TRUE, h)]
  <2>1. PICK id \in found : exchange' = [exchange EXCEPT ![e] = Resumed(ws, q, id, st.records[id], TRUE, h)]
    BY Zenon, <1>11
  <2> DEFINE val == Resumed(ws, q, id, st.records[id], TRUE, h)
  <2>2. /\ val.at # "new" /\ val.workspace = ws /\ val.selected = id /\ val.expiresAt \in Nat
        /\ {"at", "expiresAt"} \subseteq DOMAIN val
    BY Zenon DEF Resumed, Idle
  <2>3. exchange' = [exchange EXCEPT ![e] = val]  BY Zenon, <2>1
  <2> HIDE DEF val
  <2>4. Started'  BY Zenon, <1>10, <2>2, <2>3, ExchangeGoesOn
  <2>5. exchange'[e] = val  BY Zenon, <2>3 DEF IInv, Started
  <2>6. id \in members /\ Cardinality(members) = 1  BY Zenon, <1>4
  <2>7. members = {id}
    <3>1. PICK m : members = {m}  BY Zenon, <1>9, <2>6, FS_Singleton
    <3> QED  BY Zenon, <2>6, <3>1
  <2>8. id # None /\ id \in carriers /\ id \in Live(ws)
    BY Zenon, <1>8, <1>9, <2>6, StoreAssumption DEF None
  <2> HIDE DEF carriers
  <2>9. carriers = {id}  BY Zenon, <1>8, <2>7
  <2> QED  BY Zenon, <1>3, <2>2, <2>4, <2>5, <2>8, <2>9 DEF IInv, carriers
<1>12. CASE found = {} /\ exchange' = [exchange EXCEPT ![e] = begun]
  <2>1. Started'  BY Zenon, <1>6, <1>10, <1>12, ExchangeGoesOn
  <2>2. exchange'[e] = begun  BY Zenon, <1>12 DEF IInv, Started
  <2>3. Cardinality(members) # 1
    <3> SUFFICES ASSUME Cardinality(members) = 1 PROVE FALSE  BY Zenon
    <3>1. PICK m : members = {m}  BY Zenon, <1>9, FS_Singleton
    <3>2. m \in found  BY Zenon, <1>4, <1>9, <3>1
    <3> QED  BY Zenon, <1>12, <3>2
  <2> HIDE DEF carriers
  <2>4. Cardinality(carriers) # 1  BY Zenon, <1>8, <2>3
  <2> QED  BY Zenon, <1>3, <1>6, <2>1, <2>2, <2>4 DEF IInv, carriers
<1> QED  BY Zenon, <1>1, <1>11, <1>12

(* Put stores a checkpoint over the reclaimed store, from which it evicts  *)
(* the oldest one when that store is full.                                 *)
LEMMA PutStep ==
    ASSUME IInv, NEW e \in Exchange, NEW a, NEW known, Put(e, a, known)
    PROVE  /\ IInv'
           /\ \A d \in DOMAIN records :
                 \/ d \in DOMAIN records' /\ records'[d] = records[d]
                 \/ /\ d \notin DOMAIN records'
                    /\ \/ records[d].expiresAt <= now
                       \/ \A o \in DOMAIN records :
                             records[o].expiresAt <= now \/ records[d].expiresAt <= records[o].expiresAt
<1> DEFINE x == exchange[e]
           st == reclaimExpired(Store, segments)
           u == resolveStorageReuse(st, e, x)
           asked == appendSegment(u.segs, <<e, "request">>, u.base, SubSeq(x.retained, u.prefix + 1, Len(x.retained)))
           after == appendSegment(asked.segs, <<e, "after">>, asked.tail, <<Item(a, "whole")>>)
           rec == [workspace |-> x.workspace, history |-> Advance(x, a, known), requestTail |-> asked.tail,
                   after |-> after.tail, response |-> <<Item(a, "whole")>>, expiresAt |-> x.expiresAt]
           val == [x EXCEPT !.at = "done", !.committed = x.retained]
<1>1. /\ exchange[e].at = "prepared" /\ now' = now
      /\ IF Full(st) THEN \E o \in Oldest(st) : Install(Insert(evictOldest(st, segments, o), e, x, rec, u))
         ELSE Install(Insert(st, e, x, rec, u))
  BY Zenon DEF Put
<1>2. exchange' = [exchange EXCEPT ![e] = val]  BY Zenon DEF Put
<1>3. /\ Sound(st.records, st.byHistory, st.expires)
      /\ st = StoreOf(st.records, st.byHistory, st.visibleHistory, st.expires)
      /\ DOMAIN st.records = {d \in DOMAIN records : records[d].expiresAt > now}
      /\ \A d \in DOMAIN st.records : st.records[d] = records[d]
  BY Zenon, Reclaimed
<1>4. rec.workspace = x.workspace /\ rec.expiresAt = x.expiresAt  BY Zenon
<1> HIDE DEF st, rec, u, asked, after
<1>5. e \notin DOMAIN st.records /\ e \notin DOMAIN records  BY Zenon, <1>1, <1>3 DEF IInv, Started
<1>6. x.expiresAt \in Nat /\ {"at", "expiresAt"} \subseteq DOMAIN x  BY Zenon DEF IInv, Started
<1>7. ASSUME NEW r, NEW b, NEW v, NEW h, Sound(r, b, h), Cardinality(DOMAIN r) < MaxRecords,
             DOMAIN r \subseteq DOMAIN st.records, \A d \in DOMAIN r : r[d] = st.records[d],
             Install(Insert(StoreOf(r, b, v, h), e, x, rec, u))
      PROVE  /\ IInv' /\ DOMAIN records' = DOMAIN r \cup {e}
             /\ \A d \in DOMAIN r : records'[d] = records[d]
  <2>1. e \notin DOMAIN r  BY Zenon, <1>5, <1>7
  <2>2. PICK rr, bb, w, hh :
            /\ Insert(StoreOf(r, b, v, h), e, x, rec, u) = StoreOf(rr, bb, w, hh)
            /\ Sound(rr, bb, hh) /\ DOMAIN rr = DOMAIN r \cup {e}
            /\ \A d \in DOMAIN r : rr[d] = r[d]
    <3>1. Joined(Insert(StoreOf(r, b, v, h), e, x, rec, u), r, e)
      BY Zenon, <1>4, <1>7, <2>1, InsertKeeps
    <3> QED  BY Zenon, <3>1 DEF Joined
  <2>3. records' = rr /\ byHistory' = bb /\ expires' = hh  BY <1>7, <2>2 DEF Install, StoreOf
  <2>4. Sound(records', byHistory', expires')  BY Zenon, <2>2, <2>3
  <2>5. rr[e] = rec
    <3>1. Insert(StoreOf(r, b, v, h), e, x, rec, u).records = With(r, e, rec)
      BY Zenon DEF Insert, StoreOf
    <3>2. rr = With(r, e, rec)  BY <2>2, <3>1 DEF StoreOf
    <3> QED  BY Zenon, <3>2 DEF With
  <2>6. DOMAIN records' = DOMAIN r \cup {e} /\ \A d \in DOMAIN r : records'[d] = records[d]
    BY Zenon, <1>3, <1>7, <2>2, <2>3
  <2>7. Clocked'
    BY Zenon, <1>1, <1>3, <1>4, <1>6, <1>7, <2>3, <2>5, <2>6 DEF IInv, Clocked
  <2>8. Started'
    <3>1. /\ val.at = "done" /\ val.expiresAt \in Nat /\ {"at", "expiresAt"} \subseteq DOMAIN val
          /\ val.at # "new"
      BY Zenon, <1>6
    <3>2. \A d \in DOMAIN records' : d \in DOMAIN records \/ d = e  BY Zenon, <1>3, <1>7, <2>6
    <3>3. exchange[e].at # "done"  BY Zenon, <1>1
    <3> HIDE DEF val
    <3> QED  BY Zenon, <1>2, <3>1, <3>2, <3>3, ExchangeGoesOn
  <2> QED  BY Zenon, <2>4, <2>6, <2>7, <2>8 DEF IInv
<1>8. IsFiniteSet(DOMAIN st.records) /\ Cardinality(DOMAIN st.records) \in Nat
  BY Zenon, <1>3, FS_CardinalityType DEF Sound
<1>9. \A d \in DOMAIN records : d \notin DOMAIN st.records => records[d].expiresAt <= now
  BY <1>3 DEF IInv, Clocked
<1>10. CASE ~Full(st)
  <2>1. Cardinality(DOMAIN st.records) < MaxRecords  BY <1>8, <1>10, StoreAssumption DEF Full
  <2>2. Install(Insert(StoreOf(st.records, st.byHistory, st.visibleHistory, st.expires), e, x, rec, u))
    BY Zenon, <1>1, <1>3, <1>10
  <2>3. /\ IInv' /\ DOMAIN records' = DOMAIN st.records \cup {e}
        /\ \A d \in DOMAIN st.records : records'[d] = records[d]
    BY Zenon, <1>3, <1>7, <2>1, <2>2
  <2> QED  BY Zenon, <1>5, <1>9, <2>3
<1>11. CASE Full(st)
  <2>1. PICK o \in Oldest(st) : Install(Insert(evictOldest(st, segments, o), e, x, rec, u))
    BY Zenon, <1>1, <1>11
  <2>2. o \in st.expires /\ \A y \in st.expires : o.at <= y.at  BY Zenon DEF Oldest
  <2>3. PICK rr, bb, w, hh :
            /\ evictOldest(StoreOf(st.records, st.byHistory, st.visibleHistory, st.expires), segments, o)
                  = StoreOf(rr, bb, w, hh)
            /\ Sound(rr, bb, hh) /\ Cardinality(DOMAIN rr) < MaxRecords
            /\ o.id \in DOMAIN st.records /\ o.at = st.records[o.id].expiresAt
            /\ DOMAIN rr = DOMAIN st.records \ {o.id}
            /\ \A d \in DOMAIN rr : rr[d] = st.records[d]
    <3> DEFINE old == StoreOf(st.records, st.byHistory, st.visibleHistory, st.expires)
    <3>1. Sound(st.records, st.byHistory, st.expires) /\ o \in st.expires  BY Zenon, <1>3, <2>2
    <3>2. /\ Left(evictOldest(old, segments, o), st.records, o.id)
          /\ o.id \in DOMAIN st.records /\ o.at = st.records[o.id].expiresAt
      BY ONLY Zenon, <3>1, EvictKeeps
    <3> QED  BY Zenon, <3>2 DEF Left
  <2>4. Install(Insert(StoreOf(rr, bb, w, hh), e, x, rec, u))  BY Zenon, <1>3, <2>1, <2>3
  <2>5. DOMAIN rr \subseteq DOMAIN st.records  BY Zenon, <2>3
  <2>6. /\ IInv' /\ DOMAIN records' = DOMAIN rr \cup {e}
        /\ \A d \in DOMAIN rr : records'[d] = records[d]
    BY Zenon, <1>7, <2>3, <2>4, <2>5
  <2>7. \A d \in DOMAIN st.records : records[o.id].expiresAt <= records[d].expiresAt
    <3> SUFFICES ASSUME NEW d \in DOMAIN st.records PROVE records[o.id].expiresAt <= records[d].expiresAt
      BY Zenon
    <3> DEFINE y == [id |-> d, at |-> st.records[d].expiresAt]
    <3>1. y \in st.expires  BY Zenon, <1>3 DEF Sound, Heap
    <3>2. y.at = records[d].expiresAt  BY Zenon, <1>3
    <3>3. o.at = records[o.id].expiresAt  BY Zenon, <1>3, <2>3
    <3> HIDE DEF y
    <3> QED  BY Zenon, <2>2, <3>1, <3>2, <3>3
  <2> SUFFICES ASSUME NEW d \in DOMAIN records
               PROVE  \/ d \in DOMAIN records' /\ records'[d] = records[d]
                      \/ /\ d \notin DOMAIN records'
                         /\ \/ records[d].expiresAt <= now
                            \/ \A p \in DOMAIN records :
                                  records[p].expiresAt <= now \/ records[d].expiresAt <= records[p].expiresAt
    BY Zenon, <2>6
  <2>8. CASE d \in DOMAIN rr  BY Zenon, <2>6, <2>8
  <2>9. CASE d \notin DOMAIN st.records
    <3>1. d # e /\ d \notin DOMAIN rr  BY Zenon, <1>5, <2>5, <2>9
    <3> QED  BY Zenon, <1>9, <2>6, <2>9, <3>1
  <2>10. CASE d = o.id
    <3>1. d # e /\ d \notin DOMAIN rr  BY Zenon, <1>5, <2>3, <2>10
    <3>2. d \notin DOMAIN records'  BY Zenon, <2>6, <3>1
    <3> QED  BY Zenon, <1>9, <2>7, <2>10, <3>2
  <2> QED  BY Zenon, <2>3, <2>8, <2>9, <2>10
<1> QED  BY Zenon, <1>10, <1>11

LEMMA StoreStarts == Init => IInv
<1> SUFFICES ASSUME Init PROVE IInv  BY Zenon
<1>1. DOMAIN records = {} /\ DOMAIN byHistory = {} /\ expires = {}  BY Zenon DEF Init
<1>2. IsFiniteSet(DOMAIN records) /\ Cardinality(DOMAIN records) <= MaxRecords
  BY <1>1, FS_EmptySet, StoreAssumption
<1>3. Sound(records, byHistory, expires)  BY Zenon, <1>1, <1>2 DEF Sound, Indexed, Heap
<1>4. Started  BY Zenon, <1>1 DEF Init, Started, Idle
<1> QED  BY Zenon, <1>1, <1>3, <1>4 DEF IInv, Clocked, Init

LEMMA TickStep ==
    ASSUME IInv, Tick \/ UNCHANGED vars
    PROVE  IInv' /\ records' = records /\ exchange' = exchange
<1>1. UNCHANGED <<records, byHistory, expires, exchange>>  BY Zenon DEF Tick, vars, store
<1>2. now' \in Nat  BY DEF Tick, vars, IInv, Clocked
<1> QED  BY Zenon, <1>1, <1>2 DEF IInv, Started, Clocked

LEMMA StoreNextKeeps ==
    ASSUME IInv, [Next]_vars
    PROVE  IInv'
BY Zenon, TickStep, BeginStep, ExplicitStep, HistoryStep, PrepareStep, PutStep DEF Next

LEMMA StoreInvariance == Spec => []IInv
<1>1. IInv /\ [Next]_vars => IInv'  BY Zenon, StoreNextKeeps
<1> QED  BY StoreStarts, <1>1, PTL DEF Spec

(* For any capacity and lifetime, and whatever Put, Get, expiry and        *)
(* eviction do in between: byHistory lists exactly the live checkpoints of *)
(* every history, the expiration heap holds one entry for each checkpoint  *)
(* and none besides, and the store never exceeds maxMemoryStoreRecords.    *)
THEOREM IndexesExact == Spec => [](HistoryIndexExact /\ ExpiryCoversRecords /\ CapacityBounded)
<1>1. IInv => HistoryIndexExact /\ ExpiryCoversRecords /\ CapacityBounded
  <2> SUFFICES ASSUME IInv PROVE HistoryIndexExact /\ ExpiryCoversRecords /\ CapacityBounded  BY Zenon
  <2>1. ExpiryCoversRecords /\ CapacityBounded
    BY Zenon DEF IInv, Sound, Heap, ExpiryCoversRecords, CapacityBounded
  <2>2. Indexed(records, byHistory)  BY Zenon DEF IInv, Sound
  <2>3. HistoryIndexExact  BY Zenon, <2>2 DEF Indexed, Carry, HistoryIndexExact
  <2> QED  BY Zenon, <2>1, <2>3
<1> QED  BY <1>1, StoreInvariance, PTL

(* An exchange resumes only a checkpoint of its own workspace that has not *)
(* expired when Get or FindByHistory looks, and by history exactly when    *)
(* one live checkpoint carries the history, which is the one it resumes.   *)
THEOREM SelectionIsSound == Spec => SelectionSound
<1> DEFINE LiveStep == \A e \in Exchange :
               (exchange[e].at = "new" /\ exchange'[e].selected # None) =>
                   exchange'[e].selected \in Live(exchange'[e].workspace)
           UniqueStep == \A e \in {x \in Exchange : exchange'[x] # exchange[x]}, ws \in Workspace, q \in Request,
                            h \in HistoryUpTo(MaxTurns), split \in BOOLEAN :
               ResumeByHistory(e, ws, q, h, split) =>
                  LET carriers == {id \in Live(ws) : records[id].history = h}
                      selected == exchange'[e].selected
                  IN IF selected = None THEN Cardinality(carriers) # 1 ELSE carriers = {selected}
<1>1. ASSUME IInv, [Next]_vars PROVE LiveStep
  <2> SUFFICES ASSUME NEW e \in Exchange, exchange[e].at = "new", exchange'[e].selected # None
               PROVE  exchange'[e].selected \in Live(exchange'[e].workspace)
    BY Zenon
  <2>1. exchange[e].selected = None /\ DOMAIN exchange = Exchange  BY <1>1 DEF IInv, Started, Idle
  <2>2. exchange'[e] # exchange[e]  BY Zenon, <2>1
  <2>3. ASSUME NEW f \in Exchange, NEW val, exchange' = [exchange EXCEPT ![f] = val]
        PROVE  e = f
    BY Zenon, <2>1, <2>2, <2>3
  <2>4. ASSUME NEW f \in Exchange, NEW ws \in Workspace, NEW q \in Request, Begin(f, ws, q)
        PROVE  FALSE
    <3>1. e = f  BY Zenon, <2>3, <2>4 DEF Begin
    <3> QED  BY Zenon, <1>1, <2>4, <3>1, BeginStep
  <2>5. ASSUME NEW f \in Exchange, NEW ws \in Workspace, NEW q \in Request, NEW id, NEW same,
               ResumeExplicit(f, ws, q, id, same)
        PROVE  exchange'[e].selected \in Live(exchange'[e].workspace)
    <3>1. e = f  BY Zenon, <2>3, <2>5 DEF ResumeExplicit
    <3> QED  BY Zenon, <1>1, <2>5, <3>1, ExplicitStep
  <2>6. ASSUME NEW f \in Exchange, NEW ws \in Workspace, NEW q \in Request,
               NEW h \in HistoryUpTo(MaxTurns), NEW split, ResumeByHistory(f, ws, q, h, split)
        PROVE  exchange'[e].selected \in Live(exchange'[e].workspace)
    <3>1. e = f  BY Zenon, <2>3, <2>6 DEF ResumeByHistory
    <3> QED  BY Zenon, <1>1, <2>6, <3>1, HistoryStep
  <2>7. ASSUME NEW f \in Exchange, \/ \E round \in BOOLEAN : prepareRecord(f, round)
                                   \/ \E r \in Response, known \in BOOLEAN : Put(f, r, known)
        PROVE  FALSE
    <3>1. exchange[f].at \in {"open", "prepared"} /\ f # e  BY Zenon, <2>7 DEF prepareRecord, Put
    <3>2. exchange'[e] = exchange[e]  BY Zenon, <2>1, <2>7, <3>1 DEF prepareRecord, Put
    <3> QED  BY Zenon, <2>2, <3>2
  <2>8. ~(Tick \/ UNCHANGED vars)  BY Zenon, <1>1, <2>2, TickStep
  <2> QED  BY Zenon, <1>1, <2>4, <2>5, <2>6, <2>7, <2>8 DEF Next
<1>2. ASSUME IInv, [Next]_vars PROVE UniqueStep
  BY <1>2, HistoryStep
<1>3. IInv /\ [Next]_vars => [LiveStep]_vars /\ [UniqueStep]_vars  BY Zenon, <1>1, <1>2
<1>4. SelectionSound <=> [][LiveStep]_vars /\ [][UniqueStep]_vars
  BY Zenon DEF SelectionSound, SelectionLive, HistorySelectionUnique
<1> HIDE DEF LiveStep, UniqueStep
<1> QED  BY <1>3, <1>4, StoreInvariance, PTL DEF Spec

(* A checkpoint leaves the store only when it has expired, or when Put on  *)
(* a full store evicts it because no live checkpoint expires earlier;      *)
(* until then its record does not change.                                  *)
THEOREM CheckpointsLeaveWhenDue == Spec => RecordsLeaveWhenDue
<1> DEFINE Due == \A e \in DOMAIN records :
               \/ e \in DOMAIN records' /\ records'[e] = records[e]
               \/ /\ e \notin DOMAIN records'
                  /\ \/ records[e].expiresAt <= now
                     \/ \A o \in DOMAIN records :
                           records[o].expiresAt <= now \/ records[e].expiresAt <= records[o].expiresAt
<1>1. ASSUME IInv, [Next]_vars PROVE Due
  <2>1. ASSUME records' = records PROVE Due  BY Zenon, <2>1
  <2>2. ASSUME Install(reclaimExpired(Store, segments)), now' = now PROVE Due
    <3>1. /\ DOMAIN records' = {e \in DOMAIN records : records[e].expiresAt > now}
          /\ \A e \in DOMAIN records' : records'[e] = records[e]
      BY Zenon, <1>1, <2>2, ReclaimStep
    <3> QED  BY <1>1, <3>1 DEF IInv, Clocked
  <2>3. ASSUME NEW e \in Exchange, NEW r \in Response, NEW known \in BOOLEAN, Put(e, r, known)
        PROVE  Due
    BY Zenon, <1>1, <2>3, PutStep
  <2>4. ASSUME NEW e \in Exchange, NEW ws \in Workspace, NEW q \in Request,
               \/ Begin(e, ws, q)
               \/ \E id \in Exchange \ {e}, same \in BOOLEAN : ResumeExplicit(e, ws, q, id, same)
               \/ \E h \in HistoryUpTo(MaxTurns), split \in BOOLEAN : ResumeByHistory(e, ws, q, h, split)
        PROVE  Due
    <3>1. CASE Begin(e, ws, q)  BY Zenon, <2>1, <3>1 DEF Begin, store
    <3>2. ASSUME NEW id, NEW same, ResumeExplicit(e, ws, q, id, same) PROVE Due
      BY Zenon, <2>2, <3>2 DEF ResumeExplicit
    <3>3. ASSUME NEW h, NEW split, ResumeByHistory(e, ws, q, h, split) PROVE Due
      BY Zenon, <2>2, <3>3 DEF ResumeByHistory
    <3> HIDE DEF Due
    <3> QED  BY Zenon, <2>4, <3>1, <3>2, <3>3
  <2>5. ASSUME NEW e \in Exchange, NEW round, prepareRecord(e, round) PROVE Due
    BY Zenon, <2>1, <2>5 DEF prepareRecord, store
  <2>6. ASSUME Tick \/ UNCHANGED vars PROVE Due  BY Zenon, <1>1, <2>1, <2>6, TickStep
  <2> HIDE DEF Due
  <2> QED  BY Zenon, <1>1, <2>3, <2>4, <2>5, <2>6 DEF Next
<1>2. IInv /\ [Next]_vars => [Due]_vars  BY Zenon, <1>1
<1>3. RecordsLeaveWhenDue <=> [][Due]_vars  BY Zenon DEF RecordsLeaveWhenDue
<1> HIDE DEF Due
<1> QED  BY <1>2, <1>3, StoreInvariance, PTL DEF Spec

----------------------------------------------------------------------------
(* The content of segments.                                                *)

USE SMTT(20), Zenon

(* The equations of Ancestors and of materializeItems.                     *)
UpOf(segs, f) ==
    f = [s \in DOMAIN segs \cup {Nil} |-> IF s = Nil THEN {} ELSE {s} \cup f[segs[s].parent]]

ItemsOf(segs, f) ==
    f = [s \in DOMAIN segs \cup {Nil} |-> IF s = Nil THEN <<>> ELSE f[segs[s].parent] \o segs[s].items]

OneUp(segs, f) == UpOf(segs, f) /\ \A g : UpOf(segs, g) => g = f
OneItems(segs, f) == ItemsOf(segs, f) /\ \A g : ItemsOf(segs, g) => g = f

Solved(segs) == (\E f : OneUp(segs, f)) /\ (\E f : OneItems(segs, f))

(* Segments with parents among them.                                       *)
Forest(segs) ==
    /\ Nil \notin DOMAIN segs
    /\ \A s \in DOMAIN segs : segs[s].parent \in DOMAIN segs \cup {Nil} /\ segs[s].items \in Seq(Items)
    /\ Solved(segs)
    /\ \A s \in DOMAIN segs \cup {Nil} :
          Ancestors(segs, s) \subseteq DOMAIN segs /\ materializeItemsOf(segs, s) \in Seq(Items)

(* The forest segs, grown by segments of these names.                      *)
Grown(segs, more, names) ==
    /\ Forest(more)
    /\ DOMAIN segs \subseteq DOMAIN more /\ DOMAIN more \subseteq DOMAIN segs \cup names
    /\ \A s \in DOMAIN segs \cup {Nil} :
          /\ Ancestors(more, s) = Ancestors(segs, s)
          /\ materializeItemsOf(more, s) = materializeItemsOf(segs, s)

(* The equation of Shown, and what one more item adds.                     *)
ShownOf(s, parts, f) ==
    f = [n \in 0..Len(s) |->
            IF n = 0 THEN <<>>
            ELSE IF s[n].part \in parts THEN Append(f[n - 1], s[n].of) ELSE f[n - 1]]

OneShown(s, parts, f) == ShownOf(s, parts, f) /\ \A g : ShownOf(s, parts, g) => g = f

More(seen, i, parts) == IF i.part \in parts THEN Append(seen, i.of) ELSE seen

Contribution == Request \cup Response \cup Exchange

----------------------------------------------------------------------------
(* The forest.                                                             *)

LEMMA AncestorsEquation ==
    ASSUME NEW segs, Solved(segs), Nil \notin DOMAIN segs
    PROVE  /\ Ancestors(segs, Nil) = {}
           /\ \A s \in DOMAIN segs : Ancestors(segs, s) = {s} \cup Ancestors(segs, segs[s].parent)
<1>1. PICK f : UpOf(segs, f) /\ \A g : UpOf(segs, g) => g = f  BY Zenon DEF Solved, OneUp
<1>2. \A s : Ancestors(segs, s) = f[s]  BY Zenon, <1>1 DEF Ancestors, UpOf
<1>3. f = [s \in DOMAIN segs \cup {Nil} |-> IF s = Nil THEN {} ELSE {s} \cup f[segs[s].parent]]
  BY Zenon, <1>1 DEF UpOf
<1>4. f[Nil] = {} /\ \A s \in DOMAIN segs : f[s] = {s} \cup f[segs[s].parent]
  BY Zenon, <1>3
<1> QED  BY Zenon, <1>2, <1>4

LEMMA MaterializeEquation ==
    ASSUME NEW segs, Solved(segs), Nil \notin DOMAIN segs
    PROVE  /\ materializeItemsOf(segs, Nil) = <<>>
           /\ \A s \in DOMAIN segs :
                 materializeItemsOf(segs, s) = materializeItemsOf(segs, segs[s].parent) \o segs[s].items
<1>1. PICK f : ItemsOf(segs, f) /\ \A g : ItemsOf(segs, g) => g = f  BY Zenon DEF Solved, OneItems
<1>2. \A s : materializeItemsOf(segs, s) = f[s]  BY Zenon, <1>1 DEF materializeItemsOf, ItemsOf
<1>3. f = [s \in DOMAIN segs \cup {Nil} |-> IF s = Nil THEN <<>> ELSE f[segs[s].parent] \o segs[s].items]
  BY Zenon, <1>1 DEF ItemsOf
<1>4. f[Nil] = <<>> /\ \A s \in DOMAIN segs : f[s] = f[segs[s].parent] \o segs[s].items
  BY Zenon, <1>3
<1> QED  BY Zenon, <1>2, <1>4

(* A fresh segment over an existing parent extends the one solution.       *)
LEMMA UpExtends ==
    ASSUME NEW segs, NEW f, OneUp(segs, f),
           NEW name, NEW parent \in DOMAIN segs \cup {Nil}, NEW items,
           name \notin DOMAIN segs, name # Nil, Nil \notin DOMAIN segs,
           \A s \in DOMAIN segs : segs[s].parent \in DOMAIN segs \cup {Nil},
           NEW more, more = With(segs, name, [parent |-> parent, items |-> items])
    PROVE  \E h : /\ OneUp(more, h)
                  /\ \A s \in DOMAIN segs \cup {Nil} : h[s] = f[s]
<1> DEFINE D == DOMAIN segs \cup {Nil}
           E == DOMAIN more \cup {Nil}
           h == [s \in E |-> IF s = name THEN {name} \cup f[parent] ELSE f[s]]
<1>1. /\ DOMAIN more = DOMAIN segs \cup {name} /\ more[name].parent = parent
      /\ \A s \in DOMAIN segs : more[s] = segs[s]
  BY Zenon DEF With
<1>2. f = [s \in D |-> IF s = Nil THEN {} ELSE {s} \cup f[segs[s].parent]]  BY Zenon DEF OneUp, UpOf
<1>3. f[Nil] = {} /\ \A s \in DOMAIN segs : f[s] = {s} \cup f[segs[s].parent]
  BY Zenon, <1>2
<1>4. \A s \in D : h[s] = f[s]  BY Zenon, <1>1
<1>5. h[name] = {name} \cup f[parent] /\ h[parent] = f[parent]  BY Zenon, <1>1
<1>6. \A s \in E : h[s] = IF s = Nil THEN {} ELSE {s} \cup h[more[s].parent]
  <2> HIDE DEF h
  <2> SUFFICES ASSUME NEW s \in E PROVE h[s] = IF s = Nil THEN {} ELSE {s} \cup h[more[s].parent]  BY Zenon
  <2>1. CASE s = Nil  BY Zenon, <1>3, <1>4, <2>1
  <2>2. CASE s = name  BY Zenon, <1>1, <1>5, <2>2
  <2>3. CASE s \in DOMAIN segs
    <3>1. segs[s].parent \in D /\ more[s] = segs[s] /\ s # Nil  BY Zenon, <1>1, <2>3
    <3> QED  BY ZenonT(60), <1>3, <1>4, <2>3, <3>1
  <2> QED  BY Zenon, <1>1, <2>1, <2>2, <2>3
<1>7. UpOf(more, h)
  <2>1. h = [s \in E |-> h[s]]  BY Zenon
  <2> HIDE DEF h, E
  <2>2. h = [s \in E |-> IF s = Nil THEN {} ELSE {s} \cup h[more[s].parent]]  BY <1>6, <2>1
  <2> QED  BY Zenon, <2>2 DEF UpOf, E
<1>8. ASSUME NEW g, UpOf(more, g) PROVE g = h
  <2>1. g = [s \in E |-> IF s = Nil THEN {} ELSE {s} \cup g[more[s].parent]]  BY Zenon, <1>8 DEF UpOf
  <2>2. \A s \in E : g[s] = IF s = Nil THEN {} ELSE {s} \cup g[more[s].parent]  BY Zenon, <2>1
  <2> DEFINE low == [s \in D |-> g[s]]
  <2>3. \A s \in D : low[s] = IF s = Nil THEN {} ELSE {s} \cup low[segs[s].parent]
    <3> SUFFICES ASSUME NEW s \in D PROVE low[s] = IF s = Nil THEN {} ELSE {s} \cup low[segs[s].parent]  BY Zenon
    <3>1. s \in E /\ low[s] = g[s]  BY Zenon, <1>1
    <3>2. CASE s = Nil  BY Zenon, <2>2, <3>1, <3>2
    <3>3. CASE s \in DOMAIN segs
      <4>1. segs[s].parent \in D /\ more[s] = segs[s] /\ s # Nil  BY Zenon, <1>1, <3>3
      <4>2. low[segs[s].parent] = g[segs[s].parent]  BY Zenon, <4>1
      <4> QED  BY Zenon, <2>2, <3>1, <4>1, <4>2
    <3> QED  BY Zenon, <3>2, <3>3
  <2>4. low = [s \in D |-> low[s]]  BY Zenon
  <2> HIDE DEF low
  <2>5. low = [s \in D |-> IF s = Nil THEN {} ELSE {s} \cup low[segs[s].parent]]  BY Zenon, <2>3, <2>4
  <2>6. low = f  BY Zenon, <2>5 DEF OneUp, UpOf
  <2>7. \A s \in D : g[s] = f[s]  BY Zenon, <2>6 DEF low
  <2>8. name \in E /\ g[name] = {name} \cup g[parent]  BY Zenon, <1>1, <2>2
  <2>9. \A s \in E : g[s] = h[s]  BY Zenon, <1>1, <1>4, <1>5, <2>7, <2>8
  <2>10. g = [s \in E |-> g[s]]  BY <2>1
  <2>11. h = [s \in E |-> h[s]]  BY Zenon
  <2> HIDE DEF h
  <2> QED  BY Zenon, <2>9, <2>10, <2>11
<1> HIDE DEF h
<1> QED  BY Zenon, <1>4, <1>7, <1>8 DEF OneUp

LEMMA ItemsExtend ==
    ASSUME NEW segs, NEW f, OneItems(segs, f),
           NEW name, NEW parent \in DOMAIN segs \cup {Nil}, NEW items,
           name \notin DOMAIN segs, name # Nil, Nil \notin DOMAIN segs,
           \A s \in DOMAIN segs : segs[s].parent \in DOMAIN segs \cup {Nil},
           NEW more, more = With(segs, name, [parent |-> parent, items |-> items])
    PROVE  \E h : /\ OneItems(more, h)
                  /\ \A s \in DOMAIN segs \cup {Nil} : h[s] = f[s]
<1> DEFINE D == DOMAIN segs \cup {Nil}
           E == DOMAIN more \cup {Nil}
           h == [s \in E |-> IF s = name THEN f[parent] \o items ELSE f[s]]
<1>1. /\ DOMAIN more = DOMAIN segs \cup {name} /\ more[name].parent = parent /\ more[name].items = items
      /\ \A s \in DOMAIN segs : more[s] = segs[s]
  BY Zenon DEF With
<1>2. f = [s \in D |-> IF s = Nil THEN <<>> ELSE f[segs[s].parent] \o segs[s].items]  BY Zenon DEF OneItems, ItemsOf
<1>3. f[Nil] = <<>> /\ \A s \in DOMAIN segs : f[s] = f[segs[s].parent] \o segs[s].items
  BY Zenon, <1>2
<1>4. \A s \in D : h[s] = f[s]  BY Zenon, <1>1
<1>5. h[name] = f[parent] \o items /\ h[parent] = f[parent]  BY Zenon, <1>1
<1>6. \A s \in E : h[s] = IF s = Nil THEN <<>> ELSE h[more[s].parent] \o more[s].items
  <2> HIDE DEF h
  <2> SUFFICES ASSUME NEW s \in E PROVE h[s] = IF s = Nil THEN <<>> ELSE h[more[s].parent] \o more[s].items  BY Zenon
  <2>1. CASE s = Nil  BY Zenon, <1>3, <1>4, <2>1
  <2>2. CASE s = name  BY Zenon, <1>1, <1>5, <2>2
  <2>3. CASE s \in DOMAIN segs
    <3>1. segs[s].parent \in D /\ more[s] = segs[s] /\ s # Nil  BY Zenon, <1>1, <2>3
    <3> QED  BY ZenonT(60), <1>3, <1>4, <2>3, <3>1
  <2> QED  BY Zenon, <1>1, <2>1, <2>2, <2>3
<1>7. ItemsOf(more, h)
  <2>1. h = [s \in E |-> h[s]]  BY Zenon
  <2> HIDE DEF h, E
  <2>2. h = [s \in E |-> IF s = Nil THEN <<>> ELSE h[more[s].parent] \o more[s].items]  BY Zenon, <1>6, <2>1
  <2> QED  BY Zenon, <2>2 DEF ItemsOf, E
<1>8. ASSUME NEW g, ItemsOf(more, g) PROVE g = h
  <2>1. g = [s \in E |-> IF s = Nil THEN <<>> ELSE g[more[s].parent] \o more[s].items]  BY Zenon, <1>8 DEF ItemsOf
  <2>2. \A s \in E : g[s] = IF s = Nil THEN <<>> ELSE g[more[s].parent] \o more[s].items  BY Zenon, <2>1
  <2> DEFINE low == [s \in D |-> g[s]]
  <2>3. \A s \in D : low[s] = IF s = Nil THEN <<>> ELSE low[segs[s].parent] \o segs[s].items
    <3> SUFFICES ASSUME NEW s \in D PROVE low[s] = IF s = Nil THEN <<>> ELSE low[segs[s].parent] \o segs[s].items  BY Zenon
    <3>1. s \in E /\ low[s] = g[s]  BY Zenon, <1>1
    <3>2. CASE s = Nil  BY Zenon, <2>2, <3>1, <3>2
    <3>3. CASE s \in DOMAIN segs
      <4>1. segs[s].parent \in D /\ more[s] = segs[s] /\ s # Nil  BY Zenon, <1>1, <3>3
      <4>2. low[segs[s].parent] = g[segs[s].parent]  BY Zenon, <4>1
      <4> QED  BY Zenon, <2>2, <3>1, <4>1, <4>2
    <3> QED  BY Zenon, <3>2, <3>3
  <2>4. low = [s \in D |-> low[s]]  BY Zenon
  <2> HIDE DEF low
  <2>5. low = [s \in D |-> IF s = Nil THEN <<>> ELSE low[segs[s].parent] \o segs[s].items]  BY Zenon, <2>3, <2>4
  <2>6. low = f  BY Zenon, <2>5 DEF OneItems, ItemsOf
  <2>7. \A s \in D : g[s] = f[s]  BY Zenon, <2>6 DEF low
  <2>8. name \in E /\ g[name] = g[parent] \o items  BY Zenon, <1>1, <2>2
  <2>9. \A s \in E : g[s] = h[s]  BY Zenon, <1>1, <1>4, <1>5, <2>7, <2>8
  <2>10. g = [s \in E |-> g[s]]  BY Zenon, <2>1
  <2>11. h = [s \in E |-> h[s]]  BY Zenon
  <2> HIDE DEF h
  <2> QED  BY Zenon, <2>9, <2>10, <2>11
<1> HIDE DEF h
<1> QED  BY Zenon, <1>4, <1>7, <1>8 DEF OneItems

(* What appendSegment returns over a forest: the forest, grown by the new  *)
(* segment unless there is nothing to append.                              *)
AppendedTo(segs, name, parent, items, a) ==
    /\ Grown(segs, a.segs, {name})
    /\ a.tail \in DOMAIN a.segs \cup {Nil}
    /\ items # <<>> => a.tail = name /\ name \in DOMAIN a.segs
    /\ items = <<>> => a.segs = segs /\ a.tail = parent
    /\ materializeItemsOf(a.segs, a.tail) = materializeItemsOf(segs, parent) \o items
    /\ Ancestors(segs, parent) \subseteq Ancestors(a.segs, a.tail)
    /\ Ancestors(a.segs, a.tail) \subseteq Ancestors(segs, parent) \cup {name}

LEMMA AppendGrows ==
    ASSUME NEW segs, Forest(segs), NEW name, name \notin DOMAIN segs, name # Nil,
           NEW parent \in DOMAIN segs \cup {Nil}, NEW items \in Seq(Items)
    PROVE  AppendedTo(segs, name, parent, items, appendSegment(segs, name, parent, items))
<1> DEFINE more == With(segs, name, [parent |-> parent, items |-> items])
<1>1. CASE items = <<>>
  <2>1. appendSegment(segs, name, parent, items) = [segs |-> segs, tail |-> parent]  BY Zenon, <1>1 DEF appendSegment
  <2>2. Grown(segs, segs, {name})  BY Zenon DEF Grown
  <2>3. materializeItemsOf(segs, parent) \in Seq(Items)  BY Zenon DEF Forest
  <2>4. materializeItemsOf(segs, parent) \o items = materializeItemsOf(segs, parent)
    BY Zenon, <1>1, <2>3, ConcatEmptySeq
  <2> QED  BY <1>1, <2>1, <2>2, <2>4 DEF AppendedTo
<1>2. CASE items # <<>>
  <2>1. appendSegment(segs, name, parent, items) = [segs |-> more, tail |-> name]
    BY Zenon, <1>2 DEF appendSegment, With
  <2>2. /\ DOMAIN more = DOMAIN segs \cup {name} /\ more[name] = [parent |-> parent, items |-> items]
        /\ \A s \in DOMAIN segs : more[s] = segs[s]
    BY Zenon DEF With
  <2>3. /\ Solved(segs) /\ Nil \notin DOMAIN segs
        /\ \A s \in DOMAIN segs : segs[s].parent \in DOMAIN segs \cup {Nil} /\ segs[s].items \in Seq(Items)
    BY Zenon DEF Forest
  <2>4. more = With(segs, name, [parent |-> parent, items |-> items])  BY Zenon
  <2> HIDE DEF more
  <2>5. PICK f : OneUp(segs, f)  BY Zenon, <2>3 DEF Solved
  <2>6. PICK h : /\ OneUp(more, h)
                 /\ \A s \in DOMAIN segs \cup {Nil} : h[s] = f[s]
    <3>1. \A s \in DOMAIN segs : segs[s].parent \in DOMAIN segs \cup {Nil}  BY Zenon, <2>3
    <3> QED  BY <2>3, <2>4, <2>5, <3>1, UpExtends
  <2>7. PICK m : OneItems(segs, m)  BY Zenon, <2>3 DEF Solved
  <2>8. PICK n : /\ OneItems(more, n)
                 /\ \A s \in DOMAIN segs \cup {Nil} : n[s] = m[s]
    <3>1. \A s \in DOMAIN segs : segs[s].parent \in DOMAIN segs \cup {Nil}  BY Zenon, <2>3
    <3> QED  BY <2>3, <2>4, <2>7, <3>1, ItemsExtend
  <2>9. Solved(more)  BY Zenon, <2>6, <2>8 DEF Solved
  <2>10. \A s \in DOMAIN segs \cup {Nil} : Ancestors(more, s) = Ancestors(segs, s)
    <3>1. \A s : Ancestors(segs, s) = f[s]  BY Zenon, <2>5 DEF Ancestors, OneUp, UpOf
    <3>2. \A s : Ancestors(more, s) = h[s]  BY Zenon, <2>6 DEF Ancestors, OneUp, UpOf
    <3> QED  BY Zenon, <2>6, <3>1, <3>2
  <2>11. \A s \in DOMAIN segs \cup {Nil} : materializeItemsOf(more, s) = materializeItemsOf(segs, s)
    <3>1. \A s : materializeItemsOf(segs, s) = m[s]  BY Zenon, <2>7 DEF materializeItemsOf, OneItems, ItemsOf
    <3>2. \A s : materializeItemsOf(more, s) = n[s]  BY Zenon, <2>8 DEF materializeItemsOf, OneItems, ItemsOf
    <3> QED  BY Zenon, <2>8, <3>1, <3>2
  <2>12. name \in DOMAIN more /\ more[name].parent = parent /\ more[name].items = items /\ Nil \notin DOMAIN more
    BY <2>2, <2>3
  <2>13. Ancestors(more, name) = {name} \cup Ancestors(segs, parent)
    <3>1. Ancestors(more, name) = {name} \cup Ancestors(more, more[name].parent)
      BY Zenon, <2>9, <2>12, AncestorsEquation
    <3>2. Ancestors(more, parent) = Ancestors(segs, parent)  BY Zenon, <2>10
    <3> QED  BY Zenon, <2>12, <3>1, <3>2
  <2>14. materializeItemsOf(more, name) = materializeItemsOf(segs, parent) \o items
    <3>1. materializeItemsOf(more, name) = materializeItemsOf(more, more[name].parent) \o more[name].items
      BY Zenon, <2>9, <2>12, MaterializeEquation
    <3>2. materializeItemsOf(more, parent) = materializeItemsOf(segs, parent)  BY Zenon, <2>11
    <3> QED  BY Zenon, <2>12, <3>1, <3>2
  <2>15. Forest(more)
    <3>1. \A s \in DOMAIN more : more[s].parent \in DOMAIN more \cup {Nil} /\ more[s].items \in Seq(Items)
      BY Zenon, <2>2, <2>3, <2>12
    <3>2. \A s \in DOMAIN segs \cup {Nil} :
             Ancestors(segs, s) \subseteq DOMAIN segs /\ materializeItemsOf(segs, s) \in Seq(Items)
      BY Zenon DEF Forest
    <3>3. materializeItemsOf(segs, parent) \o items \in Seq(Items)  BY Zenon, <3>2, ConcatProperties
    <3>4. Ancestors(more, name) \subseteq DOMAIN more /\ materializeItemsOf(more, name) \in Seq(Items)
      BY Zenon, <2>2, <2>13, <2>14, <3>2, <3>3
    <3>5. ASSUME NEW s \in DOMAIN more \cup {Nil}
          PROVE  Ancestors(more, s) \subseteq DOMAIN more /\ materializeItemsOf(more, s) \in Seq(Items)
      <4>1. CASE s = name  BY Zenon, <3>4, <4>1
      <4>2. CASE s \in DOMAIN segs \cup {Nil}  BY Zenon, <2>2, <2>10, <2>11, <3>2, <4>2
      <4> QED  BY Zenon, <2>2, <4>1, <4>2
    <3> QED  BY Zenon, <2>9, <2>12, <3>1, <3>5 DEF Forest
  <2>16. Grown(segs, more, {name})  BY Zenon, <2>2, <2>10, <2>11, <2>15 DEF Grown
  <2> QED  BY <1>2, <2>1, <2>12, <2>13, <2>14, <2>16 DEF AppendedTo
<1> QED  BY Zenon, <1>1, <1>2

LEMMA GrownAgain ==
    ASSUME NEW a, NEW b, NEW c, NEW m, NEW n, Grown(a, b, m), Grown(b, c, n)
    PROVE  Grown(a, c, m \cup n)
<1>1. /\ Forest(c)
      /\ DOMAIN a \subseteq DOMAIN b /\ DOMAIN b \subseteq DOMAIN a \cup m
      /\ DOMAIN b \subseteq DOMAIN c /\ DOMAIN c \subseteq DOMAIN b \cup n
  BY Zenon DEF Grown
<1>2. DOMAIN a \subseteq DOMAIN c /\ DOMAIN c \subseteq DOMAIN a \cup (m \cup n)  BY Zenon, <1>1
<1>3. \A s \in DOMAIN a \cup {Nil} :
         /\ Ancestors(c, s) = Ancestors(a, s)
         /\ materializeItemsOf(c, s) = materializeItemsOf(a, s)
  BY Zenon, <1>1 DEF Grown
<1> QED  BY Zenon, <1>1, <1>2, <1>3 DEF Grown

----------------------------------------------------------------------------
(* What items show.                                                        *)

LEMMA LeastOf ==
    ASSUME NEW T \in SUBSET Nat, T # {}
    PROVE  \E n \in T : \A m \in T : n <= m
<1> DEFINE R == {ss \in Nat \X Nat : ss[1] < ss[2]}
<1>1. IsWellFoundedOn(R, Nat)  BY Zenon, NatLessThanWellFounded DEF OpToRel
<1>2. PICK n \in T : \A m \in T : ~ (<<m, n>> \in R)  BY Zenon, <1>1, WFMin
<1>3. ASSUME NEW m \in T  PROVE n <= m
  <2>1. n \in Nat /\ m \in Nat  BY Zenon
  <2>2. m < n => <<m, n>> \in R  BY Zenon, <2>1
  <2> QED  BY <1>2, <2>1, <2>2
<1> QED  BY Zenon, <1>3

LEMMA ConcatAppend ==
    ASSUME NEW S, NEW p \in Seq(S), NEW r \in Seq(S), NEW x \in S
    PROVE  p \o r \in Seq(S) /\ p \o Append(r, x) = Append(p \o r, x)
<1>1. <<x>> \in Seq(S) /\ p \o r \in Seq(S)  BY ConcatProperties
<1>2. Append(r, x) = r \o <<x>> /\ Append(p \o r, x) = (p \o r) \o <<x>>  BY Zenon, <1>1, AppendIsConcat
<1>3. (p \o r) \o <<x>> = p \o (r \o <<x>>)  BY <1>1, ConcatAssociative
<1> QED  BY Zenon, <1>1, <1>2, <1>3

LEMMA MoreConcat ==
    ASSUME NEW C, NEW a \in Seq(C), NEW b \in Seq(C), NEW x, x.of \in C, NEW parts
    PROVE  a \o More(b, x, parts) = More(a \o b, x, parts)
<1>1. \A y \in C : a \o Append(b, y) = Append(a \o b, y)  BY ConcatAppend
<1> QED  BY Zenon, <1>1 DEF More

LEMMA ShownNothing ==
    ASSUME NEW parts
    PROVE  \E f : OneShown(<<>>, parts, f) /\ f[0] = <<>>
<1> DEFINE f == [n \in 0..0 |-> <<>>]
<1>1. Len(<<>>) = 0 /\ \A n \in 0..0 : n = 0  OBVIOUS
<1>2. ShownOf(<<>>, parts, f)  BY Zenon, <1>1 DEF ShownOf
<1>3. ASSUME NEW g, ShownOf(<<>>, parts, g) PROVE g = f  BY Zenon, <1>1, <1>3 DEF ShownOf
<1>4. f[0] = <<>>  OBVIOUS
<1> HIDE DEF f
<1> QED  BY Zenon, <1>2, <1>3, <1>4 DEF OneShown

(* One more item extends the one solution.                                 *)
LEMMA ShownExtends ==
    ASSUME NEW S, NEW s \in Seq(S), NEW x \in S, NEW parts, NEW f, OneShown(s, parts, f)
    PROVE  \E h : OneShown(Append(s, x), parts, h) /\ h[Len(s) + 1] = More(f[Len(s)], x, parts)
<1> DEFINE N == Len(s)
           t == Append(s, x)
           Up(g, n) == IF n = 0 THEN <<>> ELSE More(g[n - 1], t[n], parts)
           h == [n \in 0..N + 1 |-> IF n = N + 1 THEN More(f[N], x, parts) ELSE f[n]]
<1>1. N \in Nat /\ Len(t) = N + 1 /\ t[N + 1] = x /\ \A n \in 1..N : t[n] = s[n]  OBVIOUS
<1>2. f = [n \in 0..N |-> IF n = 0 THEN <<>> ELSE More(f[n - 1], s[n], parts)]
  BY Zenon DEF OneShown, ShownOf, More
<1>3. \A n \in 0..N : f[n] = Up(f, n)
  <2> SUFFICES ASSUME NEW n \in 0..N PROVE f[n] = Up(f, n)  BY Zenon
  <2>1. f[n] = IF n = 0 THEN <<>> ELSE More(f[n - 1], s[n], parts)  BY Zenon, <1>2
  <2> HIDE DEF t, N
  <2>2. n # 0 => n \in 1..N  BY <1>1
  <2> QED  BY Zenon, <1>1, <2>1, <2>2
<1>4. \A g : ShownOf(t, parts, g) <=> g = [n \in 0..N + 1 |-> Up(g, n)]
  BY Zenon, <1>1 DEF ShownOf, More
<1>5. \A g : (g = [n \in 0..N |-> Up(g, n)]) => g = f
  <2> SUFFICES ASSUME NEW g, g = [n \in 0..N |-> Up(g, n)] PROVE ShownOf(s, parts, g)
    BY Zenon DEF OneShown
  <2>1. \A n \in 0..N : Up(g, n) = IF n = 0 THEN <<>> ELSE More(g[n - 1], s[n], parts)
    <3> SUFFICES ASSUME NEW n \in 0..N PROVE Up(g, n) = IF n = 0 THEN <<>> ELSE More(g[n - 1], s[n], parts)
      BY Zenon
    <3> HIDE DEF t, N
    <3>1. n # 0 => n \in 1..N  BY <1>1
    <3> QED  BY Zenon, <1>1, <3>1
  <2> HIDE DEF Up, N
  <2>2. g = [n \in 0..N |-> IF n = 0 THEN <<>> ELSE More(g[n - 1], s[n], parts)]  BY Zenon, <2>1
  <2> QED  BY Zenon, <2>2 DEF ShownOf, More, N
<1> HIDE DEF N, t
<1>6. (\A n \in 0..N : h[n] = f[n]) /\ h[N + 1] = More(f[N], x, parts)  BY <1>1
<1>7. h = [n \in 0..N + 1 |-> Up(h, n)]
  <2>1. \A n \in 0..N + 1 : h[n] = Up(h, n)
    <3> HIDE DEF h
    <3> SUFFICES ASSUME NEW n \in 0..N + 1 PROVE h[n] = Up(h, n)  BY Zenon
    <3>1. CASE n = N + 1
      <4>1. n # 0 /\ n - 1 = N /\ N \in 0..N  BY <1>1, <3>1
      <4> QED  BY Zenon, <1>1, <1>6, <3>1, <4>1
    <3>2. CASE n \in 0..N
      <4>1. n # 0 => n - 1 \in 0..N  BY <1>1, <3>2
      <4> QED  BY Zenon, <1>3, <1>6, <3>2, <4>1
    <3> QED  BY <1>1, <3>1, <3>2
  <2>2. h = [n \in 0..N + 1 |-> h[n]]  BY Zenon
  <2> HIDE DEF h, Up
  <2> QED  BY Zenon, <2>1, <2>2
<1>8. ASSUME NEW g, g = [n \in 0..N + 1 |-> Up(g, n)] PROVE g = h
  <2> DEFINE low == [n \in 0..N |-> g[n]]
  <2>1. \A n \in 0..N + 1 : g[n] = Up(g, n)
    <3> HIDE DEF Up
    <3> QED  BY Zenon, <1>8
  <2>2. \A n \in 0..N : low[n] = Up(low, n)
    <3> SUFFICES ASSUME NEW n \in 0..N PROVE low[n] = Up(low, n)  BY Zenon
    <3>1. low[n] = g[n] /\ n \in 0..N + 1  BY <1>1
    <3>2. n # 0 => low[n - 1] = g[n - 1]  BY <1>1
    <3> HIDE DEF low
    <3> QED  BY Zenon, <2>1, <3>1, <3>2
  <2>3. low = [n \in 0..N |-> low[n]]  BY Zenon
  <2>4. low = f
    <3> HIDE DEF low, Up
    <3>1. low = [n \in 0..N |-> Up(low, n)]  BY Zenon, <2>2, <2>3
    <3> QED  BY Zenon, <1>5, <3>1
  <2>5. \A n \in 0..N : g[n] = f[n]  BY Zenon, <2>4
  <2>6. g[N + 1] = More(f[N], x, parts)
    <3>1. N + 1 \in 0..N + 1 /\ N + 1 # 0 /\ (N + 1) - 1 = N /\ N \in 0..N  BY <1>1
    <3>2. g[N + 1] = More(g[N], t[N + 1], parts)  BY Zenon, <2>1, <3>1
    <3> QED  BY Zenon, <1>1, <2>5, <3>1, <3>2
  <2>7. \A n \in 0..N + 1 : g[n] = h[n]
    <3> HIDE DEF h
    <3>1. \A n \in 0..N + 1 : n \in 0..N \/ n = N + 1  BY <1>1
    <3> QED  BY Zenon, <1>6, <2>5, <2>6, <3>1
  <2>8. g = [n \in 0..N + 1 |-> g[n]]
    <3> HIDE DEF Up
    <3> QED  BY Zenon, <1>8
  <2>9. h = [n \in 0..N + 1 |-> h[n]]  BY Zenon
  <2> HIDE DEF h
  <2> QED  BY Zenon, <2>7, <2>8, <2>9
<1> HIDE DEF h, Up
<1>9. OneShown(t, parts, h)  BY Zenon, <1>4, <1>7, <1>8 DEF OneShown
<1> QED  BY Zenon, <1>6, <1>9 DEF t, N

LEMMA ShownSolved ==
    ASSUME NEW S, NEW parts, NEW q \in Seq(S)
    PROVE  \E f : OneShown(q, parts, f)
<1> DEFINE Holds(n) == \A s \in Seq(S) : Len(s) = n => \E f : OneShown(s, parts, f)
           T == {n \in Nat : ~Holds(n)}
<1>1. T = {}
  <2> SUFFICES ASSUME T # {} PROVE FALSE  BY Zenon
  <2>1. PICK n \in T : \A m \in T : n <= m
    <3>1. T \in SUBSET Nat  BY Zenon
    <3> HIDE DEF T
    <3> QED  BY Zenon, <3>1, LeastOf
  <2>2. PICK s \in Seq(S) : Len(s) = n /\ ~ \E f : OneShown(s, parts, f)  BY Zenon, <2>1
  <2>3. s # <<>>  BY Zenon, <2>2, ShownNothing
  <2>4. PICK r \in Seq(S), x \in S : s = Append(r, x)  BY Zenon, <2>3, SequenceEmptyOrAppend
  <2>5. Len(r) \in Nat /\ Len(r) < n  BY <2>2, <2>4
  <2>6. Len(r) \notin T
    <3>1. n \in Nat  BY Zenon
    <3> HIDE DEF T
    <3> QED  BY <2>1, <2>5, <3>1
  <2>7. Holds(Len(r))  BY Zenon, <2>5, <2>6
  <2>8. PICK f : OneShown(r, parts, f)  BY Zenon, <2>7
  <2> QED  BY Zenon, <2>2, <2>4, <2>8, ShownExtends
<1>2. Len(q) \in Nat  OBVIOUS
<1>3. Holds(Len(q))  BY Zenon, <1>1, <1>2
<1> QED  BY Zenon, <1>3

LEMMA ShownIs ==
    ASSUME NEW s, NEW parts, NEW f, OneShown(s, parts, f)
    PROVE  Shown(s, parts) = f[Len(s)]
BY Zenon DEF Shown, OneShown, ShownOf

LEMMA ShownEmpty ==
    ASSUME NEW parts
    PROVE  Shown(<<>>, parts) = <<>>
<1>1. PICK f : OneShown(<<>>, parts, f) /\ f[0] = <<>>  BY Zenon, ShownNothing
<1>2. Len(<<>>) = 0  BY Zenon
<1> QED  BY Zenon, <1>1, <1>2, ShownIs

LEMMA ShownAppend ==
    ASSUME NEW parts, NEW S, NEW s \in Seq(S), NEW x \in S
    PROVE  Shown(Append(s, x), parts) = More(Shown(s, parts), x, parts)
<1>1. PICK f : OneShown(s, parts, f)  BY Zenon, ShownSolved
<1>2. PICK h : OneShown(Append(s, x), parts, h) /\ h[Len(s) + 1] = More(f[Len(s)], x, parts)
  BY Zenon, <1>1, ShownExtends
<1>3. Len(Append(s, x)) = Len(s) + 1  OBVIOUS
<1> QED  BY Zenon, <1>1, <1>2, <1>3, ShownIs

(* What items show is made of contributions, and concatenates.             *)
LEMMA ShownType ==
    ASSUME NEW parts, NEW q \in Seq(Items)
    PROVE  Shown(q, parts) \in Seq(Contribution)
<1> DEFINE Holds(n) == \A s \in Seq(Items) : Len(s) = n => Shown(s, parts) \in Seq(Contribution)
           T == {n \in Nat : ~Holds(n)}
<1>1. T = {}
  <2> SUFFICES ASSUME T # {} PROVE FALSE  BY Zenon
  <2>1. PICK n \in T : \A m \in T : n <= m
    <3>1. T \in SUBSET Nat  BY Zenon
    <3> HIDE DEF T
    <3> QED  BY Zenon, <3>1, LeastOf
  <2>2. PICK s \in Seq(Items) : Len(s) = n /\ Shown(s, parts) \notin Seq(Contribution)  BY Zenon, <2>1
  <2>3. s # <<>>
    <3>1. <<>> \in Seq(Contribution)  OBVIOUS
    <3> QED  BY Zenon, <2>2, <3>1, ShownEmpty
  <2>4. PICK r \in Seq(Items), x \in Items : s = Append(r, x)  BY Zenon, <2>3, SequenceEmptyOrAppend
  <2>5. Len(r) \in Nat /\ Len(r) < n  BY <2>2, <2>4
  <2>6. Len(r) \notin T
    <3>1. n \in Nat  BY Zenon
    <3> HIDE DEF T
    <3> QED  BY <2>1, <2>5, <3>1
  <2>7. Shown(r, parts) \in Seq(Contribution)  BY Zenon, <2>5, <2>6
  <2>8. x.of \in Contribution  BY Zenon DEF Items, Contribution
  <2>9. Shown(s, parts) = More(Shown(r, parts), x, parts)  BY Zenon, <2>4, ShownAppend
  <2>10. More(Shown(r, parts), x, parts) \in Seq(Contribution)  BY Zenon, <2>7, <2>8, AppendProperties DEF More
  <2> QED  BY Zenon, <2>2, <2>9, <2>10
<1>2. Len(q) \in Nat  OBVIOUS
<1>3. Holds(Len(q))  BY Zenon, <1>1, <1>2
<1> QED  BY Zenon, <1>3

LEMMA ShownConcat ==
    ASSUME NEW parts, NEW p \in Seq(Items), NEW q \in Seq(Items)
    PROVE  Shown(p \o q, parts) = Shown(p, parts) \o Shown(q, parts)
<1> DEFINE Holds(n) == \A s \in Seq(Items) : Len(s) = n => Shown(p \o s, parts) = Shown(p, parts) \o Shown(s, parts)
           T == {n \in Nat : ~Holds(n)}
<1>0. Shown(p, parts) \in Seq(Contribution)  BY Zenon, ShownType
<1>1. T = {}
  <2> SUFFICES ASSUME T # {} PROVE FALSE  BY Zenon
  <2>1. PICK n \in T : \A m \in T : n <= m
    <3>1. T \in SUBSET Nat  BY Zenon
    <3> HIDE DEF T
    <3> QED  BY Zenon, <3>1, LeastOf
  <2>2. PICK s \in Seq(Items) : Len(s) = n /\ Shown(p \o s, parts) # Shown(p, parts) \o Shown(s, parts)
    BY Zenon, <2>1
  <2>3. s # <<>>
    <3>1. p \o <<>> = p /\ Shown(p, parts) \o <<>> = Shown(p, parts)  BY Zenon, <1>0, ConcatEmptySeq
    <3>2. Shown(<<>>, parts) = <<>>  BY Zenon, ShownEmpty
    <3> QED  BY Zenon, <2>2, <3>1, <3>2
  <2>4. PICK r \in Seq(Items), x \in Items : s = Append(r, x)  BY Zenon, <2>3, SequenceEmptyOrAppend
  <2>5. Len(r) \in Nat /\ Len(r) < n  BY <2>2, <2>4
  <2>6. Len(r) \notin T
    <3>1. n \in Nat  BY Zenon
    <3> HIDE DEF T
    <3> QED  BY <2>1, <2>5, <3>1
  <2>7. Shown(p \o r, parts) = Shown(p, parts) \o Shown(r, parts)  BY Zenon, <2>5, <2>6
  <2>8. p \o r \in Seq(Items) /\ p \o Append(r, x) = Append(p \o r, x)  BY SMTT(60), ConcatAppend
  <2>9. x.of \in Contribution  BY Zenon DEF Items, Contribution
  <2>10. Shown(s, parts) = More(Shown(r, parts), x, parts)  BY Zenon, <2>4, ShownAppend
  <2>11. Shown(p \o s, parts) = More(Shown(p \o r, parts), x, parts)  BY Zenon, <2>4, <2>8, ShownAppend
  <2>12. Shown(r, parts) \in Seq(Contribution)  BY Zenon, ShownType
  <2>13. Shown(p, parts) \o More(Shown(r, parts), x, parts) = More(Shown(p, parts) \o Shown(r, parts), x, parts)
    BY SMTT(60), <1>0, <2>9, <2>12, MoreConcat
  <2> QED  BY <2>2, <2>7, <2>10, <2>11, <2>13
<1>2. Len(q) \in Nat  OBVIOUS
<1>3. Holds(Len(q))  BY Zenon, <1>1, <1>2
<1> QED  BY Zenon, <1>3

----------------------------------------------------------------------------
(* Resent histories.                                                       *)

LEMMA ItemType ==
    ASSUME NEW c \in Contribution, NEW part \in {"whole", "head", "tail", "private"}
    PROVE  Item(c, part) \in Items /\ Item(c, part).of = c /\ Item(c, part).part = part
BY Zenon DEF Item, Items, Contribution

LEMMA TurnType ==
    ASSUME NEW t \in Turn
    PROVE  t.request \in Request /\ t.response \in Response /\ t.request \in Contribution /\ t.response \in Contribution
BY Zenon DEF Turn, Contribution

LEMMA ContributionsType ==
    ASSUME NEW h \in Seq(Turn)
    PROVE  Contributions(h) \in Seq(Contribution) /\ Len(Contributions(h)) = 2 * Len(h)
<1> DEFINE n == Len(h)
           c == Contributions(h)
<1>1. n \in Nat /\ \A i \in 1..n : h[i] \in Turn  OBVIOUS
<1>2. c = [i \in 1..(2 * n) |-> IF i % 2 = 1 THEN h[(i + 1) \div 2].request ELSE h[i \div 2].response]
  BY Zenon DEF Contributions
<1> HIDE DEF n, c
<1>3. ASSUME NEW i \in 1..(2 * n) PROVE c[i] \in Contribution
  <2>1. c[i] = IF i % 2 = 1 THEN h[(i + 1) \div 2].request ELSE h[i \div 2].response  BY Zenon, <1>2
  <2>2. CASE i % 2 = 1
    <3>1. (i + 1) \div 2 \in 1..n  BY <1>1, <2>2
    <3> QED  BY Zenon, <1>1, <2>1, <2>2, <3>1, TurnType
  <2>3. CASE i % 2 # 1
    <3>1. i \div 2 \in 1..n  BY <1>1, <2>3
    <3> QED  BY <1>1, <2>1, <2>3, <3>1, TurnType
  <2> QED  BY Zenon, <2>2, <2>3
<1>4. 2 * n \in Nat  BY <1>1
<1>5. c \in [1..(2 * n) -> Contribution]
  <2>1. c = [i \in 1..(2 * n) |-> c[i]]  BY Zenon, <1>2
  <2> QED  BY Zenon, <1>3, <2>1
<1>6. c \in Seq(Contribution) /\ Len(c) = 2 * n  BY <1>4, <1>5
<1> QED  BY Zenon, <1>6 DEF c, n

(* Appending twice and three times.                                        *)
LEMMA Append2 ==
    ASSUME NEW S, NEW s \in Seq(S), NEW x \in S, NEW y \in S
    PROVE  LET d == Append(Append(s, x), y)
           IN  /\ d \in Seq(S) /\ Len(d) = Len(s) + 2
               /\ d[Len(s) + 1] = x /\ d[Len(s) + 2] = y /\ \A i \in 1..Len(s) : d[i] = s[i]
<1> DEFINE a == Append(s, x)
<1>1. Len(s) \in Nat  OBVIOUS
<1>2. a \in Seq(S) /\ Len(a) = Len(s) + 1 /\ a[Len(s) + 1] = x /\ \A i \in 1..Len(s) : a[i] = s[i]
  BY AppendProperties
<1> HIDE DEF a
<1>3. /\ Append(a, y) \in Seq(S) /\ Len(Append(a, y)) = Len(a) + 1 /\ Append(a, y)[Len(a) + 1] = y
      /\ \A i \in 1..Len(a) : Append(a, y)[i] = a[i]
  BY <1>2, AppendProperties
<1>4. Append(a, y)[Len(s) + 1] = x /\ \A i \in 1..Len(s) : Append(a, y)[i] = s[i]  BY <1>1, <1>2, <1>3
<1>5. (Len(s) + 1) + 1 = Len(s) + 2  BY <1>1
<1> QED  BY <1>1, <1>2, <1>3, <1>4, <1>5 DEF a

LEMMA Append3 ==
    ASSUME NEW S, NEW s \in Seq(S), NEW x \in S, NEW y \in S, NEW z \in S
    PROVE  LET d == Append(Append(Append(s, x), y), z)
           IN  /\ d \in Seq(S) /\ Len(d) = Len(s) + 3
               /\ d[Len(s) + 1] = x /\ d[Len(s) + 2] = y /\ d[Len(s) + 3] = z
               /\ \A i \in 1..Len(s) : d[i] = s[i]
<1> DEFINE a == Append(Append(s, x), y)
<1>1. Len(s) \in Nat  OBVIOUS
<1>2. /\ a \in Seq(S) /\ Len(a) = Len(s) + 2
      /\ a[Len(s) + 1] = x /\ a[Len(s) + 2] = y /\ \A i \in 1..Len(s) : a[i] = s[i]
  BY Append2
<1> HIDE DEF a
<1>3. /\ Append(a, z) \in Seq(S) /\ Len(Append(a, z)) = Len(a) + 1 /\ Append(a, z)[Len(a) + 1] = z
      /\ \A i \in 1..Len(a) : Append(a, z)[i] = a[i]
  BY <1>2, AppendProperties
<1>4. /\ Append(a, z)[Len(s) + 1] = x /\ Append(a, z)[Len(s) + 2] = y
      /\ \A i \in 1..Len(s) : Append(a, z)[i] = s[i]
  BY <1>1, <1>2, <1>3
<1>5. (Len(s) + 2) + 1 = Len(s) + 3  BY <1>1
<1> QED  BY <1>1, <1>2, <1>3, <1>4, <1>5 DEF a

LEMMA ContributionsAppend ==
    ASSUME NEW h \in Seq(Turn), NEW t \in Turn
    PROVE  Contributions(Append(h, t)) = Append(Append(Contributions(h), t.request), t.response)
<1> DEFINE n == Len(h)
           g == Append(h, t)
           c == Contributions(h)
           d == Contributions(g)
           e == Append(Append(c, t.request), t.response)
<1>1. n \in Nat /\ g \in Seq(Turn) /\ Len(g) = n + 1 /\ g[n + 1] = t /\ \A i \in 1..n : g[i] = h[i]  OBVIOUS
<1>2. c = [i \in 1..(2 * n) |-> IF i % 2 = 1 THEN h[(i + 1) \div 2].request ELSE h[i \div 2].response]
  BY Zenon DEF Contributions
<1>3. d = [i \in 1..(2 * Len(g)) |-> IF i % 2 = 1 THEN g[(i + 1) \div 2].request ELSE g[i \div 2].response]
  BY Zenon DEF Contributions
<1>4. t.request \in Contribution /\ t.response \in Contribution  BY Zenon, TurnType
<1>5. /\ c \in Seq(Contribution) /\ Len(c) = 2 * n
      /\ d \in Seq(Contribution) /\ Len(d) = 2 * Len(g)
  BY Zenon, <1>1, ContributionsType
<1> HIDE DEF n, g, c, d
<1>6. /\ e \in Seq(Contribution) /\ Len(e) = 2 * n + 2
      /\ e[2 * n + 1] = t.request /\ e[2 * n + 2] = t.response /\ \A i \in 1..(2 * n) : e[i] = c[i]
  <2>1. /\ e \in Seq(Contribution) /\ Len(e) = Len(c) + 2
        /\ e[Len(c) + 1] = t.request /\ e[Len(c) + 2] = t.response /\ \A i \in 1..Len(c) : e[i] = c[i]
    BY <1>4, <1>5, Append2
  <2> QED  BY Zenon, <1>5, <2>1
<1> HIDE DEF e
<1>7. Len(d) = 2 * n + 2  BY <1>1, <1>5
<1>8. ASSUME NEW i \in 1..(2 * n + 2) PROVE d[i] = e[i]
  <2>1. d[i] = IF i % 2 = 1 THEN g[(i + 1) \div 2].request ELSE g[i \div 2].response  BY <1>1, <1>3
  <2>2. CASE i <= 2 * n
    <3>1. c[i] = IF i % 2 = 1 THEN h[(i + 1) \div 2].request ELSE h[i \div 2].response  BY <1>1, <1>2, <2>2
    <3>2. (i % 2 = 1 => (i + 1) \div 2 \in 1..n) /\ (i % 2 # 1 => i \div 2 \in 1..n)  BY <1>1, <2>2
    <3>3. c[i] = d[i]  BY Zenon, <1>1, <2>1, <3>1, <3>2
    <3>4. i \in 1..(2 * n)  BY <1>1, <2>2
    <3> QED  BY Zenon, <1>6, <3>3, <3>4
  <2>3. CASE i = 2 * n + 1
    <3>1. i % 2 = 1 /\ (i + 1) \div 2 = n + 1  BY <1>1, <2>3
    <3> QED  BY Zenon, <1>1, <1>6, <2>1, <2>3, <3>1
  <2>4. CASE i = 2 * n + 2
    <3>1. i % 2 # 1 /\ i \div 2 = n + 1  BY <1>1, <2>4
    <3> QED  BY Zenon, <1>1, <1>6, <2>1, <2>4, <3>1
  <2>5. i <= 2 * n \/ i = 2 * n + 1 \/ i = 2 * n + 2  BY <1>1
  <2> QED  BY Zenon, <2>2, <2>3, <2>4, <2>5
<1>9. d = e  BY Zenon, <1>5, <1>6, <1>7, <1>8, SeqEqual
<1> QED  BY Zenon, <1>9 DEF d, c, e, g

(* A resent history, item by item: two items a turn, or three.             *)
Whole(h, r) ==
    /\ r \in Seq(Items) /\ Len(r) = 2 * Len(h)
    /\ \A i \in 1..(2 * Len(h)) :
          r[i] = IF (i - 1) % 2 = 1 THEN Item(h[((i - 1) \div 2) + 1].response, "whole")
                 ELSE Item(h[((i - 1) \div 2) + 1].request, "whole")

Halved(h, r) ==
    /\ r \in Seq(Items) /\ Len(r) = 3 * Len(h)
    /\ \A i \in 1..(3 * Len(h)) :
          r[i] = IF (i - 1) % 3 = 2 THEN Item(h[((i - 1) \div 3) + 1].response, "whole")
                 ELSE Item(h[((i - 1) \div 3) + 1].request, IF (i - 1) % 3 = 0 THEN "head" ELSE "tail")

LEMMA RepresentWhole ==
    ASSUME NEW h \in Seq(Turn)
    PROVE  Whole(h, Represent(h, FALSE))
<1> DEFINE n == Len(h)
           r == Represent(h, FALSE)
<1>1. n \in Nat /\ \A i \in 1..n : h[i] \in Turn  OBVIOUS
<1>2. r = [i \in 1..(2 * n) |->
              IF (i - 1) % 2 = 1 THEN Item(h[((i - 1) \div 2) + 1].response, "whole")
              ELSE Item(h[((i - 1) \div 2) + 1].request, "whole")]
  BY DEF Represent
<1> HIDE DEF n, r
<1>3. ASSUME NEW i \in 1..(2 * n) PROVE r[i] \in Items
  <2>1. ((i - 1) \div 2) + 1 \in 1..n  BY <1>1
  <2>2. PICK t \in Turn : t = h[((i - 1) \div 2) + 1]  BY Zenon, <1>1, <2>1
  <2>3. r[i] = IF (i - 1) % 2 = 1 THEN Item(t.response, "whole") ELSE Item(t.request, "whole")  BY Zenon, <1>2, <2>2
  <2> QED  BY <2>3, TurnType, ItemType
<1>4. r \in [1..(2 * n) -> Items]
  <2>1. r = [i \in 1..(2 * n) |-> r[i]]  BY Zenon, <1>2
  <2> QED  BY Zenon, <1>3, <2>1
<1>5. 2 * n \in Nat  BY <1>1
<1>6. r \in Seq(Items) /\ Len(r) = 2 * n  BY <1>4, <1>5
<1>7. \A i \in 1..(2 * n) : r[i] =
         IF (i - 1) % 2 = 1 THEN Item(h[((i - 1) \div 2) + 1].response, "whole")
         ELSE Item(h[((i - 1) \div 2) + 1].request, "whole")
  BY Zenon, <1>2
<1> QED  BY Zenon, <1>6, <1>7 DEF Whole, r, n

LEMMA RepresentHalved ==
    ASSUME NEW h \in Seq(Turn)
    PROVE  Halved(h, Represent(h, TRUE))
<1> DEFINE n == Len(h)
           r == Represent(h, TRUE)
<1>1. n \in Nat /\ \A i \in 1..n : h[i] \in Turn  OBVIOUS
<1>2. r = [i \in 1..(3 * n) |->
              IF (i - 1) % 3 = 2 THEN Item(h[((i - 1) \div 3) + 1].response, "whole")
              ELSE Item(h[((i - 1) \div 3) + 1].request, IF (i - 1) % 3 = 0 THEN "head" ELSE "tail")]
  BY DEF Represent
<1> HIDE DEF n, r
<1>3. ASSUME NEW i \in 1..(3 * n) PROVE r[i] \in Items
  <2>1. ((i - 1) \div 3) + 1 \in 1..n  BY <1>1
  <2>2. PICK t \in Turn : t = h[((i - 1) \div 3) + 1]  BY Zenon, <1>1, <2>1
  <2>3. r[i] = IF (i - 1) % 3 = 2 THEN Item(t.response, "whole")
               ELSE Item(t.request, IF (i - 1) % 3 = 0 THEN "head" ELSE "tail")
    BY Zenon, <1>2, <2>2
  <2> QED  BY <2>3, TurnType, ItemType
<1>4. r \in [1..(3 * n) -> Items]
  <2>1. r = [i \in 1..(3 * n) |-> r[i]]  BY Zenon, <1>2
  <2> QED  BY Zenon, <1>3, <2>1
<1>5. 3 * n \in Nat  BY <1>1
<1>6. r \in Seq(Items) /\ Len(r) = 3 * n  BY <1>4, <1>5
<1>7. \A i \in 1..(3 * n) : r[i] =
         IF (i - 1) % 3 = 2 THEN Item(h[((i - 1) \div 3) + 1].response, "whole")
         ELSE Item(h[((i - 1) \div 3) + 1].request, IF (i - 1) % 3 = 0 THEN "head" ELSE "tail")
  BY Zenon, <1>2
<1> QED  BY Zenon, <1>6, <1>7 DEF Halved, r, n

(* One more turn adds its request and its response at the end.             *)
LEMMA WholeAppend ==
    ASSUME NEW h \in Seq(Turn), NEW t \in Turn, NEW r, Whole(h, r), NEW d, Whole(Append(h, t), d)
    PROVE  d = Append(Append(r, Item(t.request, "whole")), Item(t.response, "whole"))
<1> DEFINE n == Len(h)
           g == Append(h, t)
           e == Append(Append(r, Item(t.request, "whole")), Item(t.response, "whole"))
<1>1. n \in Nat /\ g \in Seq(Turn) /\ Len(g) = n + 1 /\ g[n + 1] = t /\ \A i \in 1..n : g[i] = h[i]  OBVIOUS
<1>2. r \in Seq(Items) /\ Len(r) = 2 * n  BY Zenon DEF Whole
<1>3. ASSUME NEW i \in 1..(2 * n)
      PROVE  r[i] = IF (i - 1) % 2 = 1 THEN Item(h[((i - 1) \div 2) + 1].response, "whole")
                    ELSE Item(h[((i - 1) \div 2) + 1].request, "whole")
  BY Zenon, <1>3 DEF Whole
<1>4. d \in Seq(Items) /\ Len(d) = 2 * Len(g)  BY Zenon DEF Whole
<1>5. ASSUME NEW i \in 1..(2 * Len(g))
      PROVE  d[i] = IF (i - 1) % 2 = 1 THEN Item(g[((i - 1) \div 2) + 1].response, "whole")
                    ELSE Item(g[((i - 1) \div 2) + 1].request, "whole")
  BY Zenon, <1>5 DEF Whole
<1>6. Item(t.request, "whole") \in Items /\ Item(t.response, "whole") \in Items  BY Zenon, TurnType, ItemType
<1> HIDE DEF n, g
<1>7. /\ e \in Seq(Items) /\ Len(e) = 2 * n + 2
      /\ e[2 * n + 1] = Item(t.request, "whole") /\ e[2 * n + 2] = Item(t.response, "whole")
      /\ \A i \in 1..(2 * n) : e[i] = r[i]
  <2>1. /\ e \in Seq(Items) /\ Len(e) = Len(r) + 2
        /\ e[Len(r) + 1] = Item(t.request, "whole") /\ e[Len(r) + 2] = Item(t.response, "whole")
        /\ \A i \in 1..Len(r) : e[i] = r[i]
    BY <1>2, <1>6, Append2
  <2> QED  BY Zenon, <1>2, <2>1
<1> HIDE DEF e
<1>8. Len(d) = 2 * n + 2  BY <1>1, <1>4
<1>9. ASSUME NEW i \in 1..(2 * n + 2) PROVE d[i] = e[i]
  <2>0. i \in 1..(2 * Len(g))  BY <1>1
  <2>1. d[i] = IF (i - 1) % 2 = 1 THEN Item(g[((i - 1) \div 2) + 1].response, "whole")
               ELSE Item(g[((i - 1) \div 2) + 1].request, "whole")
    BY Zenon, <1>5, <2>0
  <2>2. CASE i <= 2 * n
    <3>1. i \in 1..(2 * n)  BY <1>1, <2>2
    <3>2. ((i - 1) \div 2) + 1 \in 1..n  BY <1>1, <3>1
    <3>3. g[((i - 1) \div 2) + 1] = h[((i - 1) \div 2) + 1]  BY Zenon, <1>1, <3>2
    <3>4. r[i] = d[i]  BY Zenon, <1>3, <2>1, <3>1, <3>3
    <3> QED  BY Zenon, <1>7, <3>1, <3>4
  <2>3. CASE i = 2 * n + 1
    <3>1. (i - 1) % 2 # 1 /\ ((i - 1) \div 2) + 1 = n + 1  BY <1>1, <2>3
    <3> QED  BY Zenon, <1>1, <1>7, <2>1, <2>3, <3>1
  <2>4. CASE i = 2 * n + 2
    <3>1. (i - 1) % 2 = 1 /\ ((i - 1) \div 2) + 1 = n + 1  BY <1>1, <2>4
    <3> QED  BY Zenon, <1>1, <1>7, <2>1, <2>4, <3>1
  <2>5. i <= 2 * n \/ i = 2 * n + 1 \/ i = 2 * n + 2  BY <1>1
  <2> QED  BY Zenon, <2>2, <2>3, <2>4, <2>5
<1>10. d = e  BY Zenon, <1>4, <1>7, <1>8, <1>9, SeqEqual
<1> QED  BY Zenon, <1>10 DEF e

LEMMA HalvedAppend ==
    ASSUME NEW h \in Seq(Turn), NEW t \in Turn, NEW r, Halved(h, r), NEW d, Halved(Append(h, t), d)
    PROVE  d = Append(Append(Append(r, Item(t.request, "head")), Item(t.request, "tail")),
                      Item(t.response, "whole"))
<1> DEFINE n == Len(h)
           g == Append(h, t)
           e == Append(Append(Append(r, Item(t.request, "head")), Item(t.request, "tail")),
                       Item(t.response, "whole"))
<1>1. n \in Nat /\ g \in Seq(Turn) /\ Len(g) = n + 1 /\ g[n + 1] = t /\ \A i \in 1..n : g[i] = h[i]  OBVIOUS
<1>2. r \in Seq(Items) /\ Len(r) = 3 * n  BY Zenon DEF Halved
<1>3. ASSUME NEW i \in 1..(3 * n)
      PROVE  r[i] = IF (i - 1) % 3 = 2 THEN Item(h[((i - 1) \div 3) + 1].response, "whole")
                    ELSE Item(h[((i - 1) \div 3) + 1].request, IF (i - 1) % 3 = 0 THEN "head" ELSE "tail")
  BY Zenon, <1>3 DEF Halved
<1>4. d \in Seq(Items) /\ Len(d) = 3 * Len(g)  BY Zenon DEF Halved
<1>5. ASSUME NEW i \in 1..(3 * Len(g))
      PROVE  d[i] = IF (i - 1) % 3 = 2 THEN Item(g[((i - 1) \div 3) + 1].response, "whole")
                    ELSE Item(g[((i - 1) \div 3) + 1].request, IF (i - 1) % 3 = 0 THEN "head" ELSE "tail")
  BY Zenon, <1>5 DEF Halved
<1>6. /\ Item(t.request, "head") \in Items /\ Item(t.request, "tail") \in Items
      /\ Item(t.response, "whole") \in Items
  BY Zenon, TurnType, ItemType
<1> HIDE DEF n, g
<1>7. /\ e \in Seq(Items) /\ Len(e) = 3 * n + 3
      /\ e[3 * n + 1] = Item(t.request, "head") /\ e[3 * n + 2] = Item(t.request, "tail")
      /\ e[3 * n + 3] = Item(t.response, "whole")
      /\ \A i \in 1..(3 * n) : e[i] = r[i]
  <2>1. /\ e \in Seq(Items) /\ Len(e) = Len(r) + 3
        /\ e[Len(r) + 1] = Item(t.request, "head") /\ e[Len(r) + 2] = Item(t.request, "tail")
        /\ e[Len(r) + 3] = Item(t.response, "whole")
        /\ \A i \in 1..Len(r) : e[i] = r[i]
    BY <1>2, <1>6, Append3
  <2> QED  BY Zenon, <1>2, <2>1
<1> HIDE DEF e
<1>8. Len(d) = 3 * n + 3  BY <1>1, <1>4
<1>9. ASSUME NEW i \in 1..(3 * n + 3) PROVE d[i] = e[i]
  <2>0. i \in 1..(3 * Len(g))  BY <1>1
  <2>1. d[i] = IF (i - 1) % 3 = 2 THEN Item(g[((i - 1) \div 3) + 1].response, "whole")
               ELSE Item(g[((i - 1) \div 3) + 1].request, IF (i - 1) % 3 = 0 THEN "head" ELSE "tail")
    BY Zenon, <1>5, <2>0
  <2>2. CASE i <= 3 * n
    <3>1. i \in 1..(3 * n)  BY <1>1, <2>2
    <3>2. ((i - 1) \div 3) + 1 \in 1..n  BY <1>1, <3>1
    <3>3. g[((i - 1) \div 3) + 1] = h[((i - 1) \div 3) + 1]  BY Zenon, <1>1, <3>2
    <3>4. r[i] = d[i]  BY Zenon, <1>3, <2>1, <3>1, <3>3
    <3> QED  BY Zenon, <1>7, <3>1, <3>4
  <2>3. CASE i = 3 * n + 1
    <3>1. (i - 1) % 3 # 2 /\ (i - 1) % 3 = 0 /\ ((i - 1) \div 3) + 1 = n + 1  BY <1>1, <2>3
    <3> QED  BY Zenon, <1>1, <1>7, <2>1, <2>3, <3>1
  <2>4. CASE i = 3 * n + 2
    <3>1. (i - 1) % 3 # 2 /\ (i - 1) % 3 # 0 /\ ((i - 1) \div 3) + 1 = n + 1  BY <1>1, <2>4
    <3> QED  BY Zenon, <1>1, <1>7, <2>1, <2>4, <3>1
  <2>5. CASE i = 3 * n + 3
    <3>1. (i - 1) % 3 = 2 /\ ((i - 1) \div 3) + 1 = n + 1  BY <1>1, <2>5
    <3> QED  BY Zenon, <1>1, <1>7, <2>1, <2>5, <3>1
  <2>6. i <= 3 * n \/ i = 3 * n + 1 \/ i = 3 * n + 2 \/ i = 3 * n + 3  BY <1>1
  <2> QED  BY Zenon, <2>2, <2>3, <2>4, <2>5, <2>6
<1>10. d = e  BY Zenon, <1>4, <1>7, <1>8, <1>9, SeqEqual
<1> QED  BY Zenon, <1>10 DEF e

(* What one more item lets the client see, or keeps from it.               *)
LEMMA ItemShows ==
    ASSUME NEW s \in Seq(Items), NEW c \in Contribution
    PROVE  /\ Seen(Append(s, Item(c, "whole"))) = Append(Seen(s), c)
           /\ Private(Append(s, Item(c, "whole"))) = Private(s)
           /\ Seen(Append(s, Item(c, "head"))) = Append(Seen(s), c)
           /\ Private(Append(s, Item(c, "head"))) = Private(s)
           /\ Seen(Append(s, Item(c, "tail"))) = Seen(s)
           /\ Private(Append(s, Item(c, "tail"))) = Private(s)
           /\ Seen(Append(s, Item(c, "private"))) = Seen(s)
           /\ Private(Append(s, Item(c, "private"))) = Append(Private(s), c)
<1>1. ASSUME NEW part \in {"whole", "head", "tail", "private"}
      PROVE  /\ Seen(Append(s, Item(c, part))) = More(Seen(s), Item(c, part), {"whole", "head"})
             /\ Private(Append(s, Item(c, part))) = More(Private(s), Item(c, part), {"private"})
  <2>1. Item(c, part) \in Items  BY Zenon, ItemType
  <2> QED  BY Zenon, <2>1, ShownAppend DEF Seen, Private
<1>2. ASSUME NEW q, NEW part \in {"whole", "head", "tail", "private"}, NEW parts
      PROVE  More(q, Item(c, part), parts) = IF part \in parts THEN Append(q, c) ELSE q
  BY Zenon, ItemType DEF More
<1>3. /\ "whole" \in {"whole", "head"} /\ "head" \in {"whole", "head"}
      /\ "tail" \notin {"whole", "head"} /\ "private" \notin {"whole", "head"}
      /\ "whole" \notin {"private"} /\ "head" \notin {"private"}
      /\ "tail" \notin {"private"} /\ "private" \in {"private"}
  BY Zenon
<1>4. CASE TRUE
  <2>1. Seen(Append(s, Item(c, "whole"))) = Append(Seen(s), c)  BY Zenon, <1>1, <1>2, <1>3
  <2>2. Private(Append(s, Item(c, "whole"))) = Private(s)  BY Zenon, <1>1, <1>2, <1>3
  <2>3. Seen(Append(s, Item(c, "head"))) = Append(Seen(s), c)  BY Zenon, <1>1, <1>2, <1>3
  <2>4. Private(Append(s, Item(c, "head"))) = Private(s)  BY Zenon, <1>1, <1>2, <1>3
  <2>5. Seen(Append(s, Item(c, "tail"))) = Seen(s)  BY Zenon, <1>1, <1>2, <1>3
  <2>6. Private(Append(s, Item(c, "tail"))) = Private(s)  BY Zenon, <1>1, <1>2, <1>3
  <2>7. Seen(Append(s, Item(c, "private"))) = Seen(s)  BY Zenon, <1>1, <1>2, <1>3
  <2>8. Private(Append(s, Item(c, "private"))) = Append(Private(s), c)  BY Zenon, <1>1, <1>2, <1>3
  <2> QED  BY Zenon, <2>1, <2>2, <2>3, <2>4, <2>5, <2>6, <2>7, <2>8
<1> QED  BY Zenon, <1>4

(* Items that show exactly these contributions, with nothing private.      *)
Shows(s, c) == s \in Seq(Items) /\ Seen(s) = c /\ Private(s) = <<>>

LEMMA TurnShows ==
    ASSUME NEW h \in Seq(Turn), NEW t \in Turn, NEW split \in BOOLEAN,
           Shows(Represent(h, split), Contributions(h))
    PROVE  Shows(Represent(Append(h, t), split), Contributions(Append(h, t)))
<1> DEFINE r == Represent(h, split)
           d == Represent(Append(h, t), split)
           c == Contributions(h)
<1>1. t.request \in Contribution /\ t.response \in Contribution  BY Zenon, TurnType
<1>2. Append(h, t) \in Seq(Turn)  OBVIOUS
<1>3. r \in Seq(Items) /\ Seen(r) = c /\ Private(r) = <<>>  BY Zenon DEF Shows
<1>4. Contributions(Append(h, t)) = Append(Append(c, t.request), t.response)  BY Zenon, ContributionsAppend
<1>5. d \in Seq(Items) /\ Seen(d) = Append(Append(c, t.request), t.response) /\ Private(d) = <<>>
  <2>1. CASE split = FALSE
    <3> DEFINE a == Append(r, Item(t.request, "whole"))
    <3>1. Whole(h, r) /\ Whole(Append(h, t), d)  BY Zenon, <1>2, <2>1, RepresentWhole
    <3>2. d = Append(a, Item(t.response, "whole"))  BY Zenon, <3>1, WholeAppend
    <3>3. Item(t.request, "whole") \in Items  BY Zenon, <1>1, ItemType
    <3>4. a \in Seq(Items)  BY Zenon, <1>3, <3>3, AppendProperties
    <3>5. Seen(a) = Append(c, t.request) /\ Private(a) = <<>>  BY Zenon, <1>1, <1>3, ItemShows
    <3> HIDE DEF a
    <3>6. /\ Seen(Append(a, Item(t.response, "whole"))) = Append(Seen(a), t.response)
          /\ Private(Append(a, Item(t.response, "whole"))) = Private(a)
      BY Zenon, <1>1, <3>4, ItemShows
    <3>7. d \in Seq(Items)  BY Zenon, <3>1 DEF Whole
    <3> QED  BY Zenon, <3>2, <3>5, <3>6, <3>7
  <2>2. CASE split = TRUE
    <3> DEFINE a == Append(r, Item(t.request, "head"))
               b == Append(a, Item(t.request, "tail"))
    <3>1. Halved(h, r) /\ Halved(Append(h, t), d)  BY Zenon, <1>2, <2>2, RepresentHalved
    <3>2. d = Append(b, Item(t.response, "whole"))  BY Zenon, <3>1, HalvedAppend
    <3>3. Item(t.request, "head") \in Items /\ Item(t.request, "tail") \in Items  BY Zenon, <1>1, ItemType
    <3>4. a \in Seq(Items)  BY Zenon, <1>3, <3>3, AppendProperties
    <3>5. Seen(a) = Append(c, t.request) /\ Private(a) = <<>>  BY Zenon, <1>1, <1>3, ItemShows
    <3> HIDE DEF a
    <3>6. b \in Seq(Items)  BY Zenon, <3>3, <3>4, AppendProperties
    <3>7. Seen(b) = Seen(a) /\ Private(b) = Private(a)  BY Zenon, <1>1, <3>4, ItemShows
    <3> HIDE DEF b
    <3>8. /\ Seen(Append(b, Item(t.response, "whole"))) = Append(Seen(b), t.response)
          /\ Private(Append(b, Item(t.response, "whole"))) = Private(b)
      BY Zenon, <1>1, <3>6, ItemShows
    <3>9. d \in Seq(Items)  BY Zenon, <3>1 DEF Halved
    <3> QED  BY Zenon, <3>2, <3>5, <3>7, <3>8, <3>9
  <2> QED  BY Zenon, <2>1, <2>2
<1> QED  BY Zenon, <1>4, <1>5 DEF Shows

(* However a client's history is decoded, its items show its turns.        *)
LEMMA RepresentShows ==
    ASSUME NEW h \in Seq(Turn), NEW split \in BOOLEAN
    PROVE  Shows(Represent(h, split), Contributions(h))
<1> DEFINE Holds(n) == \A s \in Seq(Turn) : Len(s) = n => Shows(Represent(s, split), Contributions(s))
           T == {n \in Nat : ~Holds(n)}
<1>1. T = {}
  <2> SUFFICES ASSUME T # {} PROVE FALSE  BY Zenon
  <2>1. PICK n \in T : \A m \in T : n <= m
    <3>1. T \in SUBSET Nat  BY Zenon
    <3> HIDE DEF T
    <3> QED  BY Zenon, <3>1, LeastOf
  <2>2. PICK s \in Seq(Turn) : Len(s) = n /\ ~Shows(Represent(s, split), Contributions(s))  BY Zenon, <2>1
  <2>3. s # <<>>
    <3> SUFFICES ASSUME s = <<>> PROVE FALSE  BY Zenon
    <3>1. Len(s) = 0 /\ 2 * 0 = 0 /\ 3 * 0 = 0  OBVIOUS
    <3>2. Represent(s, split) \in Seq(Items) /\ Len(Represent(s, split)) = 0
      BY Zenon, <3>1, RepresentWhole, RepresentHalved DEF Whole, Halved
    <3>3. Contributions(s) \in Seq(Contribution) /\ Len(Contributions(s)) = 0  BY Zenon, <3>1, ContributionsType
    <3>4. Represent(s, split) = <<>> /\ Contributions(s) = <<>>  BY Zenon, <3>2, <3>3, EmptySeq
    <3>5. Seen(<<>>) = <<>> /\ Private(<<>>) = <<>>  BY Zenon, ShownEmpty DEF Seen, Private
    <3> QED  BY Zenon, <2>2, <3>2, <3>4, <3>5 DEF Shows
  <2>4. PICK r \in Seq(Turn), x \in Turn : s = Append(r, x)  BY Zenon, <2>3, SequenceEmptyOrAppend
  <2>5. Len(r) \in Nat /\ Len(r) < n  BY <2>2, <2>4
  <2>6. Len(r) \notin T
    <3>1. n \in Nat  BY Zenon
    <3> HIDE DEF T
    <3> QED  BY <2>1, <2>5, <3>1
  <2>7. Shows(Represent(r, split), Contributions(r))  BY Zenon, <2>5, <2>6
  <2> QED  BY Zenon, <2>2, <2>4, <2>7, TurnShows
<1>2. Len(h) \in Nat  OBVIOUS
<1>3. Holds(Len(h))  BY Zenon, <1>1, <1>2
<1> QED  BY Zenon, <1>3

(* A resent history of at least one turn is at least one item.             *)
LEMMA RepresentNonempty ==
    ASSUME NEW h \in Seq(Turn), h # <<>>, NEW split \in BOOLEAN
    PROVE  Len(Represent(h, split)) >= 1
<1>1. Len(h) \in Nat /\ Len(h) >= 1  OBVIOUS
<1>2. Len(Represent(h, split)) = 2 * Len(h) \/ Len(Represent(h, split)) = 3 * Len(h)
  BY Zenon, RepresentWhole, RepresentHalved DEF Whole, Halved
<1> QED  BY <1>1, <1>2

----------------------------------------------------------------------------
(* Prefixes of retained items.                                             *)

LEMMA CutJoins ==
    ASSUME NEW s \in Seq(Items), NEW n \in Nat, n <= Len(s)
    PROVE  /\ SubSeq(s, 1, n) \in Seq(Items) /\ SubSeq(s, n + 1, Len(s)) \in Seq(Items)
           /\ Len(SubSeq(s, 1, n)) = n
           /\ s = SubSeq(s, 1, n) \o SubSeq(s, n + 1, Len(s))
           /\ n < Len(s) => SubSeq(s, n + 1, Len(s)) # <<>>
<1>1. Len(s) \in Nat /\ \A i \in 1..Len(s) : s[i] \in Items  OBVIOUS
<1>2. /\ 1 \in 1..(Len(s) + 1) /\ n \in (1 - 1)..Len(s) /\ Len(s) \in n..Len(s)  BY <1>1
<1>3. SubSeq(s, 1, n) \o SubSeq(s, n + 1, Len(s)) = SubSeq(s, 1, Len(s))  BY Zenon, <1>2, ConcatAdjacentSubSeq
<1>4. SubSeq(s, 1, Len(s)) = s  BY Zenon, SubSeqFull
<1>5. SubSeq(s, 1, n) \in Seq(Items) /\ Len(SubSeq(s, 1, n)) = n  BY <1>1, SubSeqProperties
<1>6. /\ SubSeq(s, n + 1, Len(s)) \in Seq(Items)
      /\ n < Len(s) => Len(SubSeq(s, n + 1, Len(s))) = Len(s) - n
  BY <1>1, SubSeqProperties
<1>7. n < Len(s) => SubSeq(s, n + 1, Len(s)) # <<>>
  <2>1. n < Len(s) => Len(s) - n # 0  BY <1>1
  <2>2. Len(<<>>) = 0  BY Zenon
  <2> QED  BY Zenon, <1>6, <2>1, <2>2
<1> QED  BY Zenon, <1>3, <1>4, <1>5, <1>6, <1>7

LEMMA CutConcat ==
    ASSUME NEW p \in Seq(Items), NEW q \in Seq(Items)
    PROVE  SubSeq(p \o q, 1, Len(p)) = p
<1> DEFINE c == p \o q
           d == SubSeq(c, 1, Len(p))
<1>1. /\ c \in Seq(Items) /\ Len(c) = Len(p) + Len(q) /\ Len(p) \in Nat /\ Len(q) \in Nat
      /\ \A i \in 1..Len(p) : c[i] = p[i]
  BY ConcatProperties
<1> HIDE DEF c
<1>2. \A i \in 1..Len(p) : c[i] \in Items  BY <1>1
<1>3. d \in Seq(Items) /\ Len(d) = Len(p) /\ \A i \in 1..Len(p) : d[i] = c[i]  BY <1>1, <1>2, SubSeqProperties
<1> HIDE DEF d
<1>4. \A i \in 1..Len(p) : d[i] = p[i]  BY Zenon, <1>1, <1>3
<1>5. d = p  BY <1>3, <1>4, SeqEqual
<1> QED  BY Zenon, <1>5 DEF c, d

LEMMA CutAppend ==
    ASSUME NEW s \in Seq(Items), NEW x \in Items, NEW n \in Nat, n <= Len(s)
    PROVE  SubSeq(Append(s, x), 1, n) = SubSeq(s, 1, n)
<1> DEFINE a == Append(s, x)
           c == SubSeq(a, 1, n)
           d == SubSeq(s, 1, n)
<1>1. /\ Len(s) \in Nat /\ a \in Seq(Items) /\ Len(a) = Len(s) + 1
      /\ \A i \in 1..Len(s) : a[i] = s[i] /\ s[i] \in Items
  BY AppendProperties
<1> HIDE DEF a
<1>2. \A i \in 1..n : a[i] = s[i] /\ s[i] \in Items  BY <1>1
<1>3. c \in Seq(Items) /\ Len(c) = n /\ \A i \in 1..n : c[i] = a[i]  BY <1>1, <1>2, SubSeqProperties
<1>4. d \in Seq(Items) /\ Len(d) = n /\ \A i \in 1..n : d[i] = s[i]  BY <1>1, <1>2, SubSeqProperties
<1> HIDE DEF c, d
<1>5. \A i \in 1..n : c[i] = d[i]  BY Zenon, <1>2, <1>3, <1>4
<1>6. c = d  BY Zenon, <1>3, <1>4, <1>5, SeqEqual
<1> QED  BY Zenon, <1>6 DEF a, c, d

----------------------------------------------------------------------------
(* What segments, checkpoints, index entries and running exchanges are to  *)
(* each other.                                                             *)

(* Finished exchanges do not change any more.                              *)
Finished(ex, new) == \A d \in Exchange : ex[d].at = "done" => new[d] = ex[d]

(* Every segment was allocated by the commit of a finished exchange, over  *)
(* segments of the same workspace.                                         *)
Partitioned(segs, ex) ==
    /\ Forest(segs) /\ DOMAIN segs \subseteq SegmentName
    /\ \A s \in DOMAIN segs :
          /\ ex[s[1]].at = "done"
          /\ \A a \in Ancestors(segs, s) : ex[a[1]].workspace = ex[s[1]].workspace

(* The checkpoint r of exchange e holds what e committed.                  *)
Stored(segs, ex, e, r) ==
    /\ r.workspace \in Workspace /\ r.workspace = ex[e].workspace
    /\ r.history \in Seq(Turn) /\ r.expiresAt \in TTL..(MaxTime + TTL)
    /\ r.requestTail \in DOMAIN segs /\ r.after \in DOMAIN segs /\ r.after[1] = e
    /\ r.response \in Seq(Items)
    /\ materializeItemsOf(segs, r.after) = materializeItemsOf(segs, r.requestTail) \o r.response
    /\ ex[e].reuse.kind # "history" => materializeItemsOf(segs, r.requestTail) = ex[e].committed
    /\ Seen(materializeItemsOf(segs, r.requestTail)) = Seen(ex[e].committed)
    /\ Private(materializeItemsOf(segs, r.requestTail)) = Private(ex[e].committed)
    /\ r.history # Nil => Seen(materializeItemsOf(segs, r.after)) = Contributions(r.history)

(* The segment s represents the history of the key k, in its workspace.    *)
Represents(segs, ex, k, s) ==
    /\ k \in HistoryKey /\ s \in DOMAIN segs /\ ex[s[1]].workspace = k[1]
    /\ Shows(materializeItemsOf(segs, s), Contributions(k[2]))

Reached(segs, r, s) == \E e \in DOMAIN r : s \in Ancestors(segs, r[e].after)

(* What an exchange that will commit has composed: a nonempty continuation *)
(* of what it means to reuse, which shows the turns it advances from.      *)
Composed(segs, ex, x) ==
    /\ x.workspace \in Workspace /\ x.request \in Request /\ x.previous \in Seq(Turn)
    /\ x.retained # <<>>
    /\ x.reuse.kind \in {None, "token", "history"}
    /\ x.reuse.kind = "token" =>
          LET kept == materializeItemsOf(segs, x.reuse.tail)
          IN  /\ x.reuse.tail \in DOMAIN segs /\ ex[x.reuse.tail[1]].workspace = x.workspace
              /\ Len(kept) < Len(x.retained) /\ SubSeq(x.retained, 1, Len(kept)) = kept
    /\ x.reuse.kind = "history" =>
          /\ x.reuse.history \in Seq(Turn)
          /\ x.reuse.prefixLength \in Nat
          /\ 1 <= x.reuse.prefixLength /\ x.reuse.prefixLength < Len(x.retained)
          /\ Shows(SubSeq(x.retained, 1, x.reuse.prefixLength), Contributions(x.reuse.history))
    /\ x.advance => Seen(x.retained) = Append(Contributions(x.previous), x.request)
    /\ x.at = "prepared" => x.expiresAt \in TTL..(MaxTime + TTL)

Running(segs, ex, x) ==
    /\ x.at \in {"new", "open", "prepared", "done", "failed"}
    /\ x.retained \in Seq(Items) /\ DOMAIN x = DOMAIN Idle
    /\ x.at \in {"open", "prepared"} => Composed(segs, ex, x)

----------------------------------------------------------------------------
(* Growing segments and going exchanges disturb nothing of it.             *)

LEMMA OwnersStay ==
    ASSUME NEW segs, NEW ex, NEW new, Partitioned(segs, ex), Finished(ex, new)
    PROVE  \A s \in DOMAIN segs : s[1] \in Exchange /\ new[s[1]] = ex[s[1]] /\ ex[s[1]].at = "done"
<1> SUFFICES ASSUME NEW s \in DOMAIN segs PROVE s[1] \in Exchange /\ new[s[1]] = ex[s[1]] /\ ex[s[1]].at = "done"
  BY Zenon
<1>1. s \in SegmentName /\ ex[s[1]].at = "done"  BY Zenon DEF Partitioned
<1>2. s[1] \in Exchange  BY Zenon, <1>1 DEF SegmentName
<1> QED  BY Zenon, <1>1, <1>2 DEF Finished

LEMMA GrownSelf ==
    ASSUME NEW segs, Forest(segs), NEW names
    PROVE  Grown(segs, segs, names)
BY Zenon DEF Grown

LEMMA PartitionStays ==
    ASSUME NEW segs, NEW ex, NEW new, Partitioned(segs, ex), Finished(ex, new)
    PROVE  Partitioned(segs, new)
<1>1. Forest(segs) /\ DOMAIN segs \subseteq SegmentName  BY Zenon DEF Partitioned
<1>2. ASSUME NEW s \in DOMAIN segs
      PROVE  new[s[1]].at = "done" /\ \A a \in Ancestors(segs, s) : new[a[1]].workspace = new[s[1]].workspace
  <2>1. new[s[1]] = ex[s[1]] /\ ex[s[1]].at = "done"  BY OwnersStay
  <2>2. \A a \in Ancestors(segs, s) : a \in DOMAIN segs  BY Zenon, <1>1 DEF Forest
  <2>3. \A a \in Ancestors(segs, s) : new[a[1]] = ex[a[1]]  BY <2>2, OwnersStay
  <2>4. \A a \in Ancestors(segs, s) : ex[a[1]].workspace = ex[s[1]].workspace  BY Zenon DEF Partitioned
  <2> QED  BY Zenon, <2>1, <2>3, <2>4
<1> QED  BY Zenon, <1>1, <1>2 DEF Partitioned

LEMMA StoredStays ==
    ASSUME NEW segs, NEW ex, NEW more, NEW new, NEW names, Grown(segs, more, names), Finished(ex, new),
           NEW e \in Exchange, ex[e].at = "done", NEW r, Stored(segs, ex, e, r)
    PROVE  Stored(more, new, e, r)
<1>1. new[e] = ex[e]  BY Zenon DEF Finished
<1>2. r.requestTail \in DOMAIN segs /\ r.after \in DOMAIN segs  BY Zenon DEF Stored
<1>3. /\ materializeItemsOf(more, r.requestTail) = materializeItemsOf(segs, r.requestTail)
      /\ materializeItemsOf(more, r.after) = materializeItemsOf(segs, r.after)
      /\ r.requestTail \in DOMAIN more /\ r.after \in DOMAIN more
  BY Zenon, <1>2 DEF Grown
<1> QED  BY Zenon, <1>1, <1>3 DEF Stored

LEMMA RepresentsStays ==
    ASSUME NEW segs, NEW ex, NEW more, NEW new, NEW names, Grown(segs, more, names), Finished(ex, new),
           Partitioned(segs, ex), NEW k, NEW s, Represents(segs, ex, k, s)
    PROVE  Represents(more, new, k, s)
<1>1. s \in DOMAIN segs  BY Zenon DEF Represents
<1>2. new[s[1]] = ex[s[1]]  BY <1>1, OwnersStay
<1>3. s \in DOMAIN more /\ materializeItemsOf(more, s) = materializeItemsOf(segs, s)  BY Zenon, <1>1 DEF Grown
<1> QED  BY Zenon, <1>2, <1>3 DEF Represents

LEMMA ReachedStays ==
    ASSUME NEW segs, NEW more, NEW names, Grown(segs, more, names),
           NEW r, NEW rr, \A e \in DOMAIN r : e \in DOMAIN rr /\ rr[e] = r[e] /\ r[e].after \in DOMAIN segs,
           NEW s, Reached(segs, r, s)
    PROVE  Reached(more, rr, s)
<1>1. PICK e \in DOMAIN r : s \in Ancestors(segs, r[e].after)  BY Zenon DEF Reached
<1>2. e \in DOMAIN rr /\ rr[e] = r[e] /\ r[e].after \in DOMAIN segs  BY Zenon
<1>3. Ancestors(more, r[e].after) = Ancestors(segs, r[e].after)  BY Zenon, <1>2 DEF Grown
<1> QED  BY Zenon, <1>1, <1>2, <1>3 DEF Reached

LEMMA RunningStays ==
    ASSUME NEW segs, NEW ex, NEW more, NEW new, NEW names, Grown(segs, more, names), Finished(ex, new),
           Partitioned(segs, ex), NEW x, Running(segs, ex, x)
    PROVE  Running(more, new, x)
<1>1. ASSUME Composed(segs, ex, x) PROVE Composed(more, new, x)
  <2>1. ASSUME x.reuse.kind = "token"
        PROVE  LET kept == materializeItemsOf(more, x.reuse.tail)
               IN  /\ x.reuse.tail \in DOMAIN more /\ new[x.reuse.tail[1]].workspace = x.workspace
                   /\ Len(kept) < Len(x.retained) /\ SubSeq(x.retained, 1, Len(kept)) = kept
    <3> DEFINE t == x.reuse.tail
               kept == materializeItemsOf(segs, t)
    <3>1. /\ t \in DOMAIN segs /\ ex[t[1]].workspace = x.workspace
          /\ Len(kept) < Len(x.retained) /\ SubSeq(x.retained, 1, Len(kept)) = kept
      BY Zenon, <1>1, <2>1 DEF Composed
    <3>2. new[t[1]] = ex[t[1]]  BY <3>1, OwnersStay
    <3>3. t \in DOMAIN more /\ materializeItemsOf(more, t) = kept  BY Zenon, <3>1 DEF Grown
    <3> QED  BY Zenon, <3>1, <3>2, <3>3
  <2> QED  BY Zenon, <1>1, <2>1 DEF Composed
<1> QED  BY Zenon, <1>1 DEF Running

LEMMA AskedShows ==
    ASSUME NEW s \in Seq(Items), NEW q \in Request
    PROVE  LET t == s \o <<Item(q, "whole")>>
           IN  /\ t \in Seq(Items) /\ t # <<>> /\ Len(t) = Len(s) + 1
               /\ Seen(t) = Append(Seen(s), q) /\ SubSeq(t, 1, Len(s)) = s
<1> DEFINE i == Item(q, "whole")
           t == s \o <<i>>
<1>1. q \in Contribution  BY Zenon DEF Contribution
<1>2. i \in Items  BY Zenon, <1>1, ItemType
<1>3. Seen(Append(s, i)) = Append(Seen(s), q)  BY Zenon, <1>1, ItemShows
<1> HIDE DEF i
<1>4. <<i>> \in Seq(Items)  BY <1>2
<1>5. t = Append(s, i)  BY <1>2, AppendIsConcat
<1>6. t \in Seq(Items) /\ Len(t) = Len(s) + 1 /\ Len(s) \in Nat  BY <1>2, <1>5, AppendProperties
<1>7. SubSeq(t, 1, Len(s)) = s  BY Zenon, <1>4, CutConcat
<1>8. t # <<>>  BY <1>6
<1> QED  BY Zenon, <1>3, <1>5, <1>6, <1>7, <1>8 DEF i

LEMMA NothingShown == Contributions(Nil) = <<>> /\ Seen(Nil) = <<>> /\ Private(Nil) = <<>> /\ Nil \in Seq(Turn)
<1>1. <<>> \in Seq(Turn) /\ Len(<<>>) = 0 /\ 2 * 0 = 0  OBVIOUS
<1>2. Contributions(<<>>) \in Seq(Contribution) /\ Len(Contributions(<<>>)) = 0  BY Zenon, <1>1, ContributionsType
<1>3. Contributions(<<>>) = <<>>  BY <1>2, EmptySeq
<1>4. Seen(<<>>) = <<>> /\ Private(<<>>) = <<>>  BY Zenon, ShownEmpty DEF Seen, Private
<1> QED  BY Zenon, <1>1, <1>3, <1>4 DEF Nil

LEMMA Fresh ==
    ASSUME NEW segs, NEW ex, Partitioned(segs, ex), NEW e, ex[e].at # "done", NEW p
    PROVE  <<e, p>> \notin DOMAIN segs /\ <<e, p>> # Nil /\ <<e, p>>[1] = e
<1>1. <<e, p>>[1] = e /\ <<e, p>> # <<>>  BY Zenon
<1>2. \A s \in DOMAIN segs : ex[s[1]].at = "done"  BY Zenon DEF Partitioned
<1> QED  BY Zenon, <1>1, <1>2 DEF Nil

(* The request's and the response's segment over what is reused.           *)
LEMMA AppendBoth ==
    ASSUME NEW u, Forest(u), NEW base \in DOMAIN u \cup {Nil}, NEW rest \in Seq(Items), rest # <<>>,
           NEW i \in Items, NEW n, NEW m, n # m, n # Nil, m # Nil, n \notin DOMAIN u, m \notin DOMAIN u
    PROVE  LET asked == appendSegment(u, n, base, rest)
               after == appendSegment(asked.segs, m, asked.tail, <<i>>)
           IN  /\ Grown(u, after.segs, {n, m}) /\ asked.tail = n /\ after.tail = m
               /\ n \in DOMAIN after.segs /\ m \in DOMAIN after.segs
               /\ materializeItemsOf(after.segs, n) = materializeItemsOf(u, base) \o rest
               /\ materializeItemsOf(after.segs, m) = (materializeItemsOf(u, base) \o rest) \o <<i>>
               /\ Ancestors(after.segs, n) \subseteq Ancestors(u, base) \cup {n, m}
               /\ Ancestors(after.segs, m) \subseteq Ancestors(u, base) \cup {n, m}
               /\ Ancestors(u, base) \subseteq Ancestors(after.segs, m)
<1> DEFINE asked == appendSegment(u, n, base, rest)
           mid == asked.segs
           after == appendSegment(mid, m, n, <<i>>)
           end == after.segs
<1>1. /\ Grown(u, mid, {n}) /\ asked.tail = n /\ n \in DOMAIN mid
      /\ materializeItemsOf(mid, n) = materializeItemsOf(u, base) \o rest
      /\ Ancestors(u, base) \subseteq Ancestors(mid, n)
      /\ Ancestors(mid, n) \subseteq Ancestors(u, base) \cup {n}
  <2>1. /\ Grown(u, mid, {n}) /\ (rest # <<>> => asked.tail = n /\ n \in DOMAIN mid)
        /\ materializeItemsOf(mid, asked.tail) = materializeItemsOf(u, base) \o rest
        /\ Ancestors(u, base) \subseteq Ancestors(mid, asked.tail)
        /\ Ancestors(mid, asked.tail) \subseteq Ancestors(u, base) \cup {n}
    <3>1. AppendedTo(u, n, base, rest, asked)  BY AppendGrows
    <3> HIDE DEF asked
    <3> QED  BY Zenon, <3>1 DEF AppendedTo
  <2> HIDE DEF asked
  <2> QED  BY Zenon, <2>1
<1> HIDE DEF asked, mid
<1>2. Forest(mid) /\ m \notin DOMAIN mid /\ n \in DOMAIN mid \cup {Nil}
  <2>1. Forest(mid) /\ DOMAIN mid \subseteq DOMAIN u \cup {n}  BY Zenon, <1>1 DEF Grown
  <2> QED  BY Zenon, <1>1, <2>1
<1>3. <<i>> \in Seq(Items) /\ <<i>> # <<>>  OBVIOUS
<1>4. /\ Grown(mid, end, {m}) /\ after.tail = m /\ m \in DOMAIN end
      /\ materializeItemsOf(end, m) = materializeItemsOf(mid, n) \o <<i>>
      /\ Ancestors(mid, n) \subseteq Ancestors(end, m)
      /\ Ancestors(end, m) \subseteq Ancestors(mid, n) \cup {m}
  <2>1. /\ Grown(mid, end, {m}) /\ (<<i>> # <<>> => after.tail = m /\ m \in DOMAIN end)
        /\ materializeItemsOf(end, after.tail) = materializeItemsOf(mid, n) \o <<i>>
        /\ Ancestors(mid, n) \subseteq Ancestors(end, after.tail)
        /\ Ancestors(end, after.tail) \subseteq Ancestors(mid, n) \cup {m}
    <3>1. AppendedTo(mid, m, n, <<i>>, after)  BY Zenon, <1>2, <1>3, AppendGrows
    <3> HIDE DEF after
    <3> QED  BY Zenon, <3>1 DEF AppendedTo
  <2> HIDE DEF after
  <2> QED  BY Zenon, <1>3, <2>1
<1> HIDE DEF after, end
<1>5. Grown(u, end, {n} \cup {m})  BY ZenonT(30), <1>1, <1>4, GrownAgain
<1>6. Grown(u, end, {n, m})
  <2>1. {n} \cup {m} = {n, m}  OBVIOUS
  <2> QED  BY Zenon, <1>5, <2>1
<1>7. /\ n \in DOMAIN end /\ materializeItemsOf(end, n) = materializeItemsOf(mid, n)
      /\ Ancestors(end, n) = Ancestors(mid, n)
  BY Zenon, <1>1, <1>4 DEF Grown
<1>8. /\ Grown(u, end, {n, m}) /\ asked.tail = n /\ after.tail = m /\ n \in DOMAIN end /\ m \in DOMAIN end
      /\ materializeItemsOf(end, n) = materializeItemsOf(u, base) \o rest
      /\ materializeItemsOf(end, m) = (materializeItemsOf(u, base) \o rest) \o <<i>>
      /\ Ancestors(end, n) \subseteq Ancestors(u, base) \cup {n, m}
      /\ Ancestors(end, m) \subseteq Ancestors(u, base) \cup {n, m}
      /\ Ancestors(u, base) \subseteq Ancestors(end, m)
  <2>1. Ancestors(end, n) \subseteq Ancestors(u, base) \cup {n, m}  BY Zenon, <1>1, <1>7
  <2>2. Ancestors(end, m) \subseteq Ancestors(u, base) \cup {n, m}  BY Zenon, <1>1, <1>4
  <2>3. Ancestors(u, base) \subseteq Ancestors(end, m)  BY Zenon, <1>1, <1>4
  <2> QED  BY Zenon, <1>1, <1>4, <1>6, <1>7, <2>1, <2>2, <2>3
<1> QED  BY Zenon, <1>1, <1>8 DEF asked, mid, after, end

LEMMA ShowAlike ==
    ASSUME NEW p \in Seq(Items), NEW q \in Seq(Items), NEW rest \in Seq(Items),
           Seen(p) = Seen(q), Private(p) = Private(q)
    PROVE  Seen(p \o rest) = Seen(q \o rest) /\ Private(p \o rest) = Private(q \o rest)
<1>1. Seen(p \o rest) = Seen(p) \o Seen(rest) /\ Private(p \o rest) = Private(p) \o Private(rest)
  BY ZenonT(30), ShownConcat DEF Seen, Private
<1>2. Seen(q \o rest) = Seen(q) \o Seen(rest) /\ Private(q \o rest) = Private(q) \o Private(rest)
  BY Zenon, ShownConcat DEF Seen, Private
<1> QED  BY Zenon, <1>1, <1>2

(* The history key of the new checkpoint fingerprints what it shows.       *)
LEMMA AdvanceShows ==
    ASSUME NEW segs, NEW ex, NEW x, Composed(segs, ex, x), NEW a \in Response, NEW known
    PROVE  LET h == Advance(x, a, known)
           IN  h \in Seq(Turn) /\ (h # Nil => Append(Seen(x.retained), a) = Contributions(h))
<1> DEFINE t == [request |-> x.request, response |-> a]
           h == Advance(x, a, known)
<1>1. /\ x.request \in Request /\ x.previous \in Seq(Turn)
      /\ x.advance => Seen(x.retained) = Append(Contributions(x.previous), x.request)
  BY Zenon DEF Composed
<1>2. t \in Turn /\ t.request = x.request /\ t.response = a  BY Zenon, <1>1 DEF Turn
<1>3. h = IF x.advance /\ known THEN Append(x.previous, t) ELSE Nil  BY Zenon DEF Advance
<1> HIDE DEF t, h
<1>4. CASE x.advance /\ known
  <2>1. h = Append(x.previous, t)  BY Zenon, <1>3, <1>4
  <2>2. h \in Seq(Turn)  BY <1>1, <1>2, <2>1, AppendProperties
  <2>3. Contributions(h) = Append(Append(Contributions(x.previous), x.request), a)
    BY Zenon, <1>1, <1>2, <2>1, ContributionsAppend
  <2> QED  BY Zenon, <1>1, <1>4, <2>2, <2>3 DEF h
<1>5. CASE ~(x.advance /\ known)
  <2>1. h = Nil  BY Zenon, <1>3, <1>5
  <2> QED  BY Zenon, <2>1, NothingShown DEF h
<1> QED  BY Zenon, <1>4, <1>5

LEMMA EmptyForest ==
    ASSUME NEW segs, DOMAIN segs = {}
    PROVE  Forest(segs)
<1> DEFINE D == DOMAIN segs \cup {Nil}
           f == [s \in {Nil} |-> {}]
           m == [s \in {Nil} |-> <<>>]
<1>1. D = {Nil}  BY Zenon
<1>2. \A g : UpOf(segs, g) <=> g = f
  <2>1. \A g : [s \in {Nil} |-> IF s = Nil THEN {} ELSE {s} \cup g[segs[s].parent]] = f  BY Zenon
  <2> QED  BY Zenon, <1>1, <2>1 DEF UpOf
<1>3. \A g : ItemsOf(segs, g) <=> g = m
  <2>1. \A g : [s \in {Nil} |-> IF s = Nil THEN <<>> ELSE g[segs[s].parent] \o segs[s].items] = m  BY Zenon
  <2> QED  BY Zenon, <1>1, <2>1 DEF ItemsOf
<1> HIDE DEF f, m
<1>4. OneUp(segs, f) /\ OneItems(segs, m)  BY Zenon, <1>2, <1>3 DEF OneUp, OneItems
<1>5. Solved(segs)  BY Zenon, <1>4 DEF Solved
<1>6. Nil \notin DOMAIN segs  BY Zenon
<1>7. Ancestors(segs, Nil) = {} /\ materializeItemsOf(segs, Nil) = <<>>
  BY Zenon, <1>5, <1>6, AncestorsEquation, MaterializeEquation
<1>8. <<>> \in Seq(Items)  OBVIOUS
<1>9. \A s \in DOMAIN segs \cup {Nil} :
         Ancestors(segs, s) \subseteq DOMAIN segs /\ materializeItemsOf(segs, s) \in Seq(Items)
  BY Zenon, <1>1, <1>7, <1>8
<1> QED  BY Zenon, <1>5, <1>6, <1>9 DEF Forest

=============================================================================
