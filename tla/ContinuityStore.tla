--------------------------- MODULE ContinuityStore ---------------------------
(***************************************************************************)
(* The in-memory checkpoint store and the exchanges that use it: an        *)
(* exchange selects a predecessor (by response id, by the history its      *)
(* client resent, or none), composes the complete retained history, and    *)
(* commits it with the response as a new checkpoint.  Checkpoints share    *)
(* immutable history segments; capacity, expiry and the non-owning         *)
(* visible-history index decide what stays addressable.                    *)
(*                                                                         *)
(* A retained item is the contribution it stands for and a part: one       *)
(* contribution may be one item (whole) or two (head, tail), and items of  *)
(* local tool rounds are private.  A history key is the sequence of turns  *)
(* it fingerprints, so equal keys mean equal visible content.              *)
(***************************************************************************)
EXTENDS Integers, Sequences, FiniteSets

CONSTANTS
    Exchange,    \* exchanges; each owns one fresh response id
    Workspace,   \* workspace slugs
    Request,     \* visible request contributions
    Response,    \* visible response contributions
    MaxRecords,  \* maxMemoryStoreRecords
    TTL,         \* defaultCheckpointTTL
    MaxTime,     \* bound: the clock
    MaxTurns     \* bound: turns of a history a client resends

ASSUME StoreAssumption ==
    /\ MaxRecords \in Nat \ {0}
    /\ TTL \in Nat \ {0}
    /\ MaxTime \in Nat
    /\ MaxTurns \in Nat
    /\ "none" \notin Exchange

VARIABLES
    now,            \* the store's clock
    segments,       \* allocated history segments: parent and items
    records,        \* live checkpoints by response id
    byHistory,      \* history key -> ids of the checkpoints that carry it
    visibleHistory, \* history key -> segment of its resent representation
    expires,        \* the expiration heap
    exchange        \* what every exchange has loaded and is going to commit

store == <<segments, records, byHistory, visibleHistory, expires>>
vars == <<now, store, exchange>>

None == "none"
Nil == <<>>          \* the nil segment, and a checkpoint without history

Turn == [request : Request, response : Response]
HistoryUpTo(n) == UNION {[1..k -> Turn] : k \in 1..n}
HistoryKey == Workspace \X Seq(Turn)

Item(c, part) == [of |-> c, part |-> part]
Items == [of : Request \cup Response \cup Exchange, part : {"whole", "head", "tail", "private"}]

(* The items a client's resent history decodes to, with requests as one    *)
(* item or as two.                                                         *)
Represent(h, split) ==
    LET w == IF split THEN 3 ELSE 2
        At(i) == LET t == h[((i - 1) \div w) + 1]
                     p == (i - 1) % w
                 IN IF p = w - 1 THEN Item(t.response, "whole")
                    ELSE Item(t.request, IF ~split THEN "whole" ELSE IF p = 0 THEN "head" ELSE "tail")
    IN [i \in 1..(w * Len(h)) |-> At(i)]

(* What retained items show of the parts: the contributions of the items   *)
(* of these parts, in order.                                               *)
Shown(s, parts) ==
    LET upTo[n \in 0..Len(s)] ==
            IF n = 0 THEN <<>>
            ELSE IF s[n].part \in parts THEN Append(upTo[n - 1], s[n].of) ELSE upTo[n - 1]
    IN upTo[Len(s)]

(* What a client sees of retained items, and what it does not.             *)
Seen(s) == Shown(s, {"whole", "head"})
Private(s) == Shown(s, {"private"})

(* A segment is named by the exchange whose commit allocated it and its    *)
(* place in that commit: base, request tail or after tail.                 *)
SegmentName == Exchange \X {"base", "request", "after"}

materializeItemsOf(segs, tail) ==
    LET m[s \in DOMAIN segs \cup {Nil}] ==
            IF s = Nil THEN <<>> ELSE m[segs[s].parent] \o segs[s].items
    IN m[tail]

materializeItems(tail) == materializeItemsOf(segments, tail)

Ancestors(segs, tail) ==
    LET up[s \in DOMAIN segs \cup {Nil}] ==
            IF s = Nil THEN {} ELSE {s} \cup up[segs[s].parent]
    IN up[tail]

(* Mutant: the new items replace those of a parent that is shared.          *)
appendSegmentInPlace(segs, name, parent, items) ==
    IF items = <<>> THEN [segs |-> segs, tail |-> parent]
    ELSE IF parent # Nil
         THEN [segs |-> [segs EXCEPT ![parent].items = @ \o items], tail |-> parent]
         ELSE [segs |-> [s \in DOMAIN segs \cup {name} |->
                          IF s = name THEN [parent |-> parent, items |-> items] ELSE segs[s]],
               tail |-> name]

appendSegment(segs, name, parent, items) ==
    IF items = <<>> THEN [segs |-> segs, tail |-> parent]
    ELSE [segs |-> [s \in DOMAIN segs \cup {name} |->
                      IF s = name THEN [parent |-> parent, items |-> items] ELSE segs[s]],
          tail |-> name]

----------------------------------------------------------------------------
(* Removal.  The store functions take and return the four maps they touch. *)

Store == [records |-> records, byHistory |-> byHistory,
          visibleHistory |-> visibleHistory, expires |-> expires]

Without(f, keys) == [k \in DOMAIN f \ keys |-> f[k]]

deleteRecords(st, ids) ==
    LET left(k) == st.byHistory[k] \ ids
    IN [st EXCEPT !.records = Without(@, ids),
                  !.byHistory = [k \in {j \in DOMAIN @ : left(j) # {}} |-> left(k)]]

(* Mutant: the visible-history index is never swept.                        *)
sweepVisibleHistoryNever(st, segs) == st

sweepVisibleHistory(st, segs) ==
    LET reachable == UNION {Ancestors(segs, st.records[e].after) : e \in DOMAIN st.records}
        orphan == {k \in DOMAIN st.visibleHistory : st.visibleHistory[k] \notin reachable}
    IN [st EXCEPT !.visibleHistory = Without(@, orphan)]

reclaimExpired(st, segs) ==
    LET due == {x \in st.expires : x.at <= now}
        dead == {x.id : x \in due} \cap {e \in DOMAIN st.records : st.records[e].expiresAt <= now}
        popped == [st EXCEPT !.expires = @ \ due]
    IN IF due = {} THEN st ELSE IF dead = {} THEN popped ELSE sweepVisibleHistory(deleteRecords(popped, dead), segs)

(* Mutant: a full store evicts the checkpoint that expires last.            *)
Newest(st) == {x \in st.expires : \A y \in st.expires : y.at <= x.at}

Oldest(st) == {x \in st.expires : \A y \in st.expires : x.at <= y.at}

Full(st) == Cardinality(DOMAIN st.records) >= MaxRecords

evictOldest(st, segs, x) ==
    sweepVisibleHistory(deleteRecords([st EXCEPT !.expires = @ \ {x}], {x.id}), segs)

----------------------------------------------------------------------------
(* Exchanges.                                                              *)

NoReuse == [kind |-> None]
Token(ws, tail) == [kind |-> "token", workspace |-> ws, tail |-> tail]
Visible(h, n) == [kind |-> "history", history |-> h, prefixLength |-> n]

Idle == [at |-> "new", workspace |-> None, retained |-> <<>>, advance |-> TRUE, previous |-> Nil, request |-> None,
         reuse |-> NoReuse, selected |-> None, expiresAt |-> 0, committed |-> <<>>]

Init ==
    /\ now = 0
    /\ segments = [s \in {} |-> Nil]
    /\ records = [e \in {} |-> Nil]
    /\ byHistory = [k \in {} |-> {}]
    /\ visibleHistory = [k \in {} |-> Nil]
    /\ expires = {}
    /\ exchange = [e \in Exchange |-> Idle]

Install(st) ==
    /\ records' = st.records
    /\ byHistory' = st.byHistory
    /\ visibleHistory' = st.visibleHistory
    /\ expires' = st.expires

Tick ==
    /\ now < MaxTime
    /\ now' = now + 1
    /\ UNCHANGED <<store, exchange>>

(* No predecessor: the request alone is the retained history.              *)
Begin(e, ws, q) ==
    /\ exchange[e].at = "new"
    /\ exchange' = [exchange EXCEPT ![e] = [Idle EXCEPT
            !.at = "open", !.workspace = ws, !.request = q, !.retained = <<Item(q, "whole")>>]]
    /\ UNCHANGED <<now, store>>

Resumed(ws, q, id, r, advance, previous) ==
    [Idle EXCEPT !.at = "open", !.workspace = ws, !.request = q,
        !.retained = materializeItems(r.requestTail) \o r.response \o <<Item(q, "whole")>>,
        !.advance = advance, !.previous = previous, !.reuse = Token(ws, r.after), !.selected = id]

Addressed(st, ws, id) == id \in DOMAIN st.records /\ st.records[id].workspace = ws

Extends(r, same) == r.history # Nil /\ same

(* previous_response_id: Get, then resume or refuse the request.  same:    *)
(* the request's fingerprint scheme is the one of the checkpoint's history. *)
ResumeExplicit(e, ws, q, id, same) ==
    LET st == reclaimExpired(Store, segments)
    IN /\ exchange[e].at = "new"
       /\ Install(st)
       /\ exchange' = [exchange EXCEPT ![e] =
              IF Addressed(st, ws, id)
              THEN LET r == st.records[id]
                   IN Resumed(ws, q, id, r, Extends(r, same), r.history)
              ELSE [Idle EXCEPT !.at = "failed"]]
       /\ UNCHANGED <<now, segments>>

Members(st, ws, h) == IF <<ws, h>> \in DOMAIN st.byHistory THEN st.byHistory[<<ws, h>>] ELSE {}

(* Mutant: an ambiguous history selects any of its members.                 *)
FindByHistoryAny(st, ws, h) == Members(st, ws, h)

FindByHistory(st, ws, h) ==
    {id \in Members(st, ws, h) \cap DOMAIN st.records : Cardinality(Members(st, ws, h)) = 1}

(* The client resends a completed history: FindByHistory, then resume the  *)
(* one checkpoint that carries it, or begin with what the client sent.     *)
ResumeByHistory(e, ws, q, h, split) ==
    LET st == reclaimExpired(Store, segments)
        found == FindByHistory(st, ws, h)
        resent == Represent(h, split)
    IN /\ exchange[e].at = "new"
       /\ Install(st)
       /\ \/ \E id \in found :
                exchange' = [exchange EXCEPT ![e] = Resumed(ws, q, id, st.records[id], TRUE, h)]
          \/ /\ found = {}
             /\ exchange' = [exchange EXCEPT ![e] = [Idle EXCEPT
                    !.at = "open", !.workspace = ws, !.request = q,
                    !.retained = resent \o <<Item(q, "whole")>>,
                    !.previous = h, !.reuse = Visible(h, Len(resent))]]
       /\ UNCHANGED <<now, segments>>

(* The response completed, perhaps after a local tool round whose items    *)
(* the client never sees; prepareRecord reads the clock before the lock.   *)
prepareRecord(e, round) ==
    /\ exchange[e].at = "open"
    /\ exchange' = [exchange EXCEPT ![e].at = "prepared", ![e].expiresAt = now + TTL,
                                    ![e].retained = IF round THEN Append(@, Item(e, "private")) ELSE @]
    /\ UNCHANGED <<now, store>>

(* Mutant: the visible-history index ignores the workspace.                 *)
VisibleKeyShared(ws, h) == <<CHOOSE w \in Workspace : TRUE, h>>

VisibleKey(ws, h) == <<ws, h>>

(* Which stored segment carries a prefix of the retained items, how many   *)
(* of them it stands for, and the visible-history key to record it under.  *)
resolveStorageReuse(st, e, x) ==
    CASE x.reuse.kind = None -> [base |-> Nil, prefix |-> 0, key |-> None, segs |-> segments]
      [] x.reuse.kind = "token" ->
            [base |-> x.reuse.tail, prefix |-> Len(materializeItems(x.reuse.tail)), key |-> None,
             segs |-> segments]
      [] x.reuse.kind = "history" ->
            LET key == VisibleKey(x.workspace, x.reuse.history)
                new == appendSegment(segments, <<e, "base">>, Nil, SubSeq(x.retained, 1, x.reuse.prefixLength))
            IN IF key \in DOMAIN st.visibleHistory
               THEN [base |-> st.visibleHistory[key], prefix |-> x.reuse.prefixLength,
                     key |-> key, segs |-> segments]
               ELSE [base |-> new.tail, prefix |-> x.reuse.prefixLength, key |-> key, segs |-> new.segs]

With(f, k, v) == [j \in DOMAIN f \cup {k} |-> IF j = k THEN v ELSE f[j]]

(* Advance: the history of the new checkpoint, nil when the codec gave no  *)
(* unambiguous fingerprint of the response or the predecessor carries none. *)
Advance(x, r, known) ==
    IF x.advance /\ known THEN Append(x.previous, [request |-> x.request, response |-> r]) ELSE Nil

Insert(st, e, x, rec, u) ==
    [records |-> With(st.records, e, rec),
     visibleHistory |-> IF u.key = None THEN st.visibleHistory ELSE With(st.visibleHistory, u.key, u.base),
     byHistory |-> IF rec.history = Nil THEN st.byHistory
                   ELSE With(st.byHistory, <<x.workspace, rec.history>>,
                             Members(st, x.workspace, rec.history) \cup {e}),
     expires |-> st.expires \cup {[id |-> e, at |-> rec.expiresAt]}]

(* The segments of the request and of the response, the record over them, and *)
(* its place in a store that evicts one record when it is full.              *)
Put(e, r, known) ==
    LET record(x, requestTail, afterTail) ==
            [workspace |-> x.workspace, history |-> Advance(x, r, known), requestTail |-> requestTail,
             after |-> afterTail, response |-> <<Item(r, "whole")>>, expiresAt |-> x.expiresAt]
        install(x, live, u, requestTail, after) ==
            /\ segments' = after.segs
            /\ IF Full(live)
               THEN \E o \in Oldest(live) :
                      Install(Insert(evictOldest(live, segments, o), e, x, record(x, requestTail, after.tail), u))
               ELSE Install(Insert(live, e, x, record(x, requestTail, after.tail), u))
        respond(x, live, u, asked) ==
            install(x, live, u, asked.tail, appendSegment(asked.segs, <<e, "after">>, asked.tail, <<Item(r, "whole")>>))
        request(x, live, u) ==
            respond(x, live, u, appendSegment(u.segs, <<e, "request">>, u.base, SubSeq(x.retained, u.prefix + 1, Len(x.retained))))
        reuse(x, live) == request(x, live, resolveStorageReuse(live, e, x))
    IN /\ exchange[e].at = "prepared"
       /\ reuse(exchange[e], reclaimExpired(Store, segments))
       /\ exchange' = [exchange EXCEPT ![e].at = "done", ![e].committed = exchange[e].retained]
       /\ UNCHANGED now

Next ==
    \/ Tick
    \/ \E e \in Exchange :
          \/ \E ws \in Workspace, q \in Request :
                \/ Begin(e, ws, q)
                \/ \E id \in Exchange \ {e}, same \in BOOLEAN : ResumeExplicit(e, ws, q, id, same)
                \/ \E h \in HistoryUpTo(MaxTurns), split \in BOOLEAN : ResumeByHistory(e, ws, q, h, split)
          \/ \E round \in BOOLEAN : prepareRecord(e, round)
          \/ \E r \in Response, known \in BOOLEAN : Put(e, r, known)

Spec == Init /\ [][Next]_vars

----------------------------------------------------------------------------
(* Properties.                                                             *)

(* Every store map and every exchange has its type, and every segment a    *)
(* checkpoint, an index entry or a reuse token names has been allocated.   *)
TypeOK ==
    /\ now \in 0..MaxTime
    /\ DOMAIN segments \subseteq SegmentName
    /\ \A s \in DOMAIN segments :
          /\ segments[s].parent \in DOMAIN segments \cup {Nil}
          /\ segments[s].items \in Seq(Items)
    /\ DOMAIN records \subseteq {e \in Exchange : exchange[e].at = "done"}
    /\ \A e \in DOMAIN records :
          /\ records[e].workspace \in Workspace
          /\ records[e].history = Nil \/ <<records[e].workspace, records[e].history>> \in HistoryKey
          /\ {records[e].requestTail, records[e].after} \subseteq DOMAIN segments
          /\ records[e].expiresAt \in TTL..(MaxTime + TTL)
    /\ \A k \in DOMAIN byHistory : k \in HistoryKey /\ byHistory[k] \subseteq Exchange
    /\ \A k \in DOMAIN visibleHistory : k \in HistoryKey /\ visibleHistory[k] \in DOMAIN segments
    /\ expires \subseteq [id : Exchange, at : TTL..(MaxTime + TTL)]
    /\ \A e \in Exchange :
          /\ exchange[e].at \in {"new", "open", "prepared", "done", "failed"}
          /\ exchange[e].retained \in Seq(Items)

(* The history index lists, for every key, exactly the live checkpoints    *)
(* that carry it: neither eviction nor expiry leaves a member behind that  *)
(* would make a unique history ambiguous, and none is lost.                *)
HistoryIndexExact ==
    /\ \A k \in DOMAIN byHistory :
          byHistory[k] = {e \in DOMAIN records : records[e].history # Nil
                                               /\ <<records[e].workspace, records[e].history>> = k}
    /\ {k \in DOMAIN byHistory : byHistory[k] = {}} = {}
    /\ \A e \in DOMAIN records :
          records[e].history # Nil => <<records[e].workspace, records[e].history>> \in DOMAIN byHistory

(* Every live checkpoint has its one heap entry and every heap entry its   *)
(* checkpoint, so that each checkpoint does expire and a full store always *)
(* finds one to evict; the store never exceeds its capacity.               *)
ExpiryCoversRecords ==
    expires = {[id |-> e, at |-> records[e].expiresAt] : e \in DOMAIN records}

CapacityBounded == Cardinality(DOMAIN records) <= MaxRecords

(* sweepVisibleHistory: the visible-history index is non-owning: each of   *)
(* its tails is reachable from a live checkpoint.                          *)
VisibleIndexNonOwning ==
    \A k \in DOMAIN visibleHistory :
        \E e \in DOMAIN records : visibleHistory[k] \in Ancestors(segments, records[e].after)

(* Workspaces partition the store: no checkpoint is built on a segment an  *)
(* exchange of another workspace committed, and none is resumed across.    *)
WorkspacesShareNothing ==
    \A e \in DOMAIN records : \A s \in Ancestors(segments, records[e].after) :
        exchange[s[1]].workspace = records[e].workspace

(* What Put, Get, expiry and eviction keep between them: the type, the     *)
(* history index, the expiry heap, the capacity, the visible index and the *)
(* partition by workspaces.                                                *)
StoreInv ==
    /\ TypeOK
    /\ HistoryIndexExact
    /\ ExpiryCoversRecords
    /\ CapacityBounded
    /\ VisibleIndexNonOwning
    /\ WorkspacesShareNothing

(* A checkpoint stays logically self-contained: whatever segments it       *)
(* shares, and whoever else stores, expires or is evicted, what Get        *)
(* materialises is exactly the committed history when its prefix came from *)
(* a selected checkpoint, and visibly the committed history, with the      *)
(* private items of its own exchange only, when it came from the client.   *)
StoredAsCommitted ==
    \A e \in DOMAIN records :
        LET got == materializeItems(records[e].requestTail)
            put == exchange[e].committed
        IN /\ exchange[e].reuse.kind # "history" => got = put
           /\ Seen(got) = Seen(put)
           /\ Private(got) = Private(put)
           /\ materializeItems(records[e].after) = got \o records[e].response

(* The contributions of a history's turns, in order.                       *)
Contributions(h) ==
    [i \in 1..(2 * Len(h)) |-> IF i % 2 = 1 THEN h[(i + 1) \div 2].request ELSE h[i \div 2].response]

(* A checkpoint's history key fingerprints the content it stores: its      *)
(* visible items are the turns of the key, through every chain of explicit *)
(* and implicit resumption.  A wrong key would hand a client that resends  *)
(* one conversation the checkpoint of another.                             *)
HistoryDescribesContent ==
    \A e \in DOMAIN records :
        LET h == records[e].history
        IN h # Nil =>
             Seen(materializeItems(records[e].after)) = Contributions(h)

(* A checkpoint holds what was committed, under the key of what it holds.  *)
CheckpointFaithful == StoredAsCommitted /\ HistoryDescribesContent

Live(ws) == {id \in DOMAIN records : records[id].workspace = ws /\ records[id].expiresAt > now}

(* An exchange resumes only from a checkpoint of its workspace that has    *)
(* not expired at that moment, whether or not expiry was reclaimed before. *)
SelectionLive ==
    [][\A e \in Exchange :
          (exchange[e].at = "new" /\ exchange'[e].selected # None) =>
             exchange'[e].selected \in Live(exchange'[e].workspace)]_vars

(* Store: "History lookup succeeds only when exactly one live checkpoint   *)
(* carries the key", and it does succeed then.                             *)
HistorySelectionUnique ==
    [][\A e \in {x \in Exchange : exchange'[x] # exchange[x]}, ws \in Workspace, q \in Request,
          h \in HistoryUpTo(MaxTurns), split \in BOOLEAN :
          ResumeByHistory(e, ws, q, h, split) =>
             LET carriers == {id \in Live(ws) : records[id].history = h}
                 selected == exchange'[e].selected
             IN IF selected = None THEN Cardinality(carriers) # 1 ELSE carriers = {selected}]_vars

(* An exchange resumes only what the store may hand out: a live checkpoint *)
(* of its workspace, and by history the only one.                          *)
SelectionSound == SelectionLive /\ HistorySelectionUnique

(* A stored checkpoint leaves the store only when it has expired or when a *)
(* full store evicts one that expires no later than any other live one.    *)
RecordsLeaveWhenDue ==
    [][\A e \in DOMAIN records :
          \/ e \in DOMAIN records' /\ records'[e] = records[e]
          \/ /\ e \notin DOMAIN records'
             /\ \/ records[e].expiresAt <= now
                \/ \A o \in DOMAIN records : records[o].expiresAt <= now \/ records[e].expiresAt <= records[o].expiresAt]_vars

(* Whatever is stored, expires or is evicted, what a stored checkpoint     *)
(* materialises to does not change.                                        *)
ContentImmutable ==
    [][\A e \in DOMAIN records \cap DOMAIN records' :
          materializeItems(records[e].after)' = materializeItems(records[e].after)]_vars

(* A stored checkpoint is immutable and leaves only when it is due.        *)
LeavesOnlyWhenDue == RecordsLeaveWhenDue /\ ContentImmutable

=============================================================================
