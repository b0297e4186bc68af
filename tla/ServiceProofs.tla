---------------------------- MODULE ServiceProofs ----------------------------
(***************************************************************************)
(* Proofs about the two services the analysis reports to: AuditStore, for  *)
(* any requests, any backends and any bounds, and Notifier, for any        *)
(* requests and targets.  The two share no state.                          *)
(***************************************************************************)
EXTENDS AuditStore, Notifier, ListProofs

(***************************************************************************)
(* The audit service                                                       *)
(***************************************************************************)

StoredEntry == [id : Reqs, fields : {FieldsOf[r] : r \in Reqs}, payload : Reqs, sig : {Sign(p) : p \in Reqs}, createdAt : Nat]

TypeInv ==
    /\ req \in [Reqs -> {"idle", "insert", "badRequest", "count", "storeError", "created", "cut"}]
    /\ createdAt \in [Reqs -> Nat]
    /\ entries \in Seq(StoredEntry)
    /\ inserted \in Nat
    /\ now \in Nat
    /\ restarts \in Nat

(* The requests whose entry is stored and not yet counted. *)
Uncounted == {r \in Reqs : req[r] = "count"}

IsStored(r) == \E i \in 1 .. Len(entries) : entries[i].id = r

(***************************************************************************)
(* A request stores its entry at most once, so an ID names one entry, and  *)
(* what the counter says is behind what is stored by the requests that are *)
(* between the two steps.                                                  *)
(***************************************************************************)
StoreInv ==
    /\ TypeInv
    /\ \A i \in 1 .. Len(entries) : /\ entries[i].sig = Sign(entries[i].payload)
                                    /\ req[entries[i].id] \notin {"idle", "insert"}
    /\ \A i, k \in 1 .. Len(entries) : entries[i].id = entries[k].id => i = k
    /\ \A r \in Reqs : req[r] = "count" => IsStored(r)
    /\ \A r \in Reqs : req[r] = "created" => IsStored(r) \/ (backend = "memory" /\ restarts > 0)
    /\ IsFiniteSet(Uncounted)
    /\ inserted + Cardinality(Uncounted) <= Len(entries)

LEMMA StoreInit == Init => StoreInv
<1> SUFFICES ASSUME Init PROVE StoreInv
  OBVIOUS
<1>1. TypeInv
  BY DEF Init, TypeInv
<1>2. Uncounted = {}
  BY DEF Init, Uncounted
<1>3. IsFiniteSet(Uncounted) /\ Cardinality(Uncounted) = 0
  BY <1>2, FS_EmptySet
<1> QED BY <1>1, <1>3 DEF Init, StoreInv

LEMMA EntryStored == ASSUME TypeInv, NEW r \in Reqs
                     PROVE  /\ Entry(r) \in StoredEntry /\ Entry(r).id = r
                            /\ Entry(r).sig = Sign(Entry(r).payload)
  BY DEF TypeInv, Entry, StoredEntry

(* What a step that stores the entry of r does to the list. *)
LEMMA Stores ==
    ASSUME TypeInv, NEW r \in Reqs, entries' = Append(entries, Entry(r))
    PROVE  /\ entries' \in Seq(StoredEntry) /\ Len(entries') = Len(entries) + 1 /\ Len(entries) \in Nat
           /\ \A i \in 1 .. Len(entries) : entries'[i] = entries[i]
           /\ entries'[Len(entries) + 1].id = r
           /\ entries'[Len(entries) + 1].sig = Sign(entries'[Len(entries) + 1].payload)
<1>1. PICK e \in StoredEntry : e = Entry(r) /\ e.id = r /\ e.sig = Sign(e.payload)
  BY EntryStored
<1>2. entries \in Seq(StoredEntry) /\ entries' = Append(entries, e)
  BY <1>1 DEF TypeInv
<1>3. /\ entries' \in Seq(StoredEntry) /\ Len(entries') = Len(entries) + 1 /\ Len(entries) \in Nat
      /\ \A i \in 1 .. Len(entries) : entries'[i] = entries[i]
      /\ entries'[Len(entries) + 1] = e
  BY <1>2
<1> QED BY <1>1, <1>3

LEMMA StoreNext == StoreInv /\ [Next]_vars => StoreInv'
<1> SUFFICES ASSUME StoreInv, [Next]_vars PROVE StoreInv'
  OBVIOUS
<1>0. /\ TypeInv /\ Len(entries) \in Nat /\ inserted \in Nat /\ IsFiniteSet(Uncounted)
      /\ Cardinality(Uncounted) \in Nat /\ inserted + Cardinality(Uncounted) <= Len(entries)
      /\ \A i \in 1 .. Len(entries) : entries[i].id \in Reqs
  <2>1. IsFiniteSet(Uncounted) /\ Cardinality(Uncounted) \in Nat
    BY FS_CardinalityType DEF StoreInv
  <2>2. \A e \in StoredEntry : e.id \in Reqs
    BY DEF StoredEntry
  <2>3. Len(entries) \in Nat /\ \A i \in 1 .. Len(entries) : entries[i] \in StoredEntry
    BY DEF StoreInv, TypeInv
  <2> QED BY <2>1, <2>2, <2>3 DEF StoreInv, TypeInv
(* A step of one request that leaves the list alone. *)
<1>a. ASSUME NEW r \in Reqs, NEW to, TypeInv', UNCHANGED <<backend, entries, restarts>>,
             req' = [req EXCEPT ![r] = to], to \notin {"idle", "insert", "count", "created"} \/
                 (to = "insert" /\ req[r] = "idle"),
             req[r] \in {"idle", "insert"}, UNCHANGED inserted
      PROVE  StoreInv'
  <2>1. Uncounted' = Uncounted
    BY <1>0, <1>a DEF Uncounted, TypeInv
  <2>2. \A i \in 1 .. Len(entries) : req'[entries[i].id] = req[entries[i].id]
    BY <1>0, <1>a DEF StoreInv, TypeInv
  <2>3. \A q \in Reqs : req'[q] \in {"count", "created"} => req'[q] = req[q]
    BY <1>0, <1>a DEF TypeInv
  <2> QED BY <1>0, <1>a, <2>1, <2>2, <2>3 DEF StoreInv, IsStored
<1>1. ASSUME NEW r \in Reqs, Receive(r) PROVE StoreInv'
  <2>1. TypeInv'
    BY <1>0, <1>1 DEF Receive, TypeInv
  <2> QED BY <1>1, <1>a, <2>1 DEF Receive
(* A step that stores the entry of r. *)
<1>b. ASSUME NEW r \in Reqs, req[r] = "insert", NEW to \in {"count", "storeError"},
             req' = [req EXCEPT ![r] = to], entries' = Append(entries, Entry(r)),
             UNCHANGED <<backend, createdAt, inserted, now, restarts>>
      PROVE  StoreInv'
  <2>1. /\ entries' \in Seq(StoredEntry) /\ Len(entries') = Len(entries) + 1
        /\ \A i \in 1 .. Len(entries) : entries'[i] = entries[i]
        /\ entries'[Len(entries) + 1].id = r
        /\ entries'[Len(entries) + 1].sig = Sign(entries'[Len(entries) + 1].payload)
    BY <1>0, <1>b, Stores
  <2>2. TypeInv'
    BY <1>0, <1>b, <2>1 DEF TypeInv
  <2>3. \A i \in 1 .. Len(entries') : i \in 1 .. Len(entries) \/ i = Len(entries) + 1
    BY <1>0, <2>1
  <2>4. \A i \in 1 .. Len(entries) : entries[i].id # r /\ req'[entries[i].id] = req[entries[i].id]
    BY <1>0, <1>b DEF StoreInv, TypeInv
  <2>5. req'[r] = to
    BY <1>0, <1>b DEF TypeInv
  <2>6. \A i \in 1 .. Len(entries') : /\ entries'[i].sig = Sign(entries'[i].payload)
                                      /\ req'[entries'[i].id] \notin {"idle", "insert"}
    BY <2>1, <2>3, <2>4, <2>5 DEF StoreInv
  <2>7. \A i, k \in 1 .. Len(entries') : entries'[i].id = entries'[k].id => i = k
    BY <2>1, <2>3, <2>4 DEF StoreInv
  <2>8. IsStored(r)' /\ \A q \in Reqs : IsStored(q) => IsStored(q)'
    <3>1. Len(entries) + 1 \in 1 .. Len(entries') /\ \A i \in 1 .. Len(entries) : i \in 1 .. Len(entries')
      BY <1>0, <2>1
    <3> QED BY <2>1, <3>1 DEF IsStored
  <2>9. \A q \in Reqs : q # r => req'[q] = req[q]
    BY <1>0, <1>b DEF TypeInv
  <2>10. /\ \A q \in Reqs : req'[q] = "count" => IsStored(q)'
         /\ \A q \in Reqs : req'[q] = "created" => IsStored(q)' \/ (backend' = "memory" /\ restarts' > 0)
    BY <1>b, <2>5, <2>8, <2>9 DEF StoreInv
  <2>11. IsFiniteSet(Uncounted') /\ inserted' + Cardinality(Uncounted') <= Len(entries')
    <3>1. CASE to = "count"
      <4>1. Uncounted' = Uncounted \cup {r} /\ r \notin Uncounted
        BY <1>0, <1>b, <3>1 DEF Uncounted, TypeInv
      <4>2. IsFiniteSet(Uncounted') /\ Cardinality(Uncounted') = Cardinality(Uncounted) + 1
        BY <1>0, <4>1, FS_AddElement
      <4> QED BY <1>0, <1>b, <2>1, <4>2
    <3>2. CASE to = "storeError"
      <4>1. Uncounted' = Uncounted
        BY <1>0, <1>b, <3>2 DEF Uncounted, TypeInv
      <4> QED BY <1>0, <1>b, <2>1, <4>1
    <3> QED BY <3>1, <3>2
  <2> QED BY <2>2, <2>6, <2>7, <2>10, <2>11 DEF StoreInv
<1>2. ASSUME NEW r \in Reqs, Insert(r) PROVE StoreInv'
  BY <1>2, <1>b DEF Insert
<1>3. ASSUME NEW r \in Reqs, InsertFails(r) PROVE StoreInv'
  <2>1. CASE entries' = Append(entries, Entry(r))
    BY <1>3, <1>b, <2>1 DEF InsertFails
  <2>2. CASE entries' = entries
    <3>1. TypeInv'
      BY <1>0, <1>3, <2>2 DEF InsertFails, TypeInv
    <3> QED BY <1>3, <1>a, <2>2, <3>1 DEF InsertFails
  <2> QED BY <1>3, <2>1, <2>2 DEF InsertFails
<1>4. ASSUME NEW r \in Reqs, Created(r) PROVE StoreInv'
  <2>1. TypeInv' /\ entries' = entries /\ inserted' = inserted + 1
    BY <1>0, <1>4 DEF Created, TypeInv
  <2>2. Uncounted' = Uncounted \ {r} /\ r \in Uncounted
    BY <1>0, <1>4 DEF Created, Uncounted, TypeInv
  <2>3. IsFiniteSet(Uncounted') /\ Cardinality(Uncounted') = Cardinality(Uncounted) - 1
    BY <1>0, <2>2, FS_RemoveElement
  <2>4. inserted' + Cardinality(Uncounted') <= Len(entries')
    BY <1>0, <2>1, <2>3
  <2>5. \A i \in 1 .. Len(entries) : req'[entries[i].id] \notin {"idle", "insert"}
    BY <1>0, <1>4 DEF Created, StoreInv, TypeInv
  <2>6. \A q \in Reqs : req'[q] = IF q = r THEN "created" ELSE req[q]
    BY <1>0, <1>4 DEF Created, TypeInv
  <2>7. IsStored(r) /\ \A q \in Reqs : IsStored(q)' = IsStored(q)
    BY <1>4, <2>1 DEF Created, StoreInv, IsStored
  <2> QED BY <1>4, <2>1, <2>3, <2>4, <2>5, <2>6, <2>7 DEF Created, StoreInv
<1>5. CASE Restart
  <2>0. \A q \in Reqs : req'[q] = IF req[q] \in {"insert", "count"} THEN "cut" ELSE req[q]
    BY <1>5 DEF Restart
  <2>1. TypeInv' /\ Len(entries') \in Nat /\ inserted' = 0
    BY <1>0, <1>5 DEF Restart, TypeInv
  <2>2. Uncounted' = {}
    BY <1>5, <2>0 DEF Uncounted
  <2>3. IsFiniteSet(Uncounted') /\ inserted' + Cardinality(Uncounted') <= Len(entries')
    <3>1. IsFiniteSet(Uncounted') /\ Cardinality(Uncounted') = 0
      BY <2>2, FS_EmptySet
    <3> QED BY <2>1, <3>1
  <2>4. restarts' > 0 /\ backend' = backend
    BY <1>0, <1>5 DEF Restart, TypeInv
  <2>5. CASE backend = "memory"
    <3>1. entries' = <<>> /\ Len(entries') = 0
      BY <1>5, <2>5 DEF Restart
    <3> QED BY <2>0, <2>1, <2>3, <2>4, <2>5, <3>1 DEF StoreInv
  <2>6. CASE backend # "memory"
    <3>1. entries' = entries
      BY <1>5, <2>6 DEF Restart
    <3>2. \A i \in 1 .. Len(entries) : req'[entries[i].id] \notin {"idle", "insert"}
      BY <1>0, <2>0 DEF StoreInv
    <3> QED BY <2>0, <2>1, <2>3, <2>4, <2>6, <3>1, <3>2 DEF StoreInv, IsStored
  <2> QED BY <2>5, <2>6
<1>6. CASE Tick \/ UNCHANGED vars
  <2>1. TypeInv' /\ UNCHANGED <<backend, req, entries, inserted, restarts>>
    BY <1>0, <1>6 DEF Tick, vars, TypeInv
  <2> QED BY <2>1 DEF StoreInv, IsStored, Uncounted
<1> QED BY <1>1, <1>2, <1>3, <1>4, <1>5, <1>6 DEF Next, Finished

(* Of every entry answered 201 there is a signed copy that verifies, unless *)
(* a restart has emptied a store in memory, and the counter never exceeds   *)
(* what is stored, whichever inserts failed half-way and whenever the       *)
(* process died.                                                            *)
THEOREM EntriesAreKept == Spec => []CreatedIsKept
<1>1. StoreInv => CreatedIsKept
  <2> SUFFICES ASSUME StoreInv PROVE CreatedIsKept
    OBVIOUS
  <2>1. Len(entries) \in Nat /\ inserted \in Nat /\ Cardinality(Uncounted) \in Nat
    BY FS_CardinalityType DEF StoreInv, TypeInv
  <2>2. inserted <= Len(entries)
    BY <2>1 DEF StoreInv
  <2>3. ASSUME NEW r \in Reqs, IsStored(r) PROVE Verify(r)
    <3>1. PICK i \in 1 .. Len(entries) : entries[i].id = r
      BY <2>3 DEF IsStored
    <3>2. \A k \in 1 .. i - 1 : k \in 1 .. Len(entries) /\ k # i
      BY <2>1
    <3>3. \A k \in 1 .. i - 1 : entries[k].id # r
      BY <3>1, <3>2 DEF StoreInv
    <3> QED BY <3>1, <3>3 DEF Verify, VerifySig, StoreInv
  <2> QED BY <2>2, <2>3 DEF CreatedIsKept, StoreInv
<1> QED BY <1>1, StoreInit, StoreNext, PTL DEF Spec

(* The log only grows at its end: no step changes, removes or reorders an   *)
(* entry, except the restart that empties a store in memory.                *)
THEOREM LogIsAppendOnly == Spec => AppendOnly
<1>1. ASSUME StoreInv, [Next]_vars
      PROVE  [IsPrefix(entries, entries') \/ (backend = "memory" /\ restarts' > restarts)]_vars
  <2>0. TypeInv /\ entries \in Seq(StoredEntry) /\ restarts \in Nat
    BY <1>1 DEF StoreInv, TypeInv
  <2>1. CASE entries' = entries
    BY <2>0, <2>1 DEF IsPrefix
  <2>2. ASSUME NEW r \in Reqs, entries' = Append(entries, Entry(r)) PROVE IsPrefix(entries, entries')
    <3>1. PICK e \in StoredEntry : e = Entry(r)
      BY <2>0, EntryStored
    <3>2. entries' = Append(entries, e)
      BY <2>2, <3>1
    <3> QED BY <2>0, <3>2 DEF IsPrefix
  <2>3. CASE Restart
    BY <2>0, <2>1, <2>3 DEF Restart
  <2> QED BY <1>1, <2>1, <2>2, <2>3
          DEF Next, Receive, Insert, InsertFails, Created, Tick, Finished, vars
<1> QED BY <1>1, StoreInit, StoreNext, PTL DEF Spec, AppendOnly

(***************************************************************************)
(* What a query returns                                                    *)
(***************************************************************************)

(* The places of the entries a query wants. *)
Places(q) == {i \in DOMAIN entries : Wanted(q, entries[i])}

(* The entries are all different, so a set of places has as many of them. *)
LEMMA EntriesAt ==
    ASSUME StoreInv, NEW I, I \subseteq 1 .. Len(entries)
    PROVE  /\ IsFiniteSet(I) /\ Cardinality(I) \in Nat /\ IsFiniteSet({entries[i] : i \in I})
           /\ Cardinality({entries[i] : i \in I}) = Cardinality(I)
<1> DEFINE T == {entries[i] : i \in I}
           f == [i \in I |-> entries[i]]
<1>1. IsFiniteSet(I) /\ Cardinality(I) \in Nat
  <2>1. Len(entries) \in Nat
    BY DEF StoreInv, TypeInv
  <2>2. IsFiniteSet(1 .. Len(entries))
    BY <2>1, FS_Interval
  <2> QED BY <2>2, FS_Subset, FS_CardinalityType
<1>2. \A i, k \in I : entries[i] = entries[k] => i = k
  BY DEF StoreInv
<1>3. f \in [I -> T] /\ \A i \in I : f[i] = entries[i]
  OBVIOUS
<1>4. \A t \in T : \E i \in I : f[i] = t
  OBVIOUS
<1> HIDE DEF f, T
<1>5. f \in Bijection(I, T)
  BY <1>2, <1>3, <1>4 DEF Bijection, Injection, Surjection, IsInjective
<1>6. ExistsBijection(I, T)
  BY <1>5 DEF ExistsBijection
<1> QED BY <1>1, <1>6, FS_Bijection DEF T

(* The matches are listed once each, in the order they were inserted in. *)
LEMMA MatchingLists ==
    ASSUME StoreInv, NEW q
    PROVE  LET out == Matching(q)
           IN  /\ out \in Seq(StoredEntry) /\ IsFiniteSet(Matches(q))
               /\ Len(out) = Cardinality(Matches(q)) /\ Len(out) \in Nat
               /\ ToSet(out) = Matches(q)
               /\ \A j \in 1 .. Len(out) : \E k \in 1 .. Len(entries) :
                      /\ entries[k] = out[j] /\ out[j] \in Matches(q)
                      /\ Cardinality(MatchesBefore(q, k)) = j - 1
<1> DEFINE out == Matching(q)
           S == Places(q)
<1>1. entries \in Seq(StoredEntry) /\ Len(entries) \in Nat /\ DOMAIN entries = 1 .. Len(entries)
  BY DEF StoreInv, TypeInv
<1>2. S \subseteq 1 .. Len(entries) /\ S \subseteq DOMAIN entries
  BY <1>1 DEF Places
<1>3. out = Sublist(entries, S)
  BY DEF Matching, Places
<1>4. Matches(q) = {entries[i] : i \in S}
  BY DEF Matches, ToSet, Places
<1>5. /\ IsFiniteSet(S) /\ Cardinality(S) \in Nat /\ IsFiniteSet(Matches(q))
      /\ Cardinality(Matches(q)) = Cardinality(S)
  BY <1>2, <1>4, EntriesAt
<1> HIDE DEF S, out
<1>6. /\ out \in Seq(StoredEntry) /\ Len(out) = Cardinality(S)
      /\ \A j \in 1 .. Len(out) : Ascending(S)[j] \in S /\ out[j] = entries[Ascending(S)[j]]
      /\ \A i \in S : \E j \in 1 .. Len(out) : out[j] = entries[i]
  <2>1. LET o == Sublist(entries, S)
        IN  /\ o \in Seq(StoredEntry) /\ Len(o) = Cardinality(S)
            /\ \A j \in 1 .. Cardinality(S) : Ascending(S)[j] \in S /\ o[j] = entries[Ascending(S)[j]]
            /\ \A i \in S : \E j \in 1 .. Cardinality(S) : Ascending(S)[j] = i /\ o[j] = entries[i]
    BY <1>1, <1>2, SublistHas, SMTT(30)
  <2> QED BY <1>3, <2>1, Zenon
<1>7. ToSet(out) = Matches(q)
  <2>1. DOMAIN out = 1 .. Len(out)
    BY <1>6
  <2>2. ToSet(out) = {out[j] : j \in 1 .. Len(out)}
    BY <2>1 DEF ToSet
  <2> QED BY <1>4, <1>6, <2>2
<1>8. ASSUME NEW j \in 1 .. Len(out)
      PROVE  \E k \in 1 .. Len(entries) : /\ entries[k] = out[j] /\ out[j] \in Matches(q)
                                          /\ Cardinality(MatchesBefore(q, k)) = j - 1
  <2>1. PICK k \in S : k = Ascending(S)[j] /\ out[j] = entries[k]
    BY <1>6
  <2> DEFINE UpTo == {m \in S : m <= k}
             Before == {m \in S : m < k}
  <2>2. Cardinality(UpTo) = j
    <3>1. \A i \in 1 .. Cardinality(S) : Cardinality({m \in S : m <= Ascending(S)[i]}) = i
      BY <1>1, <1>2, AscendingLists, Zenon
    <3> QED BY <1>6, <2>1, <3>1
  <2>3. k \in UpTo /\ Before = UpTo \ {k} /\ UpTo \subseteq S /\ Before \subseteq 1 .. Len(entries)
    BY <1>2
  <2>4. IsFiniteSet(UpTo)
    BY <1>5, <2>3, FS_Subset
  <2>5. MatchesBefore(q, k) = {entries[m] : m \in Before}
    <3>0. \A e : e \in MatchesBefore(q, k) <=> /\ \E i \in S : entries[i] = e
                                               /\ \E m \in 1 .. k - 1 : entries[m] = e
      BY <1>4 DEF MatchesBefore
    <3>1. ASSUME NEW e \in MatchesBefore(q, k) PROVE \E m \in Before : e = entries[m]
      <4>1. PICK i \in S : entries[i] = e
        BY <3>0, <3>1
      <4>2. PICK m \in 1 .. k - 1 : entries[m] = e
        BY <3>0, <3>1
      <4>3. i \in 1 .. Len(entries) /\ m \in 1 .. Len(entries) /\ m < k
        BY <1>1, <1>2, <2>1, <4>1, <4>2
      <4>4. i = m
        BY <4>1, <4>2, <4>3 DEF StoreInv
      <4> QED BY <4>1, <4>3, <4>4
    <3>2. ASSUME NEW m \in Before PROVE entries[m] \in MatchesBefore(q, k)
      <4>1. m \in S /\ m \in 1 .. k - 1
        BY <1>2
      <4> QED BY <3>0, <4>1
    <3> QED BY <3>1, <3>2
  <2>6. Cardinality(MatchesBefore(q, k)) = Cardinality(Before)
    BY <2>3, <2>5, EntriesAt
  <2> HIDE DEF UpTo, Before
  <2>7. Cardinality(Before) = j - 1
    BY <2>2, <2>3, <2>4, FS_RemoveElement
  <2>8. k \in 1 .. Len(entries) /\ out[j] \in Matches(q)
    BY <1>2, <1>4, <2>1
  <2> QED BY <2>1, <2>6, <2>7, <2>8
<1> QED BY <1>5, <1>6, <1>7, <1>8 DEF out

(* A slice has room for what was appended to it. *)
LEMMA CapSuffices == ASSUME NEW n \in Nat PROVE CapOf(n) \in Nat /\ n <= CapOf(n)
<1> DEFINE Cap(k, old) == IF k <= old THEN old ELSE Grown(old)
           step == [p \in (1 .. n) \X Nat |-> Cap(p[1], p[2])]
           E(c) == [k \in 0 .. n |-> IF k = 0 THEN 0 ELSE IF k <= c[k - 1] THEN c[k - 1] ELSE Grown(c[k - 1])]
           f == CHOOSE c : c = E(c)
<1>1. \A old \in Nat : Grown(old) \in Nat /\ Grown(old) > old
  BY DEF Grown
<1>2. step \in [(1 .. n) \X Nat -> Nat]
  BY <1>1
<1>3. PICK g \in [0 .. n -> Nat] : Iterates(g, n, 0, step)
  <2> HIDE DEF step
  <2> QED BY <1>2, IterationExists
<1>4. \A k \in 0 .. n : g[k] = IF k = 0 THEN 0 ELSE IF k <= g[k - 1] THEN g[k - 1] ELSE Grown(g[k - 1])
  <2>1. ASSUME NEW k \in 1 .. n PROVE step[<<k, g[k - 1]>>] = Cap(k, g[k - 1])
    <3>1. k - 1 \in 0 .. n
      OBVIOUS
    <3>2. <<k, g[k - 1]>> \in (1 .. n) \X Nat
      BY <3>1
    <3> HIDE DEF Cap
    <3> QED BY <3>2
  <2>2. \A k \in 0 .. n : k = 0 \/ k \in 1 .. n
    OBVIOUS
  <2>3. g[0] = 0 /\ \A k \in 1 .. n : g[k] = Cap(k, g[k - 1])
    <3> HIDE DEF step, Cap
    <3> QED BY <1>3, <2>1 DEF Iterates
  <2> QED BY <2>2, <2>3
<1>5. g = E(g)
  BY <1>3, <1>4
<1>6. CapOf(n) = f[n]
  BY DEF CapOf
<1>7. f = E(f)
  <2> HIDE DEF E
  <2> QED BY <1>5
<1> HIDE DEF f
<1>8. \A k \in 0 .. n : f[k] = IF k = 0 THEN 0 ELSE IF k <= f[k - 1] THEN f[k - 1] ELSE Grown(f[k - 1])
  <2>1. \A k \in 0 .. n : E(f)[k] = IF k = 0 THEN 0 ELSE IF k <= f[k - 1] THEN f[k - 1] ELSE Grown(f[k - 1])
    BY DEF E
  <2> HIDE DEF E
  <2> QED BY <1>7, <2>1, Zenon
<1> DEFINE G == {k \in 0 .. n : f[k] \in Nat /\ k <= f[k]}
<1>9. \A k \in 0 .. n : k \in G
  <2>1. 0 \in G
    <3>1. f[0] = 0
      BY <1>8
    <3> QED BY <3>1
  <2>2. ASSUME NEW k \in 1 .. n, k - 1 \in G PROVE k \in G
    <3>1. f[k - 1] \in Nat /\ k - 1 <= f[k - 1] /\ k \in 0 .. n /\ k # 0
      BY <2>2
    <3>2. f[k] = IF k <= f[k - 1] THEN f[k - 1] ELSE Grown(f[k - 1])
      BY <1>8, <3>1
    <3>3. f[k] \in Nat /\ k <= f[k]
      <4>1. PICK old \in Nat : old = f[k - 1]
        BY <3>1
      <4>2. Grown(old) \in Nat /\ Grown(old) > old /\ k - 1 <= old
        BY <1>1, <3>1, <4>1
      <4>3. f[k] = IF k <= old THEN old ELSE Grown(old)
        BY <3>2, <4>1
      <4> HIDE DEF f
      <4> QED BY <4>2, <4>3
    <3> QED BY <3>1, <3>3
  <2> HIDE DEF G
  <2> QED BY <2>1, <2>2, Climbs
<1> QED BY <1>6, <1>9

(* In memory a page is the matches from the offset on, in the order of      *)
(* insertion, then at most empty entries, and one that ends within the      *)
(* matches never panics, for any number of entries, limit and offset.       *)
THEOREM MemoryPagesAreExact == Spec => []MemoryPageExact
<1>1. StoreInv => MemoryPageExact
  <2> SUFFICES ASSUME StoreInv, backend = "memory", NEW q \in Queries, q.offset >= 0
               PROVE  LET answer == MemoryQuery(q)
                          n      == Cardinality(Matches(q))
                          size   == IF Limit(q) > 0 THEN Min2(Limit(q), n) ELSE n
                      IN  /\ q.offset + size <= n => ~answer.panic
                          /\ ~answer.panic => Len(answer.page) = IF q.offset < n THEN size ELSE 0
                          /\ ~answer.panic => \A i \in 1 .. Len(answer.page) :
                                 IF q.offset + i > n THEN answer.page[i] = ZeroEntry
                                 ELSE \E k \in 1 .. Len(entries) :
                                          /\ entries[k] = answer.page[i] /\ answer.page[i] \in Matches(q)
                                          /\ Cardinality(MatchesBefore(q, k)) = q.offset + i - 1
    BY DEF MemoryPageExact
  <2> DEFINE out    == Matching(q)
             answer == MemoryQuery(q)
             n      == Cardinality(Matches(q))
             size   == IF Limit(q) > 0 THEN Min2(Limit(q), n) ELSE n
             o      == q.offset
             Match(e, p) == \E k \in 1 .. Len(entries) :
                                /\ entries[k] = e /\ e \in Matches(q)
                                /\ Cardinality(MatchesBefore(q, k)) = p
  <2> SUFFICES /\ o + size <= n => ~answer.panic
               /\ Len(answer.page) = IF o < n THEN size ELSE 0
               /\ \A i \in 1 .. Len(answer.page) :
                      IF o + i > n THEN answer.page[i] = ZeroEntry ELSE Match(answer.page[i], o + i - 1)
    OBVIOUS
  <2>1. Len(out) = n /\ n \in Nat /\ \A j \in 1 .. n : Match(out[j], j - 1)
    BY MatchingLists
  <2>2. o \in Nat /\ Limit(q) \in Int
    <3>1. o \in Int /\ q.limit \in Int
      BY BoundAssumption DEF Queries
    <3> QED BY <3>1, BoundAssumption DEF Limit
  <2>3. CapOf(n) \in Nat /\ n <= CapOf(n)
    BY <2>1, CapSuffices
  <2> HIDE DEF out, n, o, Match
  <2>4. size \in Nat /\ size = IF Limit(q) <= 0 \/ Limit(q) > n THEN n ELSE Limit(q)
    BY <2>1, <2>2 DEF Min2
  <2>5. answer = IF o >= n THEN [panic |-> FALSE, page |-> <<>>]
                 ELSE [panic |-> o < 0 \/ o + size > CapOf(n),
                       page  |-> [i \in 1 .. size |-> IF o + i \in 1 .. n THEN out[o + i] ELSE ZeroEntry]]
    BY <2>1, <2>4 DEF MemoryQuery, out, o
  <2> HIDE DEF answer, size
  <2>6. CASE o >= n
    <3>1. answer = [panic |-> FALSE, page |-> <<>>]
      BY <2>5, <2>6
    <3> QED BY <2>1, <2>2, <2>6, <3>1
  <2>7. CASE ~(o >= n)
    <3>1. /\ answer.panic = (o < 0 \/ o + size > CapOf(n))
          /\ answer.page = [i \in 1 .. size |-> IF o + i \in 1 .. n THEN out[o + i] ELSE ZeroEntry]
      BY <2>5, <2>7
    <3>2. ASSUME o + size <= n PROVE ~answer.panic
      <4>1. ~(o < 0 \/ o + size > CapOf(n))
        BY <2>1, <2>2, <2>3, <2>4, <3>2
      <4> QED BY <3>1, <4>1
    <3>3. Len(answer.page) = size
      BY <2>4, <3>1
    <3>4. ASSUME NEW i \in 1 .. size
          PROVE  IF o + i > n THEN answer.page[i] = ZeroEntry ELSE Match(answer.page[i], o + i - 1)
      <4>1. PICK j \in Nat : j = o + i /\ j >= 1
        BY <2>2, <2>4
      <4>2. answer.page[i] = IF j \in 1 .. n THEN out[j] ELSE ZeroEntry
        BY <3>1, <4>1
      <4>3. CASE j > n
        BY <2>1, <4>1, <4>2, <4>3
      <4>4. CASE ~(j > n)
        <5>1. j \in 1 .. n
          BY <2>1, <4>1, <4>4
        <5>2. Match(answer.page[i], j - 1)
          BY <2>1, <4>2, <5>1
        <5>3. ~(o + i > n) /\ j - 1 = o + i - 1
          BY <2>1, <2>2, <2>4, <4>1, <4>4
        <5> QED BY <5>2, <5>3, Zenon
      <4> QED BY <4>3, <4>4
    <3>5. o < n
      BY <2>1, <2>2, <2>7
    <3> QED BY <3>2, <3>3, <3>4, <3>5
  <2> QED BY <2>6, <2>7
<1> QED BY <1>1, StoreInit, StoreNext, PTL DEF Spec

(* The first n elements of a list are at most n. *)
LEMMA FirstAtMost ==
    ASSUME NEW s, NEW n \in Nat, NEW T, T \subseteq {s[i] : i \in 1 .. n}
    PROVE  Cardinality(T) <= n
<1> DEFINE U == {s[i] : i \in 1 .. n}
           f == [i \in 1 .. n |-> s[i]]
<1>1. f \in Surjection(1 .. n, U)
  BY DEF Surjection
<1>2. IsFiniteSet(1 .. n) /\ Cardinality(1 .. n) = n
  BY FS_Interval
<1> HIDE DEF f, U
<1>3. IsFiniteSet(U) /\ Cardinality(U) <= n /\ Cardinality(U) \in Nat
  BY <1>1, <1>2, FS_Surjection, FS_CardinalityType
<1>4. IsFiniteSet(T) /\ Cardinality(T) <= Cardinality(U) /\ Cardinality(T) \in Nat
  BY <1>3, FS_Subset, FS_CardinalityType DEF U
<1> QED BY <1>3, <1>4

(* Those of a list without repetitions are exactly n. *)
LEMMA FirstExactly ==
    ASSUME NEW s, NEW n \in Nat, \A i, k \in 1 .. n : i # k => s[i] # s[k]
    PROVE  Cardinality({s[i] : i \in 1 .. n}) = n
<1> DEFINE U == {s[i] : i \in 1 .. n}
           f == [i \in 1 .. n |-> s[i]]
<1>1. f \in [1 .. n -> U] /\ (\A i \in 1 .. n : f[i] = s[i]) /\ \A t \in U : \E i \in 1 .. n : f[i] = t
  OBVIOUS
<1> HIDE DEF f, U
<1>2. f \in Bijection(1 .. n, U)
  BY <1>1 DEF Bijection, Injection, Surjection, IsInjective
<1>3. ExistsBijection(1 .. n, U)
  BY <1>2 DEF ExistsBijection
<1> QED BY <1>3, FS_CountingElements DEF U

(* A list without repetitions has as many elements as it is long. *)
LEMMA DistinctCount ==
    ASSUME NEW T, NEW s \in Seq(T), \A i, k \in 1 .. Len(s) : i # k => s[i] # s[k]
    PROVE  Cardinality(ToSet(s)) = Len(s)
<1> DEFINE U == ToSet(s)
<1>1. Len(s) \in Nat /\ DOMAIN s = 1 .. Len(s) /\ U = {s[i] : i \in 1 .. Len(s)}
  BY DEF ToSet
<1>2. s \in [1 .. Len(s) -> U] /\ \A t \in U : \E i \in 1 .. Len(s) : s[i] = t
  <2>1. s = [i \in 1 .. Len(s) |-> s[i]]
    BY <1>1
  <2> QED BY <1>1, <2>1
<1> HIDE DEF U
<1>3. s \in Bijection(1 .. Len(s), U)
  BY <1>2 DEF Bijection, Injection, Surjection, IsInjective
<1>4. ExistsBijection(1 .. Len(s), U)
  BY <1>3 DEF ExistsBijection
<1> QED BY <1>1, <1>4, FS_CountingElements DEF U

(* What is left of a list without its first m elements and those after n. *)
LEMMA Window ==
    ASSUME NEW T, NEW s \in Seq(T), NEW m \in Nat, NEW n \in Nat, n <= Len(s)
    PROVE  /\ SubSeq(s, m + 1, n) \in Seq(T)
           /\ Len(SubSeq(s, m + 1, n)) = IF m + 1 <= n THEN n - m ELSE 0
           /\ \A i \in 1 .. Len(SubSeq(s, m + 1, n)) : SubSeq(s, m + 1, n)[i] = s[m + i] /\ m + i \in 1 .. n
<1>1. CASE m + 1 <= n
  <2> DEFINE p == [i \in 1 .. n - m |-> s[m + i]]
  <2>1. \A i \in 1 .. n - m : m + i \in 1 .. n /\ m + i \in 1 .. Len(s)
    BY <1>1
  <2>2. SubSeq(s, m + 1, n) = p
    BY <1>1
  <2>3. n - m \in Nat /\ p \in [1 .. n - m -> T]
    BY <1>1, <2>1
  <2>4. p \in Seq(T) /\ Len(p) = n - m
    BY <2>3
  <2> QED BY <1>1, <2>1, <2>2, <2>4
<1>2. CASE ~(m + 1 <= n)
  <2>1. SubSeq(s, m + 1, n) = <<>>
    BY <1>2
  <2> QED BY <1>2, <2>1
<1> QED BY <1>1, <1>2

(* An order of a set has each of its elements. *)
LEMMA OrderHasAll ==
    ASSUME NEW T, IsFiniteSet(T), NEW s \in SetToSeqs(T)
    PROVE  /\ s \in Seq(T) /\ Len(s) = Cardinality(T) /\ Len(s) \in Nat
           /\ \A i, k \in 1 .. Len(s) : i # k => s[i] # s[k]
           /\ \A t \in T : \E i \in 1 .. Len(s) : s[i] = t
<1> DEFINE n == Cardinality(T)
<1>1. n \in Nat /\ IsFiniteSet(1 .. n) /\ Cardinality(1 .. n) = n
  BY FS_CardinalityType, FS_Interval
<1>2. s \in [1 .. n -> T] /\ \A i, k \in 1 .. n : i # k => s[i] # s[k]
  BY DEF SetToSeqs
<1> HIDE DEF n
<1>3. s \in Injection(1 .. n, T)
  BY <1>2 DEF Injection, IsInjective
<1>4. s \in Surjection(1 .. n, T)
  BY <1>1, <1>3, FS_Injection DEF n
<1>5. s \in Seq(T) /\ Len(s) = n
  BY <1>1, <1>2
<1> QED BY <1>1, <1>2, <1>4, <1>5 DEF n, Surjection

(* In Postgres, whatever order entries of one time come in, a page has as   *)
(* many matches as limit and offset leave, no two the same, and at each     *)
(* place one of the time that place has in the whole listing.               *)
THEOREM PostgresPagesAreExact == Spec => []PostgresPageExact
<1>1. StoreInv => PostgresPageExact
  <2> SUFFICES ASSUME StoreInv, NEW q \in Queries, NEW page \in PostgresQuery(q)
               PROVE  LET n == Cardinality(Matches(q))
                          from == IF q.offset > 0 THEN q.offset ELSE 0
                          left == IF n > from THEN n - from ELSE 0
                      IN  /\ Len(page) = IF Limit(q) > 0 THEN Min2(Limit(q), left) ELSE left
                          /\ ToSet(page) \subseteq Matches(q) /\ Cardinality(ToSet(page)) = Len(page)
                          /\ \A i \in 1 .. Len(page) :
                                 /\ Cardinality(NewerThan(q, page[i])) < from + i
                                 /\ Cardinality(NotOlderThan(q, page[i])) >= from + i
    BY DEF PostgresPageExact
  <2> DEFINE T    == Matches(q)
             n    == Cardinality(T)
             from == IF q.offset > 0 THEN q.offset ELSE 0
             left == IF n > from THEN n - from ELSE 0
             size == IF Limit(q) > 0 THEN Min2(Limit(q), left) ELSE left
  <2>1. IsFiniteSet(T) /\ n \in Nat /\ ToSet(Matching(q)) = T
    BY MatchingLists, FS_CardinalityType
  <2>2. from \in Nat /\ Limit(q) \in Int
    <3>1. q.offset \in Int /\ q.limit \in Int
      BY BoundAssumption DEF Queries
    <3> QED BY <3>1, BoundAssumption DEF Limit
  <2>3. PICK s \in NewestFirst(T) :
            page = SubSeq(s, from + 1, IF Limit(q) > 0 THEN Min2(from + Limit(q), Len(s)) ELSE Len(s))
    BY <2>1 DEF PostgresQuery
  <2>4. \A e \in T : e.createdAt \in Nat
    <3>1. \A e \in StoredEntry : e.createdAt \in Nat
      BY DEF StoredEntry
    <3>2. \A e \in T : e \in StoredEntry
      BY DEF Matches, ToSet, StoreInv, TypeInv
    <3> QED BY <3>1, <3>2
  <2> HIDE DEF T, n, from
  <2>5. /\ s \in Seq(T) /\ Len(s) = n
        /\ \A i, k \in 1 .. n : i # k => s[i] # s[k]
        /\ \A t \in T : \E i \in 1 .. n : s[i] = t
    <3>1. s \in SetToSeqs(T)
      BY DEF NewestFirst
    <3> QED BY <2>1, <3>1, OrderHasAll DEF n
  <2>6. \A i, k \in 1 .. n : i < k => s[i].createdAt >= s[k].createdAt
    BY <2>5 DEF NewestFirst
  <2>7. PICK hi \in Nat : /\ hi = IF Limit(q) > 0 THEN Min2(from + Limit(q), n) ELSE n
                          /\ hi <= n
    BY <2>1, <2>2 DEF Min2
  <2>8. size \in Nat /\ size = IF from + 1 <= hi THEN hi - from ELSE 0
    BY <2>1, <2>2, <2>7 DEF Min2
  <2>9. page = SubSeq(s, from + 1, hi)
    BY <2>3, <2>5, <2>7
  <2> HIDE DEF size
  <2>10. /\ page \in Seq(T) /\ Len(page) = size
         /\ \A i \in 1 .. size : page[i] = s[from + i] /\ from + i \in 1 .. n
    <3>1. PICK p : p = SubSeq(s, from + 1, hi)
      OBVIOUS
    <3>2. /\ p \in Seq(T) /\ Len(p) = IF from + 1 <= hi THEN hi - from ELSE 0
          /\ \A i \in 1 .. Len(p) : p[i] = s[from + i] /\ from + i \in 1 .. hi
      <4>0. from \in Nat /\ hi \in Nat /\ s \in Seq(T) /\ hi <= Len(s)
        BY <2>2, <2>5, <2>7
      <4>1. /\ SubSeq(s, from + 1, hi) \in Seq(T)
            /\ Len(SubSeq(s, from + 1, hi)) = IF from + 1 <= hi THEN hi - from ELSE 0
            /\ \A i \in 1 .. Len(SubSeq(s, from + 1, hi)) :
                   SubSeq(s, from + 1, hi)[i] = s[from + i] /\ from + i \in 1 .. hi
        BY <4>0, Window, Zenon
      <4> QED BY <3>1, <4>1, Zenon
    <3>3. page = p /\ Len(p) = size
      BY <2>8, <2>9, <3>1, <3>2
    <3>4. \A i \in 1 .. hi : i \in 1 .. n
      BY <2>1, <2>7
    <3> QED BY <3>2, <3>3, <3>4
  <2>11. ToSet(page) \subseteq T
    BY <2>10 DEF ToSet
  <2>12. Cardinality(ToSet(page)) = Len(page)
    <3>1. ASSUME NEW i \in 1 .. Len(page), NEW k \in 1 .. Len(page), i # k PROVE page[i] # page[k]
      <4>1. /\ page[i] = s[from + i] /\ from + i \in 1 .. n
            /\ page[k] = s[from + k] /\ from + k \in 1 .. n /\ from + i # from + k
        BY <2>2, <2>8, <2>10, <3>1
      <4> QED BY <2>5, <4>1
    <3> QED BY <2>10, <3>1, DistinctCount
  <2>13. ASSUME NEW i \in 1 .. Len(page)
         PROVE  /\ Cardinality(NewerThan(q, page[i])) < from + i
                /\ Cardinality(NotOlderThan(q, page[i])) >= from + i
    <3>1. PICK p \in 1 .. n : p = from + i /\ page[i] = s[p]
      BY <2>10
    <3>2. p \in Nat /\ p - 1 \in Nat /\ from + i = p /\ s[p] \in T /\ s[p].createdAt \in Nat
      BY <2>1, <2>4, <2>5, <3>1
    <3>3. ASSUME NEW e \in T, e.createdAt > s[p].createdAt PROVE \E k \in 1 .. p - 1 : e = s[k]
      <4>1. PICK k \in 1 .. n : s[k] = e
        BY <2>5
      <4>2. e.createdAt \in Nat
        BY <2>4
      <4>3. k # p /\ ~(p < k)
        BY <2>6, <3>2, <3>3, <4>1, <4>2
      <4>4. k \in 1 .. p - 1
        BY <2>1, <3>2, <4>3
      <4> QED BY <4>1, <4>4
    <3>4. Cardinality(NewerThan(q, page[i])) <= p - 1
      <4>1. NewerThan(q, page[i]) \subseteq {s[k] : k \in 1 .. p - 1}
        BY <3>1, <3>3 DEF NewerThan, T
      <4> QED BY <3>2, <4>1, FirstAtMost
    <3>5. NewerThan(q, page[i]) \subseteq T /\ NotOlderThan(q, page[i]) \subseteq T
      BY DEF NewerThan, NotOlderThan, T
    <3>6. /\ IsFiniteSet(NotOlderThan(q, page[i])) /\ Cardinality(NotOlderThan(q, page[i])) \in Nat
          /\ Cardinality(NewerThan(q, page[i])) \in Nat
      BY <2>1, <3>5, FS_Subset, FS_CardinalityType
    <3>7. {s[k] : k \in 1 .. p} \subseteq NotOlderThan(q, page[i])
      <4>1. ASSUME NEW k \in 1 .. p PROVE s[k] \in T /\ s[k].createdAt >= s[p].createdAt
        <5>1. k \in 1 .. n /\ (k < p \/ k = p)
          BY <2>1, <3>1, <3>2
        <5>2. s[k] \in T
          BY <2>5, <5>1
        <5> QED BY <2>6, <3>2, <5>1, <5>2
      <4> QED BY <3>1, <4>1 DEF NotOlderThan, T
    <3>8. Cardinality({s[k] : k \in 1 .. p}) = p
      <4>1. \A k, m \in 1 .. p : k # m => s[k] # s[m]
        <5>1. \A k \in 1 .. p : k \in 1 .. n
          BY <2>1, <3>1, <3>2
        <5> QED BY <2>5, <5>1
      <4> QED BY <3>2, <4>1, FirstExactly
    <3>9. p <= Cardinality(NotOlderThan(q, page[i]))
      BY <3>6, <3>7, <3>8, FS_Subset
    <3> QED BY <3>2, <3>4, <3>6, <3>9
  <2> QED BY <2>10, <2>11, <2>12, <2>13 DEF T, n, from, size
<1> QED BY <1>1, StoreInit, StoreNext, PTL DEF Spec

(***************************************************************************)
(* The notification service                                                *)
(***************************************************************************)
NotifyType ==
    /\ handler \in [Notices -> {"idle", "spawned", "badRequest", "accepted"}]
    /\ cancelled \subseteq Notices
    /\ dispatch \in [Notices -> {"none", "loop", "posting", "done"}]
    /\ next \in [Notices -> Nat]
    /\ attempts \in [Notices -> Nat]
    /\ received \in [Notices -> Nat]

(* The Slack targets among the first n. *)
SlackUpTo(r, n) == {i \in 1 .. n : Targets[r][i] = "slack"}

(* How many targets Dispatch has come to. *)
Reached(r) == IF dispatch[r] = "posting" THEN next[r] ELSE next[r] - 1

(***************************************************************************)
(* Dispatch has asked Slack for each Slack target it has come to, as long  *)
(* as the context was not cancelled, and for no other; the message being   *)
(* posted is not among the received ones yet.                              *)
(***************************************************************************)
DispatchOK(r) ==
    /\ handler[r] = "idle" => dispatch[r] = "none"
    /\ next[r] \in 1 .. Len(Targets[r]) + 1
    /\ dispatch[r] = "posting" => next[r] <= Len(Targets[r]) /\ received[r] < attempts[r]
    /\ dispatch[r] = "done" => next[r] = Len(Targets[r]) + 1
    /\ received[r] <= attempts[r]
    /\ attempts[r] <= Cardinality(SlackUpTo(r, Reached(r)))
    /\ SlackEnabled /\ r \notin cancelled => attempts[r] = Cardinality(SlackUpTo(r, Reached(r)))

NotifyInv == NotifyType /\ \A r \in Notices : DispatchOK(r)

(* One more target is one more Slack target, or none. *)
LEMMA SlackCount ==
    ASSUME NEW r, NEW n \in Nat
    PROVE  /\ Cardinality(SlackUpTo(r, n)) \in Nat
           /\ n = 0 => Cardinality(SlackUpTo(r, n)) = 0
           /\ Cardinality(SlackUpTo(r, n + 1)) =
                  Cardinality(SlackUpTo(r, n)) + (IF Targets[r][n + 1] = "slack" THEN 1 ELSE 0)
<1>1. IsFiniteSet(SlackUpTo(r, n))
  <2>1. IsFiniteSet(1 .. n)
    BY FS_Interval
  <2> QED BY <2>1, FS_Subset DEF SlackUpTo
<1>2. Cardinality(SlackUpTo(r, n)) \in Nat
  BY <1>1, FS_CardinalityType
<1>3. n = 0 => Cardinality(SlackUpTo(r, n)) = 0
  <2>1. n = 0 => SlackUpTo(r, n) = {}
    BY DEF SlackUpTo
  <2> QED BY <2>1, FS_EmptySet
<1>4. CASE Targets[r][n + 1] = "slack"
  <2>1. SlackUpTo(r, n + 1) = SlackUpTo(r, n) \cup {n + 1} /\ n + 1 \notin SlackUpTo(r, n)
    BY <1>4 DEF SlackUpTo
  <2>2. Cardinality(SlackUpTo(r, n + 1)) = Cardinality(SlackUpTo(r, n)) + 1
    BY <1>1, <2>1, FS_AddElement
  <2> QED BY <1>2, <1>3, <1>4, <2>2
<1>5. CASE Targets[r][n + 1] # "slack"
  <2>1. SlackUpTo(r, n + 1) = SlackUpTo(r, n)
    BY <1>5 DEF SlackUpTo
  <2> QED BY <1>2, <1>3, <1>5, <2>1
<1> QED BY <1>4, <1>5

LEMMA NotifyInit == NotifierInit => NotifyInv
<1> SUFFICES ASSUME NotifierInit PROVE NotifyInv
  OBVIOUS
<1>1. NotifyType
  BY DEF NotifierInit, NotifyType
<1>2. ASSUME NEW r \in Notices PROVE DispatchOK(r)
  <2>1. Len(Targets[r]) \in Nat
    BY TargetsAssumption
  <2>2. next[r] = 1 /\ dispatch[r] = "none" /\ attempts[r] = 0 /\ received[r] = 0 /\ Reached(r) = 0
    BY DEF NotifierInit, Reached
  <2>3. Cardinality(SlackUpTo(r, 0)) = 0
    BY SlackCount
  <2> QED BY <2>1, <2>2, <2>3 DEF DispatchOK
<1> QED BY <1>1, <1>2 DEF NotifyInv

Untouched(q) ==
    /\ handler'[q] = handler[q] /\ dispatch'[q] = dispatch[q] /\ next'[q] = next[q]
    /\ attempts'[q] = attempts[q] /\ received'[q] = received[q]
    /\ q \in cancelled' <=> q \in cancelled

LEMMA NotifyNext == NotifyInv /\ [NotifierNext]_notifierVars => NotifyInv'
<1> SUFFICES ASSUME NotifyInv, [NotifierNext]_notifierVars PROVE NotifyInv'
  OBVIOUS
<1>0. NotifyType /\ \A r \in Notices : DispatchOK(r) /\ Len(Targets[r]) \in Nat
  BY TargetsAssumption DEF NotifyInv
(* A step of one request leaves the others alone. *)
<1>a. ASSUME NEW r \in Notices, NotifyType', DispatchOK(r)',
             \A q \in Notices \ {r} : Untouched(q)
      PROVE  NotifyInv'
  <2>1. ASSUME NEW q \in Notices \ {r} PROVE DispatchOK(q)'
    <3>1. Reached(q)' = Reached(q)
      BY <1>a, <2>1 DEF Reached, Untouched
    <3>2. SlackUpTo(q, Reached(q))' = SlackUpTo(q, Reached(q))
      BY <3>1 DEF SlackUpTo
    <3> QED BY <1>0, <1>a, <2>1, <3>2 DEF DispatchOK, Untouched
  <2> QED BY <1>a, <2>1 DEF NotifyInv
(* The values of one request before and after, and the two counts a step   *)
(* may need.                                                               *)
<1>b. ASSUME NEW r \in Notices
      PROVE  /\ next[r] \in Nat /\ attempts[r] \in Nat /\ received[r] \in Nat /\ next[r] >= 1
             /\ Cardinality(SlackUpTo(r, next[r] - 1)) \in Nat
             /\ Cardinality(SlackUpTo(r, next[r])) =
                    Cardinality(SlackUpTo(r, next[r] - 1)) + (IF Targets[r][next[r]] = "slack" THEN 1 ELSE 0)
  <2>1. next[r] \in Nat /\ attempts[r] \in Nat /\ received[r] \in Nat /\ next[r] >= 1
    BY <1>0 DEF NotifyType, DispatchOK
  <2>2. PICK n \in Nat : n = next[r] - 1
    BY <2>1
  <2>3. n + 1 = next[r]
    BY <2>1, <2>2
  <2>4. /\ Cardinality(SlackUpTo(r, n)) \in Nat
        /\ Cardinality(SlackUpTo(r, n + 1)) =
               Cardinality(SlackUpTo(r, n)) + (IF Targets[r][n + 1] = "slack" THEN 1 ELSE 0)
    BY SlackCount
  <2> QED BY <2>1, <2>2, <2>3, <2>4
<1>c. ASSUME NEW r \in Notices, NotifyType',
             \A q \in Notices \ {r} : Untouched(q),
             NEW n \in Nat, n = Reached(r)',
             handler'[r] # "idle" \/ dispatch'[r] = "none",
             next'[r] \in 1 .. Len(Targets[r]) + 1,
             dispatch'[r] = "posting" => next'[r] <= Len(Targets[r]) /\ received'[r] < attempts'[r],
             dispatch'[r] = "done" => next'[r] = Len(Targets[r]) + 1,
             received'[r] <= attempts'[r],
             attempts'[r] <= Cardinality(SlackUpTo(r, n)),
             SlackEnabled /\ r \notin cancelled' => attempts'[r] = Cardinality(SlackUpTo(r, n))
      PROVE  NotifyInv'
  <2>1. SlackUpTo(r, Reached(r))' = SlackUpTo(r, n)
    BY <1>c DEF SlackUpTo
  <2>2. DispatchOK(r)'
    BY <1>c, <2>1 DEF DispatchOK
  <2> QED BY <1>a, <1>c, <2>2
(* The context of r is cancelled, or r comes to its handler's next point.  *)
<1>d. ASSUME NEW r \in Notices, NotifyType', UNCHANGED <<next, attempts, received>>,
             \A q \in Notices \ {r} : Untouched(q), r \in cancelled => r \in cancelled',
             handler'[r] # "idle" \/ dispatch'[r] = "none",
             dispatch'[r] = dispatch[r] \/ (dispatch[r] = "none" /\ dispatch'[r] = "loop")
      PROVE  NotifyInv'
  <2>1. Reached(r)' = Reached(r)
    BY <1>d DEF Reached
  <2>2. SlackUpTo(r, Reached(r))' = SlackUpTo(r, Reached(r))
    BY <2>1 DEF SlackUpTo
  <2>3. DispatchOK(r)'
    BY <1>0, <1>d, <2>2 DEF DispatchOK
  <2> QED BY <1>a, <1>d, <2>3
<1>1. ASSUME NEW r \in Notices, ReceiveNotice(r) PROVE NotifyInv'
  <2>1. NotifyType' /\ \A q \in Notices \ {r} : Untouched(q)
    BY <1>0, <1>1 DEF ReceiveNotice, NotifyType, Untouched
  <2>2. dispatch[r] = "none" /\ handler'[r] # "idle"
    BY <1>0, <1>1 DEF ReceiveNotice, DispatchOK, NotifyType
  <2>3. dispatch'[r] = dispatch[r] \/ dispatch'[r] = "loop"
    BY <1>0, <1>1 DEF ReceiveNotice, NotifyType
  <2> QED BY <1>1, <1>d, <2>1, <2>2, <2>3 DEF ReceiveNotice
<1>2. ASSUME NEW r \in Notices, Accept(r) PROVE NotifyInv'
  <2>1. NotifyType' /\ \A q \in Notices \ {r} : Untouched(q)
    BY <1>0, <1>2 DEF Accept, dispatchVars, NotifyType, Untouched
  <2>2. handler'[r] # "idle"
    BY <1>0, <1>2 DEF Accept, NotifyType
  <2> QED BY <1>2, <1>d, <2>1, <2>2 DEF Accept, dispatchVars
<1>3. ASSUME NEW r \in Notices, CancelContext(r) \/ ClientGone(r) PROVE NotifyInv'
  <2>1. NotifyType' /\ \A q \in Notices \ {r} : Untouched(q)
    BY <1>0, <1>3 DEF CancelContext, ClientGone, dispatchVars, handlerVars, NotifyType, Untouched
  <2>2. handler'[r] # "idle" /\ r \in cancelled'
    BY <1>0, <1>3 DEF CancelContext, ClientGone, handlerVars
  <2> QED BY <1>3, <1>d, <2>1, <2>2 DEF CancelContext, ClientGone, dispatchVars
(* A target without a message: not for Slack, or too late. *)
<1>4. ASSUME NEW r \in Notices, Skip(r) \/ SlackTooLate(r) PROVE NotifyInv'
  <2>0. /\ dispatch[r] = "loop" /\ next[r] <= Len(Targets[r]) /\ next' = [next EXCEPT ![r] = @ + 1]
        /\ UNCHANGED <<handler, cancelled, dispatch, attempts, received>>
        /\ Targets[r][next[r]] # "slack" \/ ~SlackEnabled \/ r \in cancelled
    BY <1>4 DEF Skip, SlackTooLate, InLoop, NextTarget, Target, handlerVars
  <2>1. NotifyType' /\ \A q \in Notices \ {r} : Untouched(q)
    BY <1>0, <2>0 DEF NotifyType, Untouched
  <2>2. next'[r] = next[r] + 1 /\ next[r] \in Nat /\ next[r] = Reached(r)'
    BY <1>0, <2>0 DEF NotifyType, Reached
  <2>3. Reached(r) = next[r] - 1
    BY <2>0 DEF Reached
  <2>4. handler'[r] # "idle"
    BY <1>0, <2>0 DEF DispatchOK
  <2>5. /\ next'[r] \in 1 .. Len(Targets[r]) + 1 /\ received'[r] <= attempts'[r]
        /\ attempts'[r] <= Cardinality(SlackUpTo(r, next[r]))
        /\ SlackEnabled /\ r \notin cancelled' => attempts'[r] = Cardinality(SlackUpTo(r, next[r]))
    BY <1>0, <1>b, <2>0, <2>2, <2>3, SMTT(30) DEF DispatchOK
  <2> QED BY <1>c, <2>0, <2>1, <2>2, <2>4, <2>5
<1>5. ASSUME NEW r \in Notices, SlackPost(r) PROVE NotifyInv'
  <2>0. /\ dispatch[r] = "loop" /\ next[r] <= Len(Targets[r]) /\ Targets[r][next[r]] = "slack"
        /\ dispatch' = [dispatch EXCEPT ![r] = "posting"] /\ attempts' = [attempts EXCEPT ![r] = @ + 1]
        /\ UNCHANGED <<handler, cancelled, next, received>>
    BY <1>5 DEF SlackPost, InLoop, Target, handlerVars
  <2>1. NotifyType' /\ \A q \in Notices \ {r} : Untouched(q)
    BY <1>0, <2>0 DEF NotifyType, Untouched
  <2>2. /\ dispatch'[r] = "posting" /\ attempts'[r] = attempts[r] + 1 /\ next[r] \in Nat
        /\ next[r] = Reached(r)'
    BY <1>0, <2>0 DEF NotifyType, Reached
  <2>3. Reached(r) = next[r] - 1
    BY <2>0 DEF Reached
  <2>4. handler'[r] # "idle"
    BY <1>0, <2>0 DEF DispatchOK
  <2>5. /\ next'[r] \in 1 .. Len(Targets[r]) + 1 /\ received'[r] < attempts'[r] /\ received'[r] <= attempts'[r]
        /\ attempts'[r] <= Cardinality(SlackUpTo(r, next[r]))
        /\ SlackEnabled /\ r \notin cancelled' => attempts'[r] = Cardinality(SlackUpTo(r, next[r]))
    BY <1>0, <1>b, <2>0, <2>2, <2>3, SMTT(30) DEF DispatchOK
  <2> QED BY <1>c, <2>0, <2>1, <2>2, <2>4, <2>5
(* The post ends, with the message received or not. *)
<1>6. ASSUME NEW r \in Notices, SlackAnswers(r) \/ SlackCut(r) PROVE NotifyInv'
  <2>0. /\ dispatch[r] = "posting" /\ next' = [next EXCEPT ![r] = @ + 1]
        /\ dispatch' = [dispatch EXCEPT ![r] = "loop"]
        /\ UNCHANGED <<handler, cancelled, attempts>>
    BY <1>6 DEF SlackAnswers, SlackCut, NextTarget, handlerVars
  <2>g. PICK got \in {0, 1} : received' = [received EXCEPT ![r] = @ + got]
    BY <1>6 DEF SlackAnswers, SlackCut
  <2>1. NotifyType' /\ \A q \in Notices \ {r} : Untouched(q)
    BY <1>0, <2>0, <2>g DEF NotifyType, Untouched
  <2>2. /\ next'[r] = next[r] + 1 /\ next[r] \in Nat /\ dispatch'[r] = "loop" /\ received'[r] = received[r] + got
        /\ next[r] = Reached(r)'
    BY <1>0, <2>0, <2>g DEF NotifyType, Reached
  <2>3. Reached(r) = next[r]
    BY <2>0 DEF Reached
  <2>4. handler'[r] # "idle"
    BY <1>0, <2>0 DEF DispatchOK
  <2>5. /\ next'[r] \in 1 .. Len(Targets[r]) + 1 /\ received'[r] <= attempts'[r]
        /\ attempts'[r] <= Cardinality(SlackUpTo(r, next[r]))
        /\ SlackEnabled /\ r \notin cancelled' => attempts'[r] = Cardinality(SlackUpTo(r, next[r]))
    BY <1>0, <1>b, <2>0, <2>2, <2>3, SMTT(30) DEF DispatchOK
  <2> QED BY <1>c, <2>0, <2>1, <2>2, <2>4, <2>5
<1>7. ASSUME NEW r \in Notices, DispatchReturns(r) PROVE NotifyInv'
  <2>0. /\ dispatch[r] = "loop" /\ next[r] > Len(Targets[r]) /\ dispatch' = [dispatch EXCEPT ![r] = "done"]
        /\ UNCHANGED <<handler, cancelled, next, attempts, received>>
    BY <1>7 DEF DispatchReturns, handlerVars
  <2>1. NotifyType' /\ \A q \in Notices \ {r} : Untouched(q)
    BY <1>0, <2>0 DEF NotifyType, Untouched
  <2>2. dispatch'[r] = "done" /\ next[r] - 1 = Reached(r)' /\ next[r] - 1 = Reached(r)
    BY <1>0, <2>0 DEF NotifyType, Reached
  <2>3. next[r] = Len(Targets[r]) + 1 /\ handler[r] # "idle"
    BY <1>0, <1>b, <2>0 DEF DispatchOK
  <2>4. SlackUpTo(r, Reached(r))' = SlackUpTo(r, Reached(r))
    BY <2>2 DEF SlackUpTo
  <2>5. DispatchOK(r)'
    BY <1>0, <2>0, <2>2, <2>3, <2>4 DEF DispatchOK
  <2> QED BY <1>a, <2>1, <2>5
<1>8. CASE UNCHANGED notifierVars
  <2>1. NotifyType'
    BY <1>0, <1>8 DEF notifierVars, handlerVars, dispatchVars, NotifyType
  <2>2. ASSUME NEW r \in Notices PROVE DispatchOK(r)'
    <3>1. Reached(r)' = Reached(r)
      BY <1>8 DEF notifierVars, handlerVars, dispatchVars, Reached
    <3>2. SlackUpTo(r, Reached(r))' = SlackUpTo(r, Reached(r))
      BY <3>1 DEF SlackUpTo
    <3> QED BY <1>0, <1>8, <3>2 DEF notifierVars, handlerVars, dispatchVars, DispatchOK
  <2> QED BY <2>1, <2>2 DEF NotifyInv
<1> QED BY <1>1, <1>2, <1>3, <1>4, <1>5, <1>6, <1>7, <1>8
        DEF NotifierNext, DispatchStep, NotifierFinished

(* Slack is asked for at most one message per Slack target and gets no more *)
(* than it is asked for, and a target Dispatch has passed over without      *)
(* asking is one whose request was cancelled first.                         *)
THEOREM MessagesOnceOrCancelled == NotifierSpec => []OnceOrCancelled
<1>1. NotifyInv => OnceOrCancelled
  <2> SUFFICES ASSUME NotifyInv, NEW r \in Notices
               PROVE  /\ received[r] <= attempts[r] /\ attempts[r] <= SlackTargets(r)
                      /\ dispatch[r] = "done" /\ SlackEnabled /\ attempts[r] < SlackTargets(r) => r \in cancelled
    BY DEF OnceOrCancelled
  <2>0. /\ Len(Targets[r]) \in Nat /\ DispatchOK(r) /\ attempts[r] \in Nat /\ received[r] \in Nat
        /\ SlackTargets(r) = Cardinality(SlackUpTo(r, Len(Targets[r])))
    <3>1. Len(Targets[r]) \in Nat
      BY TargetsAssumption
    <3>2. DispatchOK(r) /\ attempts[r] \in Nat /\ received[r] \in Nat
      BY DEF NotifyInv, NotifyType
    <3>3. SlackTargets(r) = Cardinality(SlackUpTo(r, Len(Targets[r])))
      BY DEF SlackTargets, SlackUpTo
    <3> QED BY <3>1, <3>2, <3>3
  <2>1. Reached(r) \in 0 .. Len(Targets[r]) /\ (dispatch[r] = "done" => Reached(r) = Len(Targets[r]))
    BY <2>0 DEF DispatchOK, Reached
  <2>2. PICK n \in Nat : n = Reached(r) /\ n <= Len(Targets[r])
    BY <2>1
  <2>3. /\ SlackUpTo(r, n) \subseteq SlackUpTo(r, Len(Targets[r]))
        /\ IsFiniteSet(SlackUpTo(r, Len(Targets[r])))
    <3>0. PICK m \in Nat : m = Len(Targets[r])
      BY <2>0
    <3>1. IsFiniteSet(1 .. m)
      BY FS_Interval
    <3>2. IsFiniteSet(SlackUpTo(r, Len(Targets[r])))
      BY <3>0, <3>1, FS_Subset DEF SlackUpTo
    <3> QED BY <2>0, <2>2, <3>2 DEF SlackUpTo
  <2>4. Cardinality(SlackUpTo(r, n)) <= SlackTargets(r)
    BY <2>0, <2>3, FS_Subset
  <2>5. Cardinality(SlackUpTo(r, n)) \in Nat /\ SlackTargets(r) \in Nat
    BY <2>0, SlackCount
  <2> QED BY <2>0, <2>1, <2>2, <2>4, <2>5 DEF DispatchOK
<1> QED BY <1>1, NotifyInit, NotifyNext, PTL DEF NotifierSpec
=============================================================================
