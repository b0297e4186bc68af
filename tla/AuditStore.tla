----------------------------- MODULE AuditStore -----------------------------
(***************************************************************************)
(* The audit service (services/audit-service/main.go) with its two stores, *)
(* store/memory.go and store/postgres.go: concurrent POSTs that sign and   *)
(* insert entries, restarts of the process, and what a query of either     *)
(* store returns of the entries there are.                                 *)
(*                                                                         *)
(* A request stands for the payload it carries and, once it is decoded,    *)
(* for the fresh ID newID draws for it.                                    *)
(***************************************************************************)
EXTENDS Integers, Sequences, FiniteSets, SequencesExt, Lists

CONSTANTS Reqs,         \* the POSTs of entries
          FieldsOf,     \* [Reqs -> [Fields -> the values in the payload]]
          Empty,        \* the empty string: no filter in a query, no value in a payload
          Backends,     \* the stores considered, "memory" and "postgres"
          DefaultLimit, \* 50 in the code
          MaxLimit,     \* bound of limit and offset in the queries looked at
          MaxTime,      \* bound of the clock
          MaxRestarts,  \* bound on the restarts of the process
          None          \* the zero value of the fields of an entry

ASSUME BackendAssumption == Backends \subseteq {"memory", "postgres"}
ASSUME BoundAssumption ==
    DefaultLimit \in Nat \ {0} /\ MaxLimit \in Nat /\ MaxTime \in Nat /\ MaxRestarts \in Nat

VARIABLES backend,   \* "postgres" if DATABASE_URL is set, else "memory"
          req,       \* [Reqs -> how far the request is]
          createdAt, \* [Reqs -> the time its entry was made]
          entries,   \* m.entries, or the rows of audit_entries as inserted
          inserted,  \* counter entries_inserted_total
          now,       \* the clock
          restarts   \* number of restarts so far

vars == <<backend, req, createdAt, entries, inserted, now, restarts>>

(* What a query can filter by. *)
Fields == {"job_id", "event_type", "actor"}

(* signing.Sign of a payload, and the test that a signature is that. *)
Sign(p) == <<"hmac", p>>
VerifySig(p, sig) == sig = Sign(p)

Entry(r) == [id |-> r, fields |-> FieldsOf[r], payload |-> r, sig |-> Sign(r), createdAt |-> createdAt[r]]
ZeroEntry == [id |-> None, fields |-> [f \in Fields |-> Empty], payload |-> None, sig |-> None, createdAt |-> 0]

Init ==
    /\ backend \in Backends
    /\ req = [r \in Reqs |-> "idle"]
    /\ createdAt = [r \in Reqs |-> 0]
    /\ entries = <<>>
    /\ inserted = 0
    /\ now = 0
    /\ restarts = 0

(***************************************************************************)
(* POST /api/v1/entries                                                    *)
(***************************************************************************)

(* The body is decoded and the entry made, with the time it is then. *)
Receive(r) ==
    /\ req[r] = "idle"
    /\ \/ /\ req' = [req EXCEPT ![r] = "insert"]
          /\ createdAt' = [createdAt EXCEPT ![r] = now]
       \/ /\ req' = [req EXCEPT ![r] = "badRequest"]
          /\ UNCHANGED createdAt
    /\ UNCHANGED <<backend, entries, inserted, now, restarts>>

(* Mutant: the newest entry comes first. *)
InsertFront(r) ==
    /\ req[r] = "insert"
    /\ entries' = <<Entry(r)>> \o entries
    /\ req' = [req EXCEPT ![r] = "count"]
    /\ UNCHANGED <<backend, createdAt, inserted, now, restarts>>

(* The entry is signed and stored. *)
Insert(r) ==
    /\ req[r] = "insert"
    /\ entries' = Append(entries, Entry(r))
    /\ req' = [req EXCEPT ![r] = "count"]
    /\ UNCHANGED <<backend, createdAt, inserted, now, restarts>>

(* Mutant: the error of the store is not looked at. *)
InsertFailsUnnoticed(r) ==
    /\ backend = "postgres"
    /\ req[r] = "insert"
    /\ req' = [req EXCEPT ![r] = "count"]
    /\ \E stored \in BOOLEAN : entries' = IF stored THEN Append(entries, Entry(r)) ELSE entries
    /\ UNCHANGED <<backend, createdAt, inserted, now, restarts>>

(* Postgres reports an error, of an insert that was or was not committed. *)
InsertFails(r) ==
    /\ backend = "postgres"
    /\ req[r] = "insert"
    /\ req' = [req EXCEPT ![r] = "storeError"]
    /\ \E stored \in BOOLEAN : entries' = IF stored THEN Append(entries, Entry(r)) ELSE entries
    /\ UNCHANGED <<backend, createdAt, inserted, now, restarts>>

(* The entry is counted and 201 written. *)
Created(r) ==
    /\ req[r] = "count"
    /\ inserted' = inserted + 1
    /\ req' = [req EXCEPT ![r] = "created"]
    /\ UNCHANGED <<backend, createdAt, entries, now, restarts>>

(* The process dies and is started again: the requests it had are cut off,  *)
(* its counters are new and so is a store in its memory.                    *)
Restart ==
    /\ restarts < MaxRestarts
    /\ restarts' = restarts + 1
    /\ req' = [r \in Reqs |-> IF req[r] \in {"insert", "count"} THEN "cut" ELSE req[r]]
    /\ entries' = IF backend = "memory" THEN <<>> ELSE entries
    /\ inserted' = 0
    /\ UNCHANGED <<backend, createdAt, now>>

Tick ==
    /\ now < MaxTime
    /\ now' = now + 1
    /\ UNCHANGED <<backend, req, createdAt, entries, inserted, restarts>>

(* Nothing is left to happen within the bounds. *)
Finished ==
    /\ \A r \in Reqs : req[r] \notin {"idle", "insert", "count"}
    /\ now = MaxTime /\ restarts = MaxRestarts
    /\ UNCHANGED vars

(***************************************************************************)
(* GET /api/v1/entries and GET /api/v1/entries/{id}/verify                 *)
(***************************************************************************)
Values(f) == {FieldsOf[r][f] : r \in Reqs} \cup {Empty}
Filters == {w \in [Fields -> UNION {Values(f) : f \in Fields}] : \A f \in Fields : w[f] \in Values(f)}
Queries == [want : Filters, limit : -1 .. MaxLimit, offset : -1 .. MaxLimit]

(* The handler's default: no limit, or one that is not a number, is 50. *)
Limit(q) == IF q.limit = 0 THEN DefaultLimit ELSE q.limit

Wanted(q, e) == \A f \in Fields : q.want[f] \in {Empty, e.fields[f]}

(* The entries a query does not skip, in the order of the list. *)
Matching(q) == Sublist(entries, {i \in DOMAIN entries : Wanted(q, entries[i])})

(* The capacity of a slice after n appends to nil: append doubles a full    *)
(* one, and from 256 on adds about a quarter (size classes are left out).   *)
Grown(old) == IF old = 0 THEN 1 ELSE IF old < 256 THEN 2 * old ELSE old + (old + 768) \div 4
CapOf(n) ==
    LET cap[k \in 0 .. n] ==
            IF k = 0 THEN 0 ELSE IF k <= cap[k - 1] THEN cap[k - 1] ELSE Grown(cap[k - 1])
    IN  cap[n]

Min2(a, b) == IF a < b THEN a ELSE b

(* Mutant: the slice ends one too early. *)
MemoryQueryShort(q) ==
    LET out   == Matching(q)
        limit == IF Limit(q) <= 0 \/ Limit(q) > Len(out) THEN Len(out) ELSE Limit(q)
    IN  [panic |-> FALSE, page |-> SubSeq(out, q.offset + 1, q.offset + limit - 1)]

(* Memory.Query: out[offset : offset+limit].  A slice expression may go     *)
(* beyond the length up to the capacity, where the entries are zero; beyond *)
(* that, and before 0, it panics.                                           *)
MemoryQuery(q) ==
    LET out   == Matching(q)
        limit == IF Limit(q) <= 0 \/ Limit(q) > Len(out) THEN Len(out) ELSE Limit(q)
        high  == q.offset + limit
    IN  IF q.offset >= Len(out) THEN [panic |-> FALSE, page |-> <<>>]
        ELSE [panic |-> q.offset < 0 \/ high > CapOf(Len(out)),
              page  |-> [i \in 1 .. limit |->
                            IF q.offset + i \in 1 .. Len(out) THEN out[q.offset + i] ELSE ZeroEntry]]

(* The orders ORDER BY created_at DESC allows. *)
NewestFirst(S) ==
    {s \in SetToSeqs(S) : \A i, k \in 1 .. Len(s) : i < k => s[i].createdAt >= s[k].createdAt}

(* Mutant: OFFSET is added and LIMIT is not. *)
PostgresQueryUnlimited(q) ==
    LET from == IF q.offset > 0 THEN q.offset ELSE 0
    IN  {SubSeq(s, from + 1, Len(s)) : s \in NewestFirst(ToSet(Matching(q)))}

(* Postgres.Query: the pages it may return; neither a limit nor an offset   *)
(* that is not positive becomes part of the statement.                      *)
PostgresQuery(q) ==
    LET from == IF q.offset > 0 THEN q.offset ELSE 0
    IN  {SubSeq(s, from + 1, IF Limit(q) > 0 THEN Min2(from + Limit(q), Len(s)) ELSE Len(s)) :
            s \in NewestFirst(ToSet(Matching(q)))}

(* Verify of an ID: the first entry with it must carry its signature. *)
Verify(id) ==
    \E i \in 1 .. Len(entries) :
        /\ entries[i].id = id /\ VerifySig(entries[i].payload, entries[i].sig)
        /\ \A k \in 1 .. i - 1 : entries[k].id # id

Next ==
    \/ \E r \in Reqs : Receive(r) \/ Insert(r) \/ InsertFails(r) \/ Created(r)
    \/ Restart
    \/ Tick
    \/ Finished

Spec == Init /\ [][Next]_vars

-----------------------------------------------------------------------------
(* Of an entry that was answered 201 or counted the store holds a signed    *)
(* copy that verifies; only a restart of the memory store loses it.         *)
CreatedIsKept ==
    /\ \A r \in Reqs : req[r] = "created" => Verify(r) \/ (backend = "memory" /\ restarts > 0)
    /\ inserted <= Len(entries)

(* README.md:48: the log is immutable.  No step of the service changes,     *)
(* removes or reorders an entry, except that a restart empties the memory.  *)
AppendOnly ==
    [][IsPrefix(entries, entries') \/ (backend = "memory" /\ restarts' > restarts)]_vars

(* What matches a query. *)
Matches(q) == {e \in ToSet(entries) : Wanted(q, e)}

(* The matching entries that were inserted before the one at place i. *)
MatchesBefore(q, i) == {e \in Matches(q) : \E k \in 1 .. i - 1 : entries[k] = e}

(* A page of the memory store is the matches from the offset on, one by     *)
(* one: the entry at place i is the one that offset + i - 1 matches were    *)
(* inserted before, and there are as many as the limit says (memory.go:36-  *)
(* 63).  A page that ends within the matches never panics; one that ends    *)
(* behind the last of them may, and if it does not, its surplus is entries  *)
(* that are empty, never one that was asked for by nobody or came before.   *)
MemoryPageExact ==
    backend = "memory" =>
        \A q \in Queries :
            LET answer == MemoryQuery(q)
                n      == Cardinality(Matches(q))
                size   == IF Limit(q) > 0 THEN Min2(Limit(q), n) ELSE n
            IN  q.offset >= 0 =>
                    /\ q.offset + size <= n => ~answer.panic
                    /\ ~answer.panic => Len(answer.page) = IF q.offset < n THEN size ELSE 0
                    /\ ~answer.panic => \A i \in 1 .. Len(answer.page) :
                           IF q.offset + i > n THEN answer.page[i] = ZeroEntry
                           ELSE \E k \in 1 .. Len(entries) :
                                    /\ entries[k] = answer.page[i] /\ answer.page[i] \in Matches(q)
                                    /\ Cardinality(MatchesBefore(q, k)) = q.offset + i - 1

NewerThan(q, e) == {m \in Matches(q) : m.createdAt > e.createdAt}
NotOlderThan(q, e) == {m \in Matches(q) : m.createdAt >= e.createdAt}

(* Every page of the Postgres store, at any offset and with entries of the  *)
(* same time, has as many entries as limit and offset leave, all different, *)
(* and at each place an entry of the time that the whole listing, newest    *)
(* first, has at that place.  So the pages of one listing join up, except   *)
(* that entries of one time may swap between them (postgres.go:99-109).     *)
PostgresPageExact ==
    backend = "postgres" => \A q \in Queries : \A page \in PostgresQuery(q) :
        LET n == Cardinality(Matches(q))
            from == IF q.offset > 0 THEN q.offset ELSE 0
            left == IF n > from THEN n - from ELSE 0
        IN  /\ Len(page) = IF Limit(q) > 0 THEN Min2(Limit(q), left) ELSE left
            /\ ToSet(page) \subseteq Matches(q) /\ Cardinality(ToSet(page)) = Len(page)
            /\ \A i \in 1 .. Len(page) :
                   /\ Cardinality(NewerThan(q, page[i])) < from + i
                   /\ Cardinality(NotOlderThan(q, page[i])) >= from + i
=============================================================================
