------------------------------ MODULE Warehouse ------------------------------
(***************************************************************************)
(* The two loaders of the gold table, upsert_customers (Type 1) and        *)
(* upsert_customers_scd2 (Type 2), run by concurrent loads against the     *)
(* Customer table of PostgreSQL at READ COMMITTED: one transaction per     *)
(* chunk of rows, whose writes the other loads see when it commits.        *)
(*                                                                         *)
(* A key is an external_id.  Its versions are the Customer rows with that  *)
(* id, oldest first; a value stands for the tracked fields.  lock[k] is    *)
(* the row lock on the current version together with the partial unique    *)
(* index entry unique_current_customer_per_external_id: whoever updates or *)
(* inserts a current row of k holds it until its transaction ends.         *)
(***************************************************************************)
EXTENDS Naturals, Sequences

CONSTANTS
  Key,
  Loader,        \* loads, each an execution of one run's load step
  NoLoader,
  Value,         \* what the tracked fields of a source row may hold: texts,
                 \* and the numbers and NaN that pandas or JSON read
  Stored,        \* the text the character columns hold for each of them
  Source,        \* what loads may load: sequences of [key, val]
  ChunkSize,     \* DEFAULT_BATCH_SIZE, 500 in the code
  OldVal,        \* a value keys may have before the first load
  MaxTries       \* bound: starts of each load, retries and redeliveries

ASSUME WarehouseAssumption ==
  /\ NoLoader \notin Loader
  /\ Source \subseteq Seq([key : Key, val : Value]) \ {<<>>}
  /\ ChunkSize \in Nat \ {0}
  /\ MaxTries \in Nat
  /\ DOMAIN Stored = Value \cup {OldVal}
  \* A text is stored as it is.
  /\ \A v, w \in DOMAIN Stored : Stored[w] = v => Stored[v] = v

VARIABLES
  hist,    \* committed versions of each key
  draft,   \* versions of a locked key as its holder's transaction has them
  lock,
  pc,      \* "idle", "read", "close", "insert", "commit", "done"
  pos,     \* index of the row being loaded
  seen,    \* version that was current when the row was read
  now,     \* timezone.now() when the load started
  tries,
  clock,
  batch,   \* the rows of each load
  type2,   \* is its target customers_scd2?
  overlap  \* history: were two loads ever in progress at once?

table  == <<hist, draft, lock>>
locals == <<pos, seen, now, tries>>
job    == <<batch, type2>>
vars   == <<table, pc, locals, clock, job, overlap>>

Version(v, t) == [val |-> Stored[v], from |-> t, to |-> 0, current |-> TRUE]

RowKey(l) == batch[l][pos[l]].key
RowVal(l)  == batch[l][pos[l]].val

(* The table as load l sees it: its own writes, else what is committed. *)
View(l, k) == IF lock[k] = l THEN draft[k] ELSE hist[k]

(* Index of the current version, 0 if there is none. *)
Current(versions) ==
  IF \E i \in DOMAIN versions : versions[i].current
  THEN CHOOSE i \in DOMAIN versions : versions[i].current
  ELSE 0

(* A customers row: a stored value and the interval it was valid in. *)
Row == [val : {Stored[v] : v \in Value \cup {OldVal}},
        from : Nat, to : Nat, current : BOOLEAN]

TypeOK ==
  /\ hist \in [Key -> Seq(Row)]
  /\ draft \in [Key -> Seq(Row)]
  /\ lock \in [Key -> Loader \cup {NoLoader}]
  /\ pc \in [Loader -> {"idle", "read", "close", "insert", "commit", "done"}]
  /\ pos \in [Loader -> Nat]
  /\ \A l \in Loader :
       /\ pos[l] \in 1..(Len(batch[l]) + 1)
       /\ pc[l] \in {"read", "close", "insert"} => pos[l] <= Len(batch[l])
  /\ seen \in [Loader -> Nat]
  /\ now \in [Loader -> Nat]
  /\ tries \in [Loader -> Nat]
  /\ clock \in Nat
  /\ batch \in [Loader -> Source]
  /\ type2 \in [Loader -> BOOLEAN]
  /\ overlap \in BOOLEAN

Init ==
  /\ hist \in [Key -> {<<>>, <<Version(OldVal, 0)>>}]
  /\ draft = [k \in Key |-> <<>>]
  /\ lock = [k \in Key |-> NoLoader]
  /\ pc = [l \in Loader |-> "idle"]
  /\ pos = [l \in Loader |-> 1]
  /\ seen = [l \in Loader |-> 0]
  /\ now = [l \in Loader |-> 0]
  /\ tries = [l \in Loader |-> 0]
  /\ clock = 1
  /\ batch \in [Loader -> Source]
  /\ type2 \in [Loader -> BOOLEAN]
  /\ overlap = FALSE

-----------------------------------------------------------------------------
Active(l) == pc[l] \notin {"idle", "done"}

(* The statement waits while another transaction holds the key. *)
CanLock(l, k) == lock[k] \in {NoLoader, l}

Write(l, k, versions) ==
  /\ lock' = [lock EXCEPT ![k] = l]
  /\ draft' = [draft EXCEPT ![k] = versions]
  /\ UNCHANGED hist

(* A chunking that never yields the last, shorter chunk. *)
AdvanceFullChunks(l) ==
  /\ pos' = [pos EXCEPT ![l] = @ + 1]
  /\ pc' = [pc EXCEPT ![l] = IF pos[l] % ChunkSize = 0 THEN "commit"
                            ELSE IF pos[l] = Len(batch[l]) THEN "done" ELSE "read"]

(* The next row, or the end of the chunk. *)
Advance(l) ==
  /\ pos' = [pos EXCEPT ![l] = @ + 1]
  /\ pc' = [pc EXCEPT ![l] =
       IF pos[l] % ChunkSize = 0 \/ pos[l] = Len(batch[l]) THEN "commit" ELSE "read"]

(* The end of l's transaction: what it wrote is dropped, or was committed. *)
Unlock(l) ==
  /\ lock' = [k \in Key |-> IF lock[k] = l THEN NoLoader ELSE lock[k]]
  /\ draft' = [k \in Key |-> IF lock[k] = l THEN <<>> ELSE draft[k]]

(* An exception in the loader: the chunk is rolled back, load() turns it   *)
(* into a LoadError and the task loads the whole batch again.              *)
Abort(l) ==
  /\ Unlock(l)
  /\ pc' = [pc EXCEPT ![l] = "idle"]
  /\ UNCHANGED <<hist, locals, clock, job, overlap>>

(* A retry that goes on where the attempt before it stopped. *)
Resume(l) ==
  /\ pc[l] = "idle"
  /\ tries[l] < MaxTries
  /\ overlap' = (overlap \/ \E other \in Loader : Active(other))
  /\ tries' = [tries EXCEPT ![l] = @ + 1]
  /\ now' = [now EXCEPT ![l] = clock]
  /\ clock' = clock + 1
  /\ pc' = [pc EXCEPT ![l] = "read"]
  /\ UNCHANGED <<table, pos, seen, job>>

(* The load of an attempt: from the first row, with a now of its own. *)
Start(l) ==
  /\ pc[l] = "idle"
  /\ tries[l] < MaxTries
  /\ overlap' = (overlap \/ \E other \in Loader : Active(other))
  /\ tries' = [tries EXCEPT ![l] = @ + 1]
  /\ now' = [now EXCEPT ![l] = clock]
  /\ clock' = clock + 1
  /\ pos' = [pos EXCEPT ![l] = 1]
  /\ pc' = [pc EXCEPT ![l] = "read"]
  /\ UNCHANGED <<table, seen, job>>

(* Type 1, one row: update_or_create waits for the key, then overwrites    *)
(* the current version or creates one.                                     *)
Upsert(l) ==
  LET k == RowKey(l)
      versions == View(l, k)
      c == Current(versions)
  IN /\ pc[l] = "read"
     /\ ~type2[l]
     /\ CanLock(l, k)
     /\ Write(l, k, IF c = 0 THEN Append(versions, Version(RowVal(l), clock))
                    ELSE [versions EXCEPT ![c].val = Stored[RowVal(l)]])
     /\ Advance(l)
     /\ UNCHANGED <<seen, now, tries, clock, job, overlap>>

(* A loader that does not compare. *)
NeverUnchanged(l) == FALSE

(* The current version is what the row says: nothing to record.  The text *)
(* of the column is compared with the cell, not with the cell's text: 5 is *)
(* never equal to the '5' that is stored for it, nor NaN to 'nan'.         *)
Unchanged(l) == View(l, RowKey(l))[Current(View(l, RowKey(l)))].val = RowVal(l)

(* Type 2, one row: the current version is read without a lock. *)
ReadCurrent(l) ==
  LET c == Current(View(l, RowKey(l)))
  IN /\ pc[l] = "read"
     /\ type2[l]
     /\ seen' = [seen EXCEPT ![l] = c]
     /\ IF c # 0 /\ Unchanged(l)
        THEN Advance(l)
        ELSE /\ pc' = [pc EXCEPT ![l] = IF c = 0 THEN "insert" ELSE "close"]
             /\ UNCHANGED pos
     /\ UNCHANGED <<table, now, tries, clock, job, overlap>>

(* existing.valid_to = now, existing.is_current = False, for the i-th. *)
Closed(versions, i, t) ==
  [versions EXCEPT ![i] = [@ EXCEPT !.to = t, !.current = FALSE]]

(* Without transaction.atomic: the close is committed on its own. *)
CloseAutocommit(l) ==
  LET k == RowKey(l)
  IN /\ pc[l] = "close"
     /\ CanLock(l, k)
     /\ hist' = [hist EXCEPT ![k] = Closed(@, seen[l], now[l])]
     /\ pc' = [pc EXCEPT ![l] = "insert"]
     /\ UNCHANGED <<draft, lock, locals, clock, job, overlap>>

(* The row read is closed by primary key, whatever it has become since. *)
Close(l) ==
  LET k == RowKey(l)
  IN /\ pc[l] = "close"
     /\ CanLock(l, k)
     /\ Write(l, k, Closed(View(l, k), seen[l], now[l]))
     /\ pc' = [pc EXCEPT ![l] = "insert"]
     /\ UNCHANGED <<locals, clock, job, overlap>>

(* Without valid_from=now in the create: the field's default, the time of  *)
(* the insert.                                                             *)
InsertDefaultFrom(l) ==
  LET k == RowKey(l)
      versions == View(l, k)
  IN /\ pc[l] = "insert"
     /\ CanLock(l, k)
     /\ Current(versions) = 0
     /\ Write(l, k, Append(versions, Version(RowVal(l), clock)))
     /\ Advance(l)
     /\ UNCHANGED <<seen, now, tries, clock, job, overlap>>

(* The new current version, unless another load has committed one. *)
Insert(l) ==
  LET k == RowKey(l)
      versions == View(l, k)
  IN /\ pc[l] = "insert"
     /\ CanLock(l, k)
     /\ Current(versions) = 0
     /\ Write(l, k, Append(versions, Version(RowVal(l), now[l])))
     /\ Advance(l)
     /\ UNCHANGED <<seen, now, tries, clock, job, overlap>>

IntegrityError(l) ==
  /\ pc[l] = "insert"
  /\ CanLock(l, RowKey(l))
  /\ Current(View(l, RowKey(l))) # 0
  /\ Abort(l)

(* Two transactions that wait for each other: PostgreSQL aborts one. *)
Waiting(l, other) ==
  /\ \/ pc[l] \in {"close", "insert"}
     \/ pc[l] = "read" /\ ~type2[l]
  /\ lock[RowKey(l)] = other

DeadlockVictim(l) ==
  /\ \E other \in Loader \ {l} : Waiting(l, other) /\ Waiting(other, l)
  /\ Abort(l)

Commit(l) ==
  /\ pc[l] = "commit"
  /\ hist' = [k \in Key |-> IF lock[k] = l THEN draft[k] ELSE hist[k]]
  /\ Unlock(l)
  /\ pc' = [pc EXCEPT ![l] = IF pos[l] > Len(batch[l]) THEN "done" ELSE "read"]
  /\ UNCHANGED <<locals, clock, job, overlap>>

(* The worker is killed: the open transaction is rolled back. *)
Kill(l) == Active(l) /\ Abort(l)

Next == \E l \in Loader :
  \/ Start(l)
  \/ Upsert(l)
  \/ ReadCurrent(l)
  \/ Close(l)
  \/ Insert(l)
  \/ IntegrityError(l)
  \/ DeadlockVictim(l)
  \/ Commit(l)
  \/ Kill(l)

Spec == Init /\ [][Next]_vars

-----------------------------------------------------------------------------
(* Properties.                                                             *)

SameBatch == \A l1, l2 \in Loader : batch[l1] = batch[l2]

(* A source that lists no customer twice and whose tracked cells are texts. *)
Plain(rows) ==
  /\ \A i, j \in DOMAIN rows : rows[i].key = rows[j].key => i = j
  /\ \A i \in DOMAIN rows : Stored[rows[i].val] = rows[i].val

(* Once one Type 2 load of a plain batch has ended, no other one, retried,  *)
(* redelivered or concurrent, changes a committed version (beside a Type 1  *)
(* load of the batch it may).  upsert_customers_scd2 says more, of every    *)
(* source: "re-running the same source never creates spurious history".    *)
(* That is not so of the others: a number or an empty cell never equals the *)
(* text stored for it (see Unchanged), so that each reload closes and       *)
(* re-creates the version, and a customer listed twice with two values      *)
(* alternates between them.                                                *)
ReloadIsNoOp ==
  [][/\ \E l \in Loader : pc[l] = "done"
     /\ SameBatch
     /\ \A l \in Loader : type2[l] /\ Plain(batch[l])
     => UNCHANGED hist]_vars

(* Another load of the batch was started and has not ended, by now or by   *)
(* dying.                                                                  *)
Unfinished(l) == tries[l] > 0 /\ pc[l] # "done"

(* A load that ended has loaded every row, whatever was killed before: the *)
(* table serves for its customer the last value the source lists, or, if   *)
(* another load of the batch has begun to go through it again and not      *)
(* ended, one that it lists.                                               *)
LoadedRowsAreServed ==
  \A l \in Loader : pc[l] = "done" /\ SameBatch =>
    \A i \in DOMAIN batch[l] :
      LET versions == hist[batch[l][i].key]
      IN /\ Current(versions) # 0
         /\ \E j \in DOMAIN batch[l] :
              /\ batch[l][j].key = batch[l][i].key
              /\ versions[Current(versions)].val = Stored[batch[l][j].val]
              /\ i <= j \/ \E other \in Loader : Unfinished(other)

(* A key that has a version always has exactly one current version, the     *)
(* last inserted: no reader sees a customer between its close and its       *)
(* re-creation, whichever loaders, of either type, race or die.             *)
ServedKeysStayServed ==
  \A k \in Key : \A i \in DOMAIN hist[k] :
    hist[k][i].current = (i = Len(hist[k]))

(* Loads that do not overlap leave a contiguous history: each version ends  *)
(* when the next begins, and none ends before it began.                     *)
HistoryIsContiguous ==
  ~overlap => \A k \in Key : \A i \in 1..(Len(hist[k]) - 1) :
    /\ hist[k][i].from <= hist[k][i].to
    /\ hist[k][i].to = hist[k][i + 1].from
=============================================================================
