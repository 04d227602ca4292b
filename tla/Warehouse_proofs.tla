--------------------------- MODULE Warehouse_proofs ---------------------------
(***************************************************************************)
(* The table of customers, for every number of keys, loads, rows and       *)
(* retries.  The argument follows the transaction.  What is committed is   *)
(* in order (the last version, and only it, is current), and what a        *)
(* transaction has drafted is in order too, except between the close of a  *)
(* version and the insert of its successor, where its load stands at that  *)
(* very row and cannot commit.  From this follow that histories have no    *)
(* gaps while loads do not overlap, that a row that was loaded is served,   *)
(* and that loading a plain batch again changes nothing.                   *)
(***************************************************************************)
EXTENDS Warehouse, SequenceTheorems, TLAPS

LEMMA BatchRows ==
  ASSUME TypeOK, NEW l \in Loader, pc[l] \in {"read", "close", "insert"}
  PROVE  RowKey(l) \in Key /\ RowVal(l) \in Value
<1>1. batch[l] \in Seq([key : Key, val : Value])
  BY WarehouseAssumption DEF TypeOK
<1>2. pos[l] \in 1..Len(batch[l])
  BY <1>1 DEF TypeOK
<1>3. batch[l][pos[l]] \in [key : Key, val : Value]
  BY <1>1, <1>2, ElementOfSeq
<1>. QED
  BY <1>3 DEF RowKey, RowVal

LEMMA VersionIsRow ==
  ASSUME NEW v \in Value, NEW t \in Nat
  PROVE  Version(v, t) \in Row
BY DEF Version, Row

LEMMA ViewTyped ==
  ASSUME TypeOK, NEW l \in Loader, NEW k \in Key
  PROVE  View(l, k) \in Seq(Row)
BY DEF TypeOK, View

(* Current picks a current version if there is one. *)
LEMMA CurrentPicks ==
  ASSUME NEW s \in Seq(Row)
  PROVE  /\ Current(s) \in Nat
         /\ Current(s) = 0 => \A i \in 1..Len(s) : ~s[i].current
         /\ Current(s) # 0 => Current(s) \in 1..Len(s) /\ s[Current(s)].current
<1>1. CASE \E i \in DOMAIN s : s[i].current
  <2>1. Current(s) \in DOMAIN s /\ s[Current(s)].current
    BY <1>1 DEF Current
  <2>. QED
    BY <2>1
<1>2. CASE ~\E i \in DOMAIN s : s[i].current
  BY <1>2 DEF Current
<1>. QED
  BY <1>1, <1>2

-----------------------------------------------------------------------------
(* What a statement makes of the versions of a key is a sequence of rows. *)
LEMMA RowCurrent ==
  ASSUME NEW s \in Seq(Row)
  PROVE  \A j \in 1..Len(s) : s[j].current \in BOOLEAN
<1> TAKE j \in 1..Len(s)
<1>1. s[j] \in Row
  BY ElementOfSeq
<1>. QED
  BY <1>1 DEF Row

LEMMA ClosedVersions ==
  ASSUME NEW s \in Seq(Row), NEW i \in Nat, NEW t \in Nat
  PROVE  /\ Closed(s, i, t) \in Seq(Row)
         /\ Len(Closed(s, i, t)) = Len(s)
         /\ \A j \in 1..Len(s) :
              Closed(s, i, t)[j].current = (s[j].current /\ j # i)
<1>1. CASE i \in 1..Len(s)
  <2> DEFINE e == [s[i] EXCEPT !.to = t, !.current = FALSE]
  <2>1. s[i] \in Row
    BY <1>1
  <2>2. e \in Row /\ e.current = FALSE
    BY <2>1 DEF Row
  <2>3. Closed(s, i, t) = [s EXCEPT ![i] = e]
    BY DEF Closed
  <2> HIDE DEF e
  <2>4. /\ [s EXCEPT ![i] = e] \in Seq(Row)
        /\ Len([s EXCEPT ![i] = e]) = Len(s)
        /\ \A j \in 1..Len(s) : [s EXCEPT ![i] = e][j] = IF j = i THEN e ELSE s[j]
    BY <1>1, <2>2, ExceptSeq
  <2>5. \A j \in 1..Len(s) : s[j].current \in BOOLEAN
    BY RowCurrent
  <2>. QED
    BY <2>2, <2>3, <2>4, <2>5
<1>2. CASE i \notin 1..Len(s)
  <2>1. Closed(s, i, t) = s
    BY <1>2 DEF Closed
  <2>2. \A j \in 1..Len(s) : j # i /\ s[j].current \in BOOLEAN
    BY <1>2, RowCurrent
  <2>. QED
    BY <2>1, <2>2
<1>. QED
  BY <1>1, <1>2

LEMMA OverwrittenVersions ==
  ASSUME NEW s \in Seq(Row), NEW i \in 1..Len(s), NEW v \in Value
  PROVE  LET n == [s EXCEPT ![i].val = Stored[v]]
         IN /\ n \in Seq(Row)
            /\ Len(n) = Len(s)
            /\ \A j \in 1..Len(s) : n[j].current = s[j].current
<1> DEFINE e == [s[i] EXCEPT !.val = Stored[v]]
<1>1. s[i] \in Row
  OBVIOUS
<1>2. e \in Row /\ e.current = s[i].current
  BY <1>1 DEF Row
<1>3. [s EXCEPT ![i].val = Stored[v]] = [s EXCEPT ![i] = e]
  OBVIOUS
<1> HIDE DEF e
<1>. QED
  BY <1>2, <1>3, ExceptSeq

LEMMA AppendedVersions ==
  ASSUME NEW s \in Seq(Row), NEW v \in Value, NEW t \in Nat
  PROVE  LET n == Append(s, Version(v, t))
         IN /\ n \in Seq(Row)
            /\ Len(n) = Len(s) + 1
            /\ \A j \in 1..Len(s) : n[j] = s[j]
            /\ n[Len(s) + 1].current = TRUE
<1>1. Version(v, t) \in Row /\ Version(v, t).current = TRUE
  BY VersionIsRow DEF Version
<1>. QED
  BY <1>1, AppendProperties

-----------------------------------------------------------------------------
LEMMA WriteTyped ==
  ASSUME TypeOK, NEW l \in Loader, NEW k \in Key, NEW s \in Seq(Row), Write(l, k, s)
  PROVE  /\ hist' \in [Key -> Seq(Row)]
         /\ draft' \in [Key -> Seq(Row)]
         /\ lock' \in [Key -> Loader \cup {NoLoader}]
BY DEF TypeOK, Write

LEMMA AdvanceTyped ==
  ASSUME TypeOK, NEW l \in Loader, pc[l] \in {"read", "close", "insert"}, Advance(l),
         batch' = batch
  PROVE  /\ pc' \in [Loader -> {"idle", "read", "close", "insert", "commit", "done"}]
         /\ pos' \in [Loader -> Nat]
         /\ \A m \in Loader :
              /\ pos'[m] \in 1..(Len(batch'[m]) + 1)
              /\ pc'[m] \in {"read", "close", "insert"} => pos'[m] <= Len(batch'[m])
<1>1. Len(batch[l]) \in Nat
  BY WarehouseAssumption DEF TypeOK
<1>2. pos[l] \in Nat /\ 1 <= pos[l] /\ pos[l] <= Len(batch[l])
  BY <1>1 DEF TypeOK
<1>. QED
  BY <1>1, <1>2 DEF TypeOK, Advance

LEMMA UnlockTyped ==
  ASSUME TypeOK, NEW l \in Loader, Unlock(l)
  PROVE  /\ draft' \in [Key -> Seq(Row)]
         /\ lock' \in [Key -> Loader \cup {NoLoader}]
<1>1. <<>> \in Seq(Row)
  OBVIOUS
<1>. QED
  BY <1>1 DEF TypeOK, Unlock

LEMMA Typing == Spec => []TypeOK
<1>1. Init => TypeOK
  <2> SUFFICES ASSUME Init PROVE TypeOK
    OBVIOUS
  <2>1. Version(OldVal, 0) \in Row
    BY DEF Version, Row
  <2>2. <<>> \in Seq(Row) /\ <<Version(OldVal, 0)>> \in Seq(Row)
    BY <2>1
  <2>3. \A l \in Loader : Len(batch[l]) \in Nat /\ Len(batch[l]) >= 1
    BY WarehouseAssumption DEF Init
  <2>4. /\ hist \in [Key -> Seq(Row)]
        /\ draft \in [Key -> Seq(Row)]
        /\ lock \in [Key -> Loader \cup {NoLoader}]
    BY <2>2 DEF Init
  <2>5. \A l \in Loader :
          /\ pos[l] \in 1..(Len(batch[l]) + 1)
          /\ pc[l] \in {"read", "close", "insert"} => pos[l] <= Len(batch[l])
    BY <2>3 DEF Init
  <2>. QED
    BY <2>4, <2>5 DEF Init, TypeOK
<1>2. TypeOK /\ [Next]_vars => TypeOK'
  <2> SUFFICES ASSUME TypeOK, [Next]_vars PROVE TypeOK'
    OBVIOUS
  <2> USE DEF table, locals, job
  <2>1. ASSUME NEW l \in Loader, Abort(l) PROVE TypeOK'
    BY <2>1, UnlockTyped DEF TypeOK, Abort
  <2>2. ASSUME NEW l \in Loader, Start(l) PROVE TypeOK'
    <3>1. Len(batch[l]) \in Nat /\ Len(batch[l]) >= 1
      BY WarehouseAssumption DEF TypeOK
    <3>2. \A m \in Loader :
            /\ pos'[m] \in 1..(Len(batch'[m]) + 1)
            /\ pc'[m] \in {"read", "close", "insert"} => pos'[m] <= Len(batch'[m])
      BY <2>2, <3>1 DEF TypeOK, Start
    <3>3. /\ pc' \in [Loader -> {"idle", "read", "close", "insert", "commit", "done"}]
          /\ pos' \in [Loader -> Nat]
      BY <2>2 DEF TypeOK, Start
    <3>4. /\ now' \in [Loader -> Nat]
          /\ tries' \in [Loader -> Nat]
          /\ clock' \in Nat
          /\ overlap' \in BOOLEAN
      BY <2>2 DEF TypeOK, Start, Active
    <3>. QED
      BY <2>2, <3>2, <3>3, <3>4 DEF TypeOK, Start
  <2>3. ASSUME NEW l \in Loader, Upsert(l) PROVE TypeOK'
    <3> DEFINE k == RowKey(l)
               s == View(l, k)
               n == IF Current(s) = 0 THEN Append(s, Version(RowVal(l), clock))
                    ELSE [s EXCEPT ![Current(s)].val = Stored[RowVal(l)]]
    <3>1. k \in Key /\ RowVal(l) \in Value
      BY <2>3, BatchRows DEF Upsert
    <3>2. s \in Seq(Row)
      BY <3>1, ViewTyped
    <3>3. n \in Seq(Row)
      BY <3>1, <3>2, CurrentPicks, AppendedVersions, OverwrittenVersions DEF TypeOK
    <3>4. Write(l, k, n)
      BY <2>3 DEF Upsert
    <3> HIDE DEF k, s, n
    <3>5. /\ UNCHANGED <<seen, now, tries, clock, batch, type2, overlap>>
          /\ pc[l] = "read"
          /\ Advance(l)
      BY <2>3 DEF Upsert
    <3>6. /\ hist' \in [Key -> Seq(Row)]
          /\ draft' \in [Key -> Seq(Row)]
          /\ lock' \in [Key -> Loader \cup {NoLoader}]
      BY <3>1, <3>3, <3>4, WriteTyped
    <3>7. /\ pc' \in [Loader -> {"idle", "read", "close", "insert", "commit", "done"}]
          /\ pos' \in [Loader -> Nat]
          /\ \A m \in Loader :
               /\ pos'[m] \in 1..(Len(batch'[m]) + 1)
               /\ pc'[m] \in {"read", "close", "insert"} => pos'[m] <= Len(batch'[m])
      BY <3>5, AdvanceTyped
    <3>. QED
      BY <3>5, <3>6, <3>7 DEF TypeOK
  <2>4. ASSUME NEW l \in Loader, ReadCurrent(l) PROVE TypeOK'
    <3>1. Current(View(l, RowKey(l))) \in Nat
      BY <2>4, BatchRows, ViewTyped, CurrentPicks DEF ReadCurrent
    <3>2. CASE Advance(l)
      BY <2>4, <3>1, <3>2, AdvanceTyped DEF ReadCurrent, TypeOK
    <3>3. CASE ~Advance(l)
      BY <2>4, <3>1, <3>3 DEF ReadCurrent, TypeOK
    <3>. QED
      BY <3>2, <3>3
  <2>5. ASSUME NEW l \in Loader, Close(l) PROVE TypeOK'
    <3> DEFINE k == RowKey(l)
               n == Closed(View(l, k), seen[l], now[l])
    <3>1. k \in Key
      BY <2>5, BatchRows DEF Close
    <3>2. n \in Seq(Row)
      BY <3>1, ViewTyped, ClosedVersions DEF TypeOK
    <3>3. Write(l, k, n)
      BY <2>5 DEF Close
    <3> HIDE DEF k, n
    <3>. QED
      BY <2>5, <3>1, <3>2, <3>3, WriteTyped DEF Close, TypeOK
  <2>6. ASSUME NEW l \in Loader, Insert(l) PROVE TypeOK'
    <3> DEFINE k == RowKey(l)
               n == Append(View(l, k), Version(RowVal(l), now[l]))
    <3>1. k \in Key /\ RowVal(l) \in Value
      BY <2>6, BatchRows DEF Insert
    <3>2. n \in Seq(Row)
      BY <3>1, ViewTyped, AppendedVersions DEF TypeOK
    <3>3. Write(l, k, n)
      BY <2>6 DEF Insert
    <3> HIDE DEF k, n
    <3>4. /\ UNCHANGED <<seen, now, tries, clock, batch, type2, overlap>>
          /\ pc[l] = "insert"
          /\ Advance(l)
      BY <2>6 DEF Insert
    <3>5. /\ hist' \in [Key -> Seq(Row)]
          /\ draft' \in [Key -> Seq(Row)]
          /\ lock' \in [Key -> Loader \cup {NoLoader}]
      BY <3>1, <3>2, <3>3, WriteTyped
    <3>6. /\ pc' \in [Loader -> {"idle", "read", "close", "insert", "commit", "done"}]
          /\ pos' \in [Loader -> Nat]
          /\ \A m \in Loader :
               /\ pos'[m] \in 1..(Len(batch'[m]) + 1)
               /\ pc'[m] \in {"read", "close", "insert"} => pos'[m] <= Len(batch'[m])
      BY <3>4, AdvanceTyped
    <3>. QED
      BY <3>4, <3>5, <3>6 DEF TypeOK
  <2>7. ASSUME NEW l \in Loader, Commit(l) PROVE TypeOK'
    <3>1. /\ draft' \in [Key -> Seq(Row)]
          /\ lock' \in [Key -> Loader \cup {NoLoader}]
      BY <2>7, UnlockTyped DEF Commit
    <3>2. hist' \in [Key -> Seq(Row)]
      BY <2>7 DEF Commit, TypeOK
    <3>3. /\ pc' \in [Loader -> {"idle", "read", "close", "insert", "commit", "done"}]
          /\ \A m \in Loader :
               pc'[m] \in {"read", "close", "insert"} => pos[m] <= Len(batch[m])
      BY <2>7 DEF Commit, TypeOK
    <3>. QED
      BY <2>7, <3>1, <3>2, <3>3 DEF Commit, TypeOK
  <2>8. CASE UNCHANGED vars
    BY <2>8 DEF vars, TypeOK
  <2>. QED
    BY <2>1, <2>2, <2>3, <2>4, <2>5, <2>6, <2>7, <2>8
    DEF Next, IntegrityError, DeadlockVictim, Kill
<1>. QED
  BY <1>1, <1>2, PTL DEF Spec

-----------------------------------------------------------------------------
(* The last version, and only it, is current. *)
InOrder(s) == \A i \in 1..Len(s) : s[i].current = (i = Len(s))

NoneCurrent(s) == \A i \in 1..Len(s) : ~s[i].current

(* A transaction between the close and the insert for key k. *)
Between(l, k) == pc[l] = "insert" /\ RowKey(l) = k

Orderly ==
  /\ \A k \in Key : InOrder(hist[k])
  /\ \A k \in Key, l \in Loader : lock[k] = l =>
       InOrder(draft[k]) \/ (Between(l, k) /\ NoneCurrent(draft[k]))

LEMMA ViewInOrder ==
  ASSUME Orderly, NEW l \in Loader, NEW k \in Key
  PROVE  InOrder(View(l, k)) \/ (Between(l, k) /\ NoneCurrent(View(l, k)))
BY DEF Orderly, View

LEMMA CloseOrder ==
  ASSUME NEW s \in Seq(Row), NEW i \in Nat, NEW t \in Nat, InOrder(s)
  PROVE  InOrder(Closed(s, i, t)) \/ NoneCurrent(Closed(s, i, t))
<1>1. \A j \in 1..Len(s) : Closed(s, i, t)[j].current = (j = Len(s) /\ j # i)
  <2> TAKE j \in 1..Len(s)
  <2>1. s[j].current = (j = Len(s))
    BY DEF InOrder
  <2>2. Closed(s, i, t)[j].current = (s[j].current /\ j # i)
    BY ClosedVersions
  <2>. QED
    BY <2>1, <2>2
<1>2. Len(Closed(s, i, t)) = Len(s) /\ Len(s) \in Nat
  BY ClosedVersions
<1>3. CASE i = Len(s)
  BY <1>1, <1>2, <1>3 DEF NoneCurrent
<1>4. CASE i # Len(s)
  BY <1>1, <1>2, <1>4 DEF InOrder
<1>. QED
  BY <1>3, <1>4

LEMMA AppendOrder ==
  ASSUME NEW s \in Seq(Row), NEW v \in Value, NEW t \in Nat, NoneCurrent(s)
  PROVE  InOrder(Append(s, Version(v, t)))
<1> DEFINE n == Append(s, Version(v, t))
<1>1. /\ Len(n) = Len(s) + 1 /\ Len(s) \in Nat
      /\ \A j \in 1..Len(s) : n[j].current = FALSE
      /\ n[Len(s) + 1].current = TRUE
  <2>1. \A j \in 1..Len(s) : s[j].current = FALSE
    BY RowCurrent DEF NoneCurrent
  <2>2. /\ Len(n) = Len(s) + 1
        /\ \A j \in 1..Len(s) : n[j] = s[j]
        /\ n[Len(s) + 1].current = TRUE
    BY AppendedVersions
  <2> HIDE DEF n
  <2>. QED
    BY <2>1, <2>2
<1> HIDE DEF n
<1>2. InOrder(n)
  <2> SUFFICES ASSUME NEW j \in 1..Len(n) PROVE n[j].current = (j = Len(n))
    BY DEF InOrder
  <2>1. CASE j = Len(s) + 1
    BY <1>1, <2>1
  <2>2. CASE j # Len(s) + 1
    <3>1. j \in 1..Len(s) /\ j # Len(n)
      BY <1>1, <2>2
    <3>2. n[j].current = FALSE
      BY <1>1, <3>1
    <3>. QED
      BY <3>1, <3>2
  <2>. QED
    BY <2>1, <2>2
<1>. QED
  BY <1>2 DEF n

LEMMA OverwriteOrder ==
  ASSUME NEW s \in Seq(Row), NEW i \in 1..Len(s), NEW v \in Value, InOrder(s)
  PROVE  InOrder([s EXCEPT ![i].val = Stored[v]])
BY OverwrittenVersions DEF InOrder

(* A write of the key a load stands at, which leaves the other keys alone. *)
LEMMA WriteOrder ==
  ASSUME TypeOK, Orderly, NEW l \in Loader, NEW k \in Key, NEW s, Write(l, k, s),
         \A m \in Loader \ {l} : pc'[m] = pc[m] /\ pos'[m] = pos[m],
         batch' = batch,
         InOrder(s) \/ (pc'[l] = "insert" /\ RowKey(l)' = k /\ NoneCurrent(s)),
         \A j \in Key : Between(l, j) => j = k
  PROVE  Orderly'
<1>1. hist' = hist
  BY DEF Write
<1>2. ASSUME NEW j \in Key, NEW m \in Loader, lock'[j] = m
      PROVE  InOrder(draft'[j]) \/ (Between(m, j)' /\ NoneCurrent(draft'[j]))
  <2>1. CASE j = k
    <3>1. m = l /\ draft'[j] = s
      BY <1>2, <2>1 DEF Write, TypeOK
    <3>. QED
      BY <2>1, <3>1 DEF Between
  <2>2. CASE j # k
    <3>1. lock[j] = m /\ draft'[j] = draft[j]
      BY <1>2, <2>2 DEF Write, TypeOK
    <3>2. Between(m, j) => Between(m, j)'
      BY <2>2 DEF Between, RowKey
    <3>. QED
      BY <3>1, <3>2 DEF Orderly
  <2>. QED
    BY <2>1, <2>2
<1>. QED
  BY <1>1, <1>2 DEF Orderly

LEMMA UnlockOrder ==
  ASSUME TypeOK, Orderly, NEW l \in Loader, Unlock(l),
         \A k \in Key : hist'[k] = hist[k] \/ InOrder(hist'[k]),
         \A m \in Loader \ {l} : pc'[m] = pc[m] /\ pos'[m] = pos[m],
         batch' = batch
  PROVE  Orderly'
<1>1. \A k \in Key : InOrder(hist'[k])
  BY DEF Orderly
<1>2. ASSUME NEW j \in Key, NEW m \in Loader, lock'[j] = m
      PROVE  InOrder(draft'[j]) \/ (Between(m, j)' /\ NoneCurrent(draft'[j]))
  <2>1. lock[j] = m /\ m # l /\ draft'[j] = draft[j]
    BY <1>2, WarehouseAssumption DEF Unlock, TypeOK
  <2>2. Between(m, j) => Between(m, j)'
    BY <2>1 DEF Between, RowKey
  <2>. QED
    BY <2>1, <2>2 DEF Orderly
<1>. QED
  BY <1>1, <1>2 DEF Orderly

LEMMA Ordering == TypeOK /\ Orderly /\ [Next]_vars => Orderly'
<1> SUFFICES ASSUME TypeOK, Orderly, [Next]_vars PROVE Orderly'
  OBVIOUS
<1> USE DEF table, locals, job
<1>1. ASSUME NEW l \in Loader, Abort(l) PROVE Orderly'
  BY <1>1, UnlockOrder DEF Abort, TypeOK
<1>2. ASSUME NEW l \in Loader, Start(l) PROVE Orderly'
  BY <1>2 DEF Start, Orderly, Between, RowKey, TypeOK
<1>3. ASSUME NEW l \in Loader, Upsert(l) PROVE Orderly'
  <2> DEFINE k == RowKey(l)
             s == View(l, k)
             n == IF Current(s) = 0 THEN Append(s, Version(RowVal(l), clock))
                  ELSE [s EXCEPT ![Current(s)].val = Stored[RowVal(l)]]
  <2>1. k \in Key /\ RowVal(l) \in Value /\ s \in Seq(Row)
    BY <1>3, BatchRows, ViewTyped DEF Upsert
  <2>2. InOrder(s)
    BY <1>3, <2>1, ViewInOrder DEF Upsert, Between
  <2>3. ASSUME Current(s) = 0 PROVE InOrder(n)
    <3>1. NoneCurrent(s)
      BY <2>1, <2>3, CurrentPicks DEF NoneCurrent
    <3>2. InOrder(Append(s, Version(RowVal(l), clock)))
      BY <2>1, <3>1, AppendOrder DEF TypeOK
    <3>. QED
      BY <2>3, <3>2
  <2>4. ASSUME Current(s) # 0 PROVE InOrder(n)
    <3>1. InOrder([s EXCEPT ![Current(s)].val = Stored[RowVal(l)]])
      BY <2>1, <2>2, <2>4, CurrentPicks, OverwriteOrder
    <3>. QED
      BY <2>4, <3>1
  <2>5. Write(l, k, n)
    BY <1>3 DEF Upsert
  <2>6. InOrder(n)
    BY <2>3, <2>4
  <2>7. /\ \A m \in Loader \ {l} : pc'[m] = pc[m] /\ pos'[m] = pos[m]
        /\ \A j \in Key : Between(l, j) => j = k
        /\ batch' = batch
    BY <1>3 DEF Upsert, Advance, Between, TypeOK
  <2> HIDE DEF k, s, n
  <2>. QED
    BY <2>1, <2>5, <2>6, <2>7, WriteOrder
<1>4. ASSUME NEW l \in Loader, ReadCurrent(l) PROVE Orderly'
  <2>1. \A m \in Loader : ~(pc[m] = "insert" /\ m = l)
    BY <1>4 DEF ReadCurrent
  <2>2. \A m \in Loader \ {l} : pc'[m] = pc[m] /\ pos'[m] = pos[m]
    BY <1>4 DEF ReadCurrent, Advance, TypeOK
  <2>. QED
    BY <1>4, <2>1, <2>2 DEF ReadCurrent, Orderly, Between, RowKey
<1>5. ASSUME NEW l \in Loader, Close(l) PROVE Orderly'
  <2> DEFINE k == RowKey(l)
             s == View(l, k)
             n == Closed(s, seen[l], now[l])
  <2>1. k \in Key /\ s \in Seq(Row)
    BY <1>5, BatchRows, ViewTyped DEF Close
  <2>2. InOrder(s)
    BY <1>5, <2>1, ViewInOrder DEF Close, Between
  <2>3. InOrder(n) \/ NoneCurrent(n)
    BY <2>1, <2>2, CloseOrder DEF TypeOK
  <2>4. Write(l, k, n)
    BY <1>5 DEF Close
  <2>5. /\ \A m \in Loader \ {l} : pc'[m] = pc[m] /\ pos'[m] = pos[m]
        /\ pc'[l] = "insert" /\ RowKey(l)' = k
        /\ \A j \in Key : Between(l, j) => j = k
        /\ batch' = batch
    BY <1>5 DEF Close, Between, RowKey, TypeOK
  <2> HIDE DEF k, s, n
  <2>. QED
    BY <2>1, <2>3, <2>4, <2>5, WriteOrder
<1>6. ASSUME NEW l \in Loader, Insert(l) PROVE Orderly'
  <2> DEFINE k == RowKey(l)
             s == View(l, k)
             n == Append(s, Version(RowVal(l), now[l]))
  <2>1. k \in Key /\ RowVal(l) \in Value /\ s \in Seq(Row)
    BY <1>6, BatchRows, ViewTyped DEF Insert
  <2>2. NoneCurrent(s)
    BY <1>6, <2>1, CurrentPicks DEF Insert, NoneCurrent
  <2>3. InOrder(n)
    BY <2>1, <2>2, AppendOrder DEF TypeOK
  <2>4. Write(l, k, n)
    BY <1>6 DEF Insert
  <2>5. /\ \A m \in Loader \ {l} : pc'[m] = pc[m] /\ pos'[m] = pos[m]
        /\ \A j \in Key : Between(l, j) => j = k
        /\ batch' = batch
    BY <1>6 DEF Insert, Advance, Between, TypeOK
  <2> HIDE DEF k, s, n
  <2>. QED
    BY <2>1, <2>3, <2>4, <2>5, WriteOrder
<1>7. ASSUME NEW l \in Loader, Commit(l) PROVE Orderly'
  <2>1. \A k \in Key : hist'[k] = hist[k] \/ InOrder(hist'[k])
    BY <1>7 DEF Commit, Orderly, Between, TypeOK
  <2>2. \A m \in Loader \ {l} : pc'[m] = pc[m] /\ pos'[m] = pos[m]
    BY <1>7 DEF Commit, TypeOK
  <2>. QED
    BY <1>7, <2>1, <2>2, UnlockOrder DEF Commit
<1>8. CASE UNCHANGED vars
  BY <1>8 DEF vars, Orderly, Between, RowKey
<1>. QED
  BY <1>1, <1>2, <1>3, <1>4, <1>5, <1>6, <1>7, <1>8
  DEF Next, IntegrityError, DeadlockVictim, Kill

LEMMA InitOrder == Init => Orderly
<1> SUFFICES ASSUME Init PROVE Orderly
  OBVIOUS
<1>1. InOrder(<<>>)
  BY DEF InOrder
<1>2. Version(OldVal, 0).current = TRUE
  BY DEF Version
<1>3. InOrder(<<Version(OldVal, 0)>>)
  <2> SUFFICES ASSUME NEW i \in 1..1
               PROVE  <<Version(OldVal, 0)>>[i].current = (i = 1)
    BY DEF InOrder
  <2>1. i = 1
    OBVIOUS
  <2>. QED
    BY <1>2, <2>1
<1>4. \A k \in Key : InOrder(hist[k])
  BY <1>1, <1>3 DEF Init
<1>5. \A k \in Key, l \in Loader : lock[k] # l
  BY WarehouseAssumption DEF Init
<1>. QED
  BY <1>4, <1>5 DEF Orderly

(* Every variable keeps its type: no load, killed and retried at any row,   *)
(* ever stands behind the end of its batch.                                *)
THEOREM TypeCorrect == Spec => []TypeOK
  BY Typing

(* A customer who has a version always has one current version, the last:  *)
(* no load, of either type, killed, retried or beside any number of others, *)
(* commits the close of a version without its successor, or two successors. *)
THEOREM CustomersStayServed == Spec => []ServedKeysStayServed
<1>1. Init => Orderly
  BY InitOrder
<1>2. TypeOK /\ Orderly => ServedKeysStayServed
  <2> SUFFICES ASSUME TypeOK, Orderly, NEW k \in Key, NEW i \in DOMAIN hist[k]
               PROVE  hist[k][i].current = (i = Len(hist[k]))
    BY DEF ServedKeysStayServed
  <2>1. hist[k] \in Seq(Row)
    BY DEF TypeOK
  <2>2. i \in 1..Len(hist[k])
    BY <2>1
  <2>. QED
    BY <2>2 DEF Orderly, InOrder
<1>. QED
  BY <1>1, <1>2, Typing, Ordering, PTL DEF Spec

-----------------------------------------------------------------------------
(* Histories of loads that do not overlap.  While there is only one load,  *)
(* what it sees is contiguous and began no later than it may write: a Type *)
(* 2 load writes its own start, a Type 1 load the present.  The version it *)
(* closes is the last, and what it inserts begins where that one ends.     *)

(* The statements are of the load that holds the key, on what it sees.     *)
LEMMA ViewAfterWrite ==
  ASSUME TypeOK, NEW l \in Loader, NEW k \in Key, NEW s, Write(l, k, s), CanLock(l, k),
         NEW m \in Loader, NEW j \in Key
  PROVE  View(m, j)' = IF m = l /\ j = k THEN s ELSE View(m, j)
BY WarehouseAssumption DEF TypeOK, Write, CanLock, View

LEMMA ViewAfterCommit ==
  ASSUME TypeOK, NEW l \in Loader, Commit(l), NEW j \in Key
  PROVE  View(l, j)' = View(l, j) /\ hist'[j] = View(l, j)
BY WarehouseAssumption DEF TypeOK, Commit, Unlock, View

(* The current version of a history in order is the last. *)
LEMMA CurrentIsLast ==
  ASSUME NEW s \in Seq(Row), InOrder(s)
  PROVE  Current(s) = Len(s)
<1>1. CASE Current(s) = 0
  <2>1. Len(s) \notin 1..Len(s)
    BY <1>1, CurrentPicks DEF InOrder
  <2>. QED
    BY <1>1, <2>1
<1>2. CASE Current(s) # 0
  BY <1>2, CurrentPicks DEF InOrder
<1>. QED
  BY <1>1, <1>2

Chained(s, t) ==
  \A i \in 1..Len(s) :
    /\ s[i].from <= t
    /\ i < Len(s) => s[i].from <= s[i].to /\ s[i].to = s[i + 1].from

(* The latest a version that load l inserts may begin. *)
Bound(l) == IF type2[l] THEN now[l] ELSE clock

Serial ==
  /\ \A k \in Key, l \in Loader : lock[k] = l => Active(l)
  /\ \A l, m \in Loader : Active(l) /\ Active(m) => l = m
  /\ \A k \in Key : Chained(hist[k], clock)

Steady(l) ==
  /\ now[l] <= clock
  /\ \A k \in Key : Chained(hist[k], Bound(l)) /\ Chained(View(l, k), Bound(l))
  /\ pc[l] = "close" => type2[l] /\ seen[l] = Len(View(l, RowKey(l)))
  /\ pc[l] = "insert" =>
       LET s == View(l, RowKey(l))
       IN type2[l] /\ (Len(s) # 0 => s[Len(s)].to = now[l])

Contiguous == ~overlap => Serial /\ \A l \in Loader : Active(l) => Steady(l)

LEMMA ChainLater ==
  ASSUME NEW s \in Seq(Row), NEW t \in Nat, NEW u \in Nat, t <= u, Chained(s, t)
  PROVE  Chained(s, u)
<1>1. \A i \in 1..Len(s) : s[i].from \in Nat
  <2> TAKE i \in 1..Len(s)
  <2>1. s[i] \in Row
    BY ElementOfSeq
  <2>. QED
    BY <2>1 DEF Row
<1>. QED
  BY <1>1 DEF Chained

LEMMA ChainOverwrite ==
  ASSUME NEW s \in Seq(Row), NEW i \in 1..Len(s), NEW v, NEW t, Chained(s, t)
  PROVE  Chained([s EXCEPT ![i].val = v], t)
<1> DEFINE n == [s EXCEPT ![i].val = v]
<1>1. Len(n) = Len(s) /\ Len(s) \in Nat
  OBVIOUS
<1>2. \A j \in 1..Len(s) : n[j].from = s[j].from /\ n[j].to = s[j].to
  <2> TAKE j \in 1..Len(s)
  <2>1. s[j] \in Row
    BY ElementOfSeq
  <2>. QED
    BY <2>1 DEF Row
<1> HIDE DEF n
<1>3. Chained(n, t)
  BY <1>1, <1>2 DEF Chained
<1>. QED
  BY <1>3 DEF n

LEMMA ChainClose ==
  ASSUME NEW s \in Seq(Row), NEW t, NEW u, Chained(s, t)
  PROVE  LET n == Closed(s, Len(s), u)
         IN Chained(n, t) /\ Len(n) = Len(s) /\ (Len(n) # 0 => n[Len(n)].to = u)
<1> DEFINE n == Closed(s, Len(s), u)
<1>1. Len(n) = Len(s) /\ Len(s) \in Nat
  BY DEF Closed
<1>2. \A j \in 1..Len(s) :
        n[j].from = s[j].from /\ n[j].to = IF j = Len(s) THEN u ELSE s[j].to
  <2> TAKE j \in 1..Len(s)
  <2>1. s[j] \in Row
    BY ElementOfSeq
  <2>. QED
    BY <2>1 DEF Row, Closed
<1> HIDE DEF n
<1>3. Chained(n, t) /\ (Len(n) # 0 => n[Len(n)].to = u)
  BY <1>1, <1>2 DEF Chained
<1>. QED
  BY <1>1, <1>3 DEF n

LEMMA ChainAppend ==
  ASSUME NEW s \in Seq(Row), NEW v, NEW t \in Nat, Chained(s, t),
         Len(s) # 0 => s[Len(s)].to = t
  PROVE  Chained(Append(s, Version(v, t)), t)
<1> DEFINE n == Append(s, Version(v, t))
<1>1. Len(n) = Len(s) + 1 /\ Len(s) \in Nat
  OBVIOUS
<1>2. \A j \in 1..Len(s) : n[j] = s[j]
  OBVIOUS
<1>3. n[Len(s) + 1].from = t
  BY DEF Version
<1> HIDE DEF n
<1>4. Chained(n, t)
  <2> SUFFICES ASSUME NEW i \in 1..Len(n)
               PROVE  /\ n[i].from <= t
                      /\ i < Len(n) => n[i].from <= n[i].to /\ n[i].to = n[i + 1].from
    BY DEF Chained
  <2>1. CASE i = Len(n)
    BY <1>1, <1>3, <2>1
  <2>2. CASE i = Len(s) /\ i # Len(n)
    BY <1>1, <1>2, <1>3, <2>2 DEF Chained
  <2>3. CASE i < Len(s)
    BY <1>1, <1>2, <2>3 DEF Chained
  <2>. QED
    BY <1>1, <2>1, <2>2, <2>3
<1>. QED
  BY <1>4 DEF n

(* A write by the only load, of versions that are contiguous. *)
LEMMA SerialWrite ==
  ASSUME TypeOK, Contiguous, ~overlap, NEW l \in Loader, Active(l), NEW k \in Key, NEW s,
         Write(l, k, s), CanLock(l, k), Chained(s, Bound(l)),
         \A m \in Loader \ {l} : pc'[m] = pc[m],
         Active(l)', UNCHANGED <<now, clock, type2>>
  PROVE  /\ Serial'
         /\ \A m \in Loader : Active(m)' => m = l
         /\ now'[l] <= clock'
         /\ \A j \in Key : Chained(hist'[j], Bound(l)') /\ Chained(View(l, j)', Bound(l)')
         /\ View(l, k)' = s
<1>1. Serial /\ Steady(l)
  BY DEF Contiguous
<1>2. \A m \in Loader : Active(m)' => m = l
  BY <1>1 DEF Serial, Active
<1>3. \A j \in Key, m \in Loader : lock'[j] = m => Active(m)'
  BY <1>1 DEF Write, TypeOK, Serial, Active
<1>4. Serial'
  BY <1>1, <1>2, <1>3 DEF Serial, Write
<1>5. \A j \in Key : View(l, j)' = IF j = k THEN s ELSE View(l, j)
  BY ViewAfterWrite
<1>6. Bound(l)' = Bound(l)
  BY DEF Bound
<1>. QED
  BY <1>1, <1>2, <1>4, <1>5, <1>6 DEF Steady, Write

LEMMA Contiguity == TypeOK /\ Orderly /\ Contiguous /\ [Next]_vars => Contiguous'
<1> SUFFICES ASSUME TypeOK, Orderly, Contiguous, [Next]_vars, ~overlap'
             PROVE  Serial' /\ \A m \in Loader : Active(m)' => Steady(m)'
  BY DEF Contiguous
<1> USE DEF table, locals, job
<1>1. ~overlap
  BY DEF Next, Start, Upsert, ReadCurrent, Close, Insert, Commit, IntegrityError,
         DeadlockVictim, Kill, Abort, vars, TypeOK
<1>2. Serial /\ \A m \in Loader : Active(m) => Steady(m)
  BY <1>1 DEF Contiguous
<1>3. \A l \in Loader : Bound(l) \in Nat
  BY DEF Bound, TypeOK
<1>4. ASSUME NEW l \in Loader, Active(l), Abort(l)
      PROVE  Serial' /\ \A m \in Loader : Active(m)' => Steady(m)'
  <2>1. \A m \in Loader : ~Active(m)'
    BY <1>2, <1>4 DEF Serial, Active, Abort, TypeOK
  <2>2. \A k \in Key, m \in Loader : lock'[k] # m
    BY <1>2, <1>4, WarehouseAssumption DEF Serial, Abort, Unlock, TypeOK
  <2>. QED
    BY <1>2, <1>4, <2>1, <2>2 DEF Serial, Abort
<1>5. ASSUME NEW l \in Loader, Start(l)
      PROVE  Serial' /\ \A m \in Loader : Active(m)' => Steady(m)'
  <2>1. \A m \in Loader : ~Active(m)
    BY <1>5, <1>1 DEF Start, TypeOK
  <2>2. \A k \in Key, m \in Loader : lock[k] # m
    BY <1>2, <2>1 DEF Serial
  <2>3. \A m \in Loader : Active(m)' => m = l
    BY <1>5, <2>1 DEF Start, Active, TypeOK
  <2>4. pc'[l] = "read" /\ now'[l] = clock /\ clock' = clock + 1 /\ clock \in Nat
        /\ UNCHANGED <<hist, draft, lock, type2>>
    BY <1>5 DEF Start, TypeOK
  <2>5. \A k \in Key : Chained(hist[k], clock + 1) /\ Chained(hist[k], Bound(l)')
    <3> TAKE k \in Key
    <3>1. hist[k] \in Seq(Row) /\ Chained(hist[k], clock)
      BY <1>2 DEF TypeOK, Serial
    <3>2. Bound(l)' \in Nat /\ clock <= Bound(l)'
      BY <2>4 DEF Bound
    <3>. QED
      BY <2>4, <3>1, <3>2, ChainLater
  <2>6. \A k \in Key : View(l, k)' = hist[k]
    BY <2>2, <2>4 DEF View
  <2>7. Serial'
    BY <2>2, <2>3, <2>4, <2>5 DEF Serial
  <2>8. Steady(l)'
    BY <2>4, <2>5, <2>6 DEF Steady
  <2>. QED
    BY <2>3, <2>7, <2>8
<1>6. ASSUME NEW l \in Loader, Upsert(l)
      PROVE  Serial' /\ \A m \in Loader : Active(m)' => Steady(m)'
  <2> DEFINE k == RowKey(l)
             s == View(l, k)
             n == IF Current(s) = 0 THEN Append(s, Version(RowVal(l), clock))
                  ELSE [s EXCEPT ![Current(s)].val = Stored[RowVal(l)]]
  <2>1. k \in Key /\ RowVal(l) \in Value /\ s \in Seq(Row)
    BY <1>6, BatchRows, ViewTyped DEF Upsert
  <2>2. InOrder(s)
    BY <1>6, <2>1, ViewInOrder DEF Upsert, Between
  <2>3. Active(l) /\ ~type2[l] /\ Bound(l) = clock /\ clock \in Nat
    BY <1>6 DEF Upsert, Active, Bound, TypeOK
  <2>4. Chained(s, clock)
    BY <1>2, <2>1, <2>3 DEF Steady
  <2>5. Chained(n, clock)
    <3>1. CASE Current(s) = 0
      <4>1. Len(s) = 0
        BY <2>1, <2>2, <3>1, CurrentIsLast
      <4>2. Chained(Append(s, Version(RowVal(l), clock)), clock)
        BY <2>1, <2>3, <2>4, <4>1, ChainAppend
      <4>. QED
        BY <3>1, <4>2
    <3>2. CASE Current(s) # 0
      <4>1. Chained([s EXCEPT ![Current(s)].val = Stored[RowVal(l)]], clock)
        BY <2>1, <2>4, <3>2, CurrentPicks, ChainOverwrite
      <4>. QED
        BY <3>2, <4>1
    <3>. QED
      BY <3>1, <3>2
  <2>6. Write(l, k, n) /\ CanLock(l, k)
    BY <1>6 DEF Upsert
  <2>7. /\ \A m \in Loader \ {l} : pc'[m] = pc[m]
        /\ pc'[l] \in {"read", "commit"} /\ Active(l)'
        /\ UNCHANGED <<now, clock, type2>>
    BY <1>6 DEF Upsert, Advance, Active, TypeOK
  <2> HIDE DEF k, s, n
  <2>8. /\ Serial'
        /\ \A m \in Loader : Active(m)' => m = l
        /\ now'[l] <= clock'
        /\ \A j \in Key : Chained(hist'[j], Bound(l)') /\ Chained(View(l, j)', Bound(l)')
    BY <1>1, <2>1, <2>3, <2>5, <2>6, <2>7, SerialWrite
  <2>. QED
    BY <2>7, <2>8 DEF Steady
<1>7. ASSUME NEW l \in Loader, ReadCurrent(l)
      PROVE  Serial' /\ \A m \in Loader : Active(m)' => Steady(m)'
  <2>0. PICK k \in Key : k = RowKey(l)
    BY <1>7, BatchRows DEF ReadCurrent
  <2> DEFINE s == View(l, k)
  <2>1. s \in Seq(Row)
    BY ViewTyped
  <2>2. InOrder(s)
    BY <1>7, ViewInOrder DEF ReadCurrent, Between
  <2>3. Current(s) = Len(s)
    BY <2>1, <2>2, CurrentIsLast
  <2>4. Active(l) /\ Active(l)' /\ \A m \in Loader \ {l} : pc'[m] = pc[m]
    BY <1>7 DEF ReadCurrent, Active, Advance, TypeOK
  <2>5. \A m \in Loader : Active(m)' => m = l
    BY <1>2, <2>4 DEF Serial, Active
  <2>6. UNCHANGED <<hist, draft, lock, now, clock, type2, batch>>
    BY <1>7 DEF ReadCurrent
  <2>7. Serial'
    BY <1>2, <2>4, <2>5, <2>6 DEF Serial
  <2>8. \A j \in Key : View(l, j)' = View(l, j) /\ Bound(l)' = Bound(l)
    BY <2>6 DEF View, Bound
  <2>9. \/ pc'[l] \in {"read", "commit"}
        \/ /\ pc'[l] = IF Current(s) = 0 THEN "insert" ELSE "close"
           /\ pos'[l] = pos[l] /\ type2[l] /\ seen'[l] = Current(s)
    BY <1>7, <2>0 DEF ReadCurrent, Advance, TypeOK
  <2>10. pos'[l] = pos[l] => RowKey(l)' = k
    BY <2>0, <2>6 DEF RowKey
  <2>11. View(l, k)' = s /\ (pc'[l] \in {"close", "insert"} => RowKey(l)' = k)
    BY <2>8, <2>9, <2>10
  <2> HIDE DEF s
  <2>12. /\ pc'[l] = "close" => type2'[l] /\ seen'[l] = Len(View(l, k)')
         /\ pc'[l] = "insert" => type2'[l] /\ Len(View(l, k)') = 0
    BY <2>3, <2>6, <2>9, <2>11
  <2>13. Steady(l)'
    BY <1>2, <2>4, <2>6, <2>8, <2>11, <2>12 DEF Steady
  <2>. QED
    BY <2>5, <2>7, <2>13
<1>8. ASSUME NEW l \in Loader, Close(l)
      PROVE  Serial' /\ \A m \in Loader : Active(m)' => Steady(m)'
  <2>0. PICK k \in Key : k = RowKey(l)
    BY <1>8, BatchRows DEF Close
  <2> DEFINE s == View(l, k)
             n == Closed(s, Len(s), now[l])
  <2>1. s \in Seq(Row)
    BY ViewTyped
  <2>2. Active(l) /\ type2[l] /\ Bound(l) = now[l] /\ seen[l] = Len(s) /\ Chained(s, now[l])
    BY <1>2, <1>8, <2>0 DEF Close, Active, Steady, Bound
  <2>3. Chained(n, now[l]) /\ (Len(n) # 0 => n[Len(n)].to = now[l])
    BY <2>1, <2>2, ChainClose
  <2>4. Write(l, k, n) /\ CanLock(l, k)
    BY <1>8, <2>0, <2>2 DEF Close
  <2>5. /\ \A m \in Loader \ {l} : pc'[m] = pc[m]
        /\ pc'[l] = "insert" /\ Active(l)'
        /\ RowKey(l)' = k
        /\ UNCHANGED <<now, clock, type2>>
    BY <1>8, <2>0 DEF Close, Active, RowKey, TypeOK
  <2> HIDE DEF s, n
  <2>6. /\ Serial'
        /\ \A m \in Loader : Active(m)' => m = l
        /\ now'[l] <= clock'
        /\ \A j \in Key : Chained(hist'[j], Bound(l)') /\ Chained(View(l, j)', Bound(l)')
        /\ View(l, k)' = n
    BY <1>1, <2>1, <2>2, <2>3, <2>4, <2>5, SerialWrite
  <2>7. Steady(l)'
    BY <2>2, <2>3, <2>5, <2>6 DEF Steady
  <2>. QED
    BY <2>6, <2>7
<1>9. ASSUME NEW l \in Loader, Insert(l)
      PROVE  Serial' /\ \A m \in Loader : Active(m)' => Steady(m)'
  <2> DEFINE k == RowKey(l)
             s == View(l, k)
             n == Append(s, Version(RowVal(l), now[l]))
  <2>1. k \in Key /\ s \in Seq(Row)
    BY <1>9, BatchRows, ViewTyped DEF Insert
  <2>2. /\ Active(l) /\ Bound(l) = now[l] /\ now[l] \in Nat /\ Chained(s, now[l])
        /\ Len(s) # 0 => s[Len(s)].to = now[l]
    BY <1>2, <1>9, <2>1 DEF Insert, Active, Steady, Bound, TypeOK
  <2>3. Chained(n, now[l])
    BY <2>1, <2>2, ChainAppend
  <2>4. Write(l, k, n) /\ CanLock(l, k)
    BY <1>9 DEF Insert
  <2>5. /\ \A m \in Loader \ {l} : pc'[m] = pc[m]
        /\ pc'[l] \in {"read", "commit"} /\ Active(l)'
        /\ UNCHANGED <<now, clock, type2>>
    BY <1>9 DEF Insert, Advance, Active, TypeOK
  <2> HIDE DEF k, s, n
  <2>6. /\ Serial'
        /\ \A m \in Loader : Active(m)' => m = l
        /\ now'[l] <= clock'
        /\ \A j \in Key : Chained(hist'[j], Bound(l)') /\ Chained(View(l, j)', Bound(l)')
    BY <1>1, <2>1, <2>2, <2>3, <2>4, <2>5, SerialWrite
  <2>. QED
    BY <2>5, <2>6 DEF Steady
<1>10. ASSUME NEW l \in Loader, Commit(l)
       PROVE  Serial' /\ \A m \in Loader : Active(m)' => Steady(m)'
  <2>1. Active(l) /\ Steady(l)
    BY <1>2, <1>10 DEF Commit, Active
  <2>2. \A m \in Loader : Active(m)' => m = l
    BY <1>2, <1>10, <2>1 DEF Commit, Serial, Active, TypeOK
  <2>3. \A k \in Key, m \in Loader : lock'[k] # m
    BY <1>2, <1>10, <2>1, WarehouseAssumption DEF Serial, Commit, Unlock, TypeOK
  <2>4. \A k \in Key : View(l, k)' = View(l, k) /\ hist'[k] = View(l, k)
    BY <1>10, ViewAfterCommit
  <2>5. /\ pc'[l] \in {"done", "read"} /\ now'[l] = now[l] /\ clock' = clock
        /\ Bound(l)' = Bound(l) /\ Bound(l) <= clock /\ clock \in Nat
    BY <1>10, <2>1 DEF Commit, TypeOK, Bound, Steady
  <2>6. \A k \in Key : Chained(View(l, k), Bound(l)) /\ Chained(View(l, k), clock)
    <3> TAKE k \in Key
    <3>. QED
      BY <1>3, <2>1, <2>5, ViewTyped, ChainLater DEF Steady
  <2>7. Serial'
    BY <2>2, <2>3, <2>4, <2>5, <2>6 DEF Serial
  <2>8. Steady(l)'
    BY <2>1, <2>4, <2>5, <2>6 DEF Steady
  <2>. QED
    BY <2>2, <2>7, <2>8
<1>11. CASE UNCHANGED vars
  <2>1. \A l \in Loader : (Active(l)' <=> Active(l)) /\ Bound(l)' = Bound(l) /\ RowKey(l)' = RowKey(l)
    BY <1>11 DEF vars, Active, Bound, RowKey
  <2>2. \A l \in Loader, k \in Key : View(l, k)' = View(l, k)
    BY <1>11 DEF vars, View
  <2>3. Serial'
    BY <1>2, <1>11, <2>1 DEF Serial, vars
  <2>4. ASSUME NEW l \in Loader, Steady(l) PROVE Steady(l)'
    <3>1. pc[l] \in {"close", "insert"} => RowKey(l) \in Key
      BY BatchRows
    <3>2. UNCHANGED <<pc, now, clock, type2, seen, hist>>
      BY <1>11 DEF vars
    <3>. QED
      BY <2>1, <2>2, <2>4, <3>1, <3>2 DEF Steady
  <2>. QED
    BY <1>2, <2>1, <2>3, <2>4
<1>12. \A l \in Loader : IntegrityError(l) \/ DeadlockVictim(l) \/ Kill(l) => Active(l) /\ Abort(l)
  BY DEF IntegrityError, DeadlockVictim, Kill, Waiting, Active
<1>. QED
  BY <1>4, <1>5, <1>6, <1>7, <1>8, <1>9, <1>10, <1>11, <1>12 DEF Next

(* Loads that do not overlap leave a history without gaps: each version     *)
(* ends when the next begins, and none ends before it began, whatever is   *)
(* killed and loaded again, of either type.                                *)
THEOREM HistoryStaysContiguous == Spec => []HistoryIsContiguous
<1>1. Init => Orderly
  BY InitOrder
<1>2. Init => Contiguous
  <2> SUFFICES ASSUME Init PROVE Serial /\ \A m \in Loader : ~Active(m)
    BY DEF Contiguous
  <2>1. \A m \in Loader : ~Active(m)
    BY DEF Init, Active
  <2>2. \A k \in Key, m \in Loader : lock[k] # m
    BY WarehouseAssumption DEF Init
  <2>3. ASSUME NEW k \in Key PROVE Chained(hist[k], clock)
    <3>1. \/ hist[k] = <<>>
          \/ Len(hist[k]) = 1 /\ hist[k][1].from = 0
      BY DEF Init, Version
    <3>. QED
      BY <3>1 DEF Chained, Init
  <2>. QED
    BY <2>1, <2>2, <2>3 DEF Serial
<1>3. TypeOK /\ Contiguous => HistoryIsContiguous
  <2> SUFFICES ASSUME TypeOK, Contiguous, ~overlap, NEW k \in Key,
                      NEW i \in 1..(Len(hist[k]) - 1)
               PROVE  hist[k][i].from <= hist[k][i].to /\ hist[k][i].to = hist[k][i + 1].from
    BY DEF HistoryIsContiguous
  <2>1. Chained(hist[k], clock) /\ Len(hist[k]) \in Nat
    BY DEF Contiguous, Serial, TypeOK
  <2>2. i \in 1..Len(hist[k]) /\ i < Len(hist[k])
    BY <2>1
  <2>. QED
    BY <2>1, <2>2 DEF Chained
<1>. QED
  BY <1>1, <1>2, <1>3, Typing, Ordering, Contiguity, PTL DEF Spec

-----------------------------------------------------------------------------
(* What has been loaded stays loaded.  Let every load be of the same rows, *)
(* and take row i.  Tops says of the versions of its customer that the     *)
(* last holds what the source lists for that customer from row m on.  A    *)
(* load that is past row i sees a version out of the source; if the table  *)
(* does not have one from row i on, some load still owes it: one that may  *)
(* start again, has row i before it, or holds the customer with such a     *)
(* version in its draft.                                                   *)
Tops(s, rows, m, k) ==
  Len(s) # 0 /\ \E j \in m..Len(rows) : rows[j].key = k /\ s[Len(s)].val = Stored[rows[j].val]

Owes(l, k, i) == Unfinished(l) /\ (pc[l] = "idle" \/ pos[l] <= i \/ lock[k] = l)

Worked ==
  /\ \A k \in Key, l \in Loader : lock[k] = l => Active(l)
  /\ \A l \in Loader : pc[l] # "idle" => tries[l] > 0
  /\ \A l \in Loader : pc[l] = "done" => pos[l] > Len(batch[l])

(* Row i, of customer k. *)
Kept(rows, i, k) ==
  /\ \A l \in Loader : pc[l] # "idle" /\ i < pos[l] => Tops(View(l, k), rows, 1, k)
  /\ \A l \in Loader : lock[k] = l => Tops(draft[k], rows, 1, k) \/ Between(l, k)
  /\ \A l \in Loader : lock[k] = l /\ i < pos[l] => Tops(draft[k], rows, i, k) \/ Between(l, k)
  /\ \/ \A l \in Loader : tries[l] = 0
     \/ Tops(hist[k], rows, i, k)
     \/ \E l \in Loader : Owes(l, k, i)

Same(rows) == \A l \in Loader : batch[l] = rows

Loaded ==
  \A rows \in Source, i \in Nat, k \in Key :
    Same(rows) /\ i \in 1..Len(rows) /\ rows[i].key = k => Kept(rows, i, k)

LEMMA TopsFewer ==
  ASSUME NEW s, NEW rows, NEW i \in Nat, NEW k, 1 <= i, Tops(s, rows, i, k)
  PROVE  Tops(s, rows, 1, k)
BY DEF Tops

LEMMA TopsClose ==
  ASSUME NEW s \in Seq(Row), NEW n \in Nat, NEW t \in Nat,
         NEW rows, NEW i, NEW k, Tops(s, rows, i, k)
  PROVE  Tops(Closed(s, n, t), rows, i, k)
<1> DEFINE c == Closed(s, n, t)
<1>1. Len(c) = Len(s) /\ Len(s) \in Nat
  BY DEF Closed
<1>2. Len(s) # 0 => c[Len(s)].val = s[Len(s)].val
  <2> SUFFICES ASSUME Len(s) # 0 PROVE c[Len(s)].val = s[Len(s)].val
    OBVIOUS
  <2>1. s[Len(s)] \in Row
    BY <1>1, ElementOfSeq
  <2>. QED
    BY <1>1, <2>1 DEF Row, Closed
<1> HIDE DEF c
<1>3. Tops(c, rows, i, k)
  BY <1>1, <1>2 DEF Tops
<1>. QED
  BY <1>3 DEF c

LEMMA TopsAppend ==
  ASSUME NEW s \in Seq(Row), NEW t, NEW rows \in Seq([key : Key, val : Value]),
         NEW p \in 1..Len(rows), NEW i \in 1..p
  PROVE  Tops(Append(s, Version(rows[p].val, t)), rows, i, rows[p].key)
<1> DEFINE n == Append(s, Version(rows[p].val, t))
<1>1. Len(n) = Len(s) + 1 /\ Len(s) \in Nat /\ n[Len(s) + 1].val = Stored[rows[p].val]
  BY DEF Version
<1> HIDE DEF n
<1>2. Tops(n, rows, i, rows[p].key)
  BY <1>1 DEF Tops
<1>. QED
  BY <1>2 DEF n

LEMMA TopsOverwrite ==
  ASSUME NEW s \in Seq(Row), Len(s) # 0, NEW rows \in Seq([key : Key, val : Value]),
         NEW p \in 1..Len(rows), NEW i \in 1..p
  PROVE  Tops([s EXCEPT ![Len(s)].val = Stored[rows[p].val]], rows, i, rows[p].key)
<1> DEFINE n == [s EXCEPT ![Len(s)].val = Stored[rows[p].val]]
<1>1. Len(n) = Len(s) /\ Len(s) \in 1..Len(s)
  OBVIOUS
<1>2. n[Len(s)].val = Stored[rows[p].val]
  <2>1. s[Len(s)] \in Row
    BY <1>1, ElementOfSeq
  <2>. QED
    BY <1>1, <2>1 DEF Row
<1> HIDE DEF n
<1>3. Tops(n, rows, i, rows[p].key)
  BY <1>1, <1>2 DEF Tops
<1>. QED
  BY <1>3 DEF n

(* A current version that is what row p says is its value as it is stored. *)
LEMMA TopsUnchanged ==
  ASSUME NEW s \in Seq(Row), Len(s) # 0, NEW rows \in Seq([key : Key, val : Value]),
         NEW p \in 1..Len(rows), NEW i \in 1..p, s[Len(s)].val = rows[p].val
  PROVE  Tops(s, rows, i, rows[p].key)
<1>1. s[Len(s)] \in Row
  BY ElementOfSeq
<1>2. rows[p] \in [key : Key, val : Value]
  BY ElementOfSeq
<1>3. Stored[rows[p].val] = rows[p].val
  BY <1>1, <1>2, WarehouseAssumption DEF Row
<1>. QED
  BY <1>3 DEF Tops

LEMMA LoadRows ==
  ASSUME TypeOK, NEW rows \in Source, Same(rows), NEW l \in Loader,
         pc[l] \in {"read", "close", "insert"}
  PROVE  /\ rows \in Seq([key : Key, val : Value])
         /\ pos[l] \in 1..Len(rows)
         /\ RowKey(l) = rows[pos[l]].key /\ RowVal(l) = rows[pos[l]].val
<1>1. rows \in Seq([key : Key, val : Value]) /\ batch[l] = rows
  BY WarehouseAssumption DEF Same
<1>2. pos[l] \in 1..Len(rows)
  BY <1>1 DEF TypeOK
<1>. QED
  BY <1>1, <1>2 DEF RowKey, RowVal

-----------------------------------------------------------------------------
(* A load writes the versions s of the customer k of its row and goes on,  *)
(* or, having closed one, stays.                                           *)
LEMMA KeptByWrite ==
  ASSUME TypeOK, Worked, NEW rows \in Source, NEW i \in Nat, i \in 1..Len(rows), NEW c \in Key,
         Kept(rows, i, c),
         NEW l \in Loader, Active(l), NEW k \in Key, NEW s, Write(l, k, s), CanLock(l, k),
         \A m \in Loader \ {l} : pc'[m] = pc[m] /\ pos'[m] = pos[m],
         Active(l)', UNCHANGED <<tries, batch>>,
         Between(l, c) => c = k,
         k = c => Tops(s, rows, 1, c) \/ Between(l, c)',
         k = c /\ i < pos'[l] => Tops(s, rows, 1, c) /\ (Tops(s, rows, i, c) \/ Between(l, c)'),
         i < pos'[l] => i < pos[l] \/ k = c,
         pos[l] \in Nat, pos'[l] \in Nat
  PROVE  Kept(rows, i, c)'
<1>1. /\ hist' = hist
      /\ k # c => draft'[c] = draft[c] /\ lock'[c] = lock[c]
      /\ k = c => draft'[c] = s /\ lock'[c] = l
  BY DEF Write, TypeOK
<1>2. \A m \in Loader : View(m, c)' = IF m = l /\ c = k THEN s ELSE View(m, c)
  BY ViewAfterWrite
<1>3. \A m \in Loader \ {l} : Between(m, c)' = Between(m, c)
  BY DEF Between, RowKey
<1>4. ASSUME NEW m \in Loader, pc'[m] # "idle", i < pos'[m]
      PROVE  Tops(View(m, c)', rows, 1, c)
  <2>1. CASE m = l /\ c = k
    BY <1>2, <1>4, <2>1
  <2>2. CASE m = l /\ c # k
    BY <1>2, <1>4, <2>2 DEF Kept, Active
  <2>3. CASE m # l
    BY <1>2, <1>4, <2>3 DEF Kept
  <2>. QED
    BY <2>1, <2>2, <2>3
<1>5. ASSUME NEW m \in Loader, lock'[c] = m
      PROVE  /\ Tops(draft'[c], rows, 1, c) \/ Between(m, c)'
             /\ i < pos'[m] => Tops(draft'[c], rows, i, c) \/ Between(m, c)'
  <2>1. CASE k = c
    BY <1>1, <1>5, <2>1
  <2>2. CASE k # c /\ m = l
    BY <1>1, <1>5, <2>2 DEF Kept
  <2>3. CASE k # c /\ m # l
    BY <1>1, <1>3, <1>5, <2>3 DEF Kept
  <2>. QED
    BY <2>1, <2>2, <2>3
<1>6. Tops(hist'[c], rows, i, c) \/ \E m \in Loader : Owes(m, c, i)'
  <2>1. tries[l] > 0 /\ tries[l] # 0
    BY DEF Worked, Active, TypeOK
  <2>2. CASE Tops(hist[c], rows, i, c)
    BY <1>1, <2>2
  <2>3. ASSUME NEW m \in Loader, Owes(m, c, i) PROVE Owes(m, c, i)'
    <3>1. CASE m = l
      <4>1. Unfinished(l)'
        BY <2>1 DEF Unfinished, Active
      <4>2. pos'[l] <= i \/ lock'[c] = l
        BY <1>1, <2>3, <3>1 DEF Owes, Active
      <4>. QED
        BY <3>1, <4>1, <4>2 DEF Owes
    <3>2. CASE m # l
      <4>1. lock[c] = m => lock'[c] = m
        BY <1>1, <3>2, WarehouseAssumption DEF CanLock
      <4>. QED
        BY <2>3, <3>2, <4>1 DEF Owes, Unfinished
    <3>. QED
      BY <3>1, <3>2
  <2>. QED
    BY <2>1, <2>2, <2>3 DEF Kept
<1>. QED
  BY <1>4, <1>5, <1>6 DEF Kept

(* A load reads, and goes on where the version it reads is what row i says. *)
LEMMA KeptByRead ==
  ASSUME TypeOK, Worked, NEW rows \in Source, NEW i \in Nat, i \in 1..Len(rows), NEW c \in Key,
         Kept(rows, i, c),
         NEW l \in Loader, pc[l] = "read", UNCHANGED <<hist, draft, lock, tries, batch>>,
         \A m \in Loader \ {l} : pc'[m] = pc[m] /\ pos'[m] = pos[m],
         Active(l)',
         i < pos'[l] => i < pos[l] \/ Tops(View(l, c), rows, i, c),
         pos[l] \in Nat, pos'[l] \in Nat
  PROVE  Kept(rows, i, c)'
<1>1. \A m \in Loader : View(m, c)' = View(m, c)
  BY DEF View
<1>2. \A m \in Loader \ {l} : Between(m, c)' = Between(m, c)
  BY DEF Between, RowKey
<1>3. i < pos'[l] => Tops(View(l, c), rows, 1, c)
  BY TopsFewer DEF Kept
<1>4. \A m \in Loader : pc'[m] # "idle" /\ i < pos'[m] => Tops(View(m, c)', rows, 1, c)
  BY <1>1, <1>3 DEF Kept
<1>5. ASSUME NEW m \in Loader, lock'[c] = m
      PROVE  /\ Tops(draft'[c], rows, 1, c) \/ Between(m, c)'
             /\ i < pos'[m] => Tops(draft'[c], rows, i, c) \/ Between(m, c)'
  <2>1. CASE m = l
    <3>1. View(l, c) = draft[c] /\ lock[c] = l /\ ~Between(l, c)
      BY <1>5, <2>1 DEF View, Between
    <3>. QED
      BY <2>1, <3>1 DEF Kept
  <2>2. CASE m # l
    BY <1>2, <1>5, <2>2 DEF Kept
  <2>. QED
    BY <2>1, <2>2
<1>6. Tops(hist'[c], rows, i, c) \/ \E m \in Loader : Owes(m, c, i)'
  <2>1. tries[l] > 0 /\ tries[l] # 0
    BY DEF Worked, TypeOK
  <2>2. CASE Tops(hist[c], rows, i, c)
    BY <2>2
  <2>3. ASSUME NEW m \in Loader, Owes(m, c, i)
        PROVE  Tops(hist[c], rows, i, c) \/ Owes(m, c, i)'
    <3>1. CASE m = l
      <4>1. Unfinished(l)'
        BY <2>1 DEF Unfinished, Active
      <4>2. pos'[l] <= i \/ lock'[c] = l \/ Tops(hist[c], rows, i, c)
        BY <2>3, <3>1 DEF Owes, View
      <4>. QED
        BY <3>1, <4>1, <4>2 DEF Owes
    <3>2. CASE m # l
      BY <2>3, <3>2 DEF Owes, Unfinished
    <3>. QED
      BY <3>1, <3>2
  <2>. QED
    BY <2>1, <2>2, <2>3 DEF Kept
<1>. QED
  BY <1>4, <1>5, <1>6 DEF Kept

(* A load that is rolled back owes every row. *)
LEMMA KeptByAbort ==
  ASSUME TypeOK, Worked, NEW rows \in Source, NEW i \in Nat, NEW c \in Key, Kept(rows, i, c),
         NEW l \in Loader, Active(l), Abort(l)
  PROVE  Kept(rows, i, c)'
<1> USE DEF locals, job
<1>1. /\ hist' = hist /\ tries' = tries /\ pos' = pos /\ batch' = batch
      /\ pc'[l] = "idle" /\ \A m \in Loader \ {l} : pc'[m] = pc[m]
  BY DEF Abort, TypeOK
<1>2. \A m \in Loader : lock'[c] = m => m # l /\ lock[c] = m /\ draft'[c] = draft[c]
  BY WarehouseAssumption DEF Abort, Unlock
<1>3. \A m \in Loader \ {l} : View(m, c)' = View(m, c) /\ Between(m, c)' = Between(m, c)
  BY <1>1, WarehouseAssumption DEF Abort, Unlock, View, Between, RowKey
<1>4. Owes(l, c, i)'
  BY <1>1 DEF Owes, Unfinished, Worked, Active
<1>5. \A m \in Loader : pc'[m] # "idle" /\ i < pos'[m] => Tops(View(m, c)', rows, 1, c)
  BY <1>1, <1>3 DEF Kept
<1>6. \A m \in Loader : lock'[c] = m =>
        /\ Tops(draft'[c], rows, 1, c) \/ Between(m, c)'
        /\ i < pos'[m] => Tops(draft'[c], rows, i, c) \/ Between(m, c)'
  BY <1>1, <1>2, <1>3 DEF Kept
<1>. QED
  BY <1>4, <1>5, <1>6 DEF Kept

LEMMA KeptByStart ==
  ASSUME TypeOK, Worked, NEW rows \in Source, NEW i \in Nat, i \in 1..Len(rows), NEW c \in Key,
         Kept(rows, i, c), NEW l \in Loader, Start(l)
  PROVE  Kept(rows, i, c)'
<1> USE DEF table, job
<1>1. /\ UNCHANGED <<hist, draft, lock, batch>>
      /\ pc'[l] = "read" /\ pos'[l] = 1 /\ tries'[l] = tries[l] + 1 /\ tries[l] \in Nat
      /\ \A m \in Loader \ {l} : pc'[m] = pc[m] /\ pos'[m] = pos[m] /\ tries'[m] = tries[m]
  BY DEF Start, TypeOK
<1>2. lock[c] # l
  BY DEF Start, Worked, Active
<1>3. \A m \in Loader \ {l} : View(m, c)' = View(m, c) /\ Between(m, c)' = Between(m, c)
  BY <1>1 DEF View, Between, RowKey
<1>4. Owes(l, c, i)'
  BY <1>1 DEF Owes, Unfinished
<1>5. \A m \in Loader : pc'[m] # "idle" /\ i < pos'[m] => Tops(View(m, c)', rows, 1, c)
  BY <1>1, <1>3 DEF Kept
<1>6. \A m \in Loader : lock'[c] = m =>
        /\ Tops(draft'[c], rows, 1, c) \/ Between(m, c)'
        /\ i < pos'[m] => Tops(draft'[c], rows, i, c) \/ Between(m, c)'
  BY <1>1, <1>2, <1>3 DEF Kept
<1>. QED
  BY <1>4, <1>5, <1>6 DEF Kept

(* What is committed tops the table; a load that has row i before it does  *)
(* not end.                                                                *)
LEMMA KeptByCommit ==
  ASSUME TypeOK, Worked, NEW rows \in Source, Same(rows), NEW i \in Nat, i \in 1..Len(rows),
         NEW c \in Key, Kept(rows, i, c), NEW l \in Loader, Commit(l)
  PROVE  Kept(rows, i, c)'
<1> USE DEF locals, job
<1>1. /\ UNCHANGED <<pos, tries, batch>>
      /\ pc[l] = "commit" /\ pc'[l] = IF pos[l] > Len(rows) THEN "done" ELSE "read"
      /\ \A m \in Loader \ {l} : pc'[m] = pc[m]
      /\ hist'[c] = IF lock[c] = l THEN draft[c] ELSE hist[c]
      /\ pos[l] \in Nat /\ Len(rows) \in Nat
  BY WarehouseAssumption DEF Commit, TypeOK, Same
<1>2. \A m \in Loader : lock'[c] = m => m # l /\ lock[c] = m /\ draft'[c] = draft[c]
  BY WarehouseAssumption DEF Commit, Unlock
<1>3. ~Between(l, c) /\ \A m \in Loader \ {l} : Between(m, c)' = Between(m, c)
  BY <1>1 DEF Between, RowKey
<1>4. lock[c] = l => Tops(draft[c], rows, 1, c) /\ (i < pos[l] => Tops(draft[c], rows, i, c))
  BY <1>3 DEF Kept
<1>5. ASSUME NEW m \in Loader, pc'[m] # "idle", i < pos'[m]
      PROVE  Tops(View(m, c)', rows, 1, c)
  <2>1. CASE m = l
    <3>1. View(l, c)' = View(l, c)
      BY ViewAfterCommit
    <3>. QED
      BY <1>1, <1>5, <2>1, <3>1 DEF Kept
  <2>2. CASE m # l /\ lock[c] = l
    <3>1. View(m, c)' = draft[c]
      BY <1>1, <1>2, <2>2 DEF View
    <3>. QED
      BY <1>4, <2>2, <3>1
  <2>3. CASE m # l /\ lock[c] # l
    <3>1. View(m, c)' = View(m, c)
      BY <1>1, <2>3 DEF View, Commit, Unlock
    <3>. QED
      BY <1>1, <1>5, <2>3, <3>1 DEF Kept
  <2>. QED
    BY <2>1, <2>2, <2>3
<1>6. \A m \in Loader : lock'[c] = m =>
        /\ Tops(draft'[c], rows, 1, c) \/ Between(m, c)'
        /\ i < pos'[m] => Tops(draft'[c], rows, i, c) \/ Between(m, c)'
  BY <1>1, <1>2, <1>3 DEF Kept
<1>7. Tops(hist'[c], rows, i, c) \/ \E m \in Loader : Owes(m, c, i)'
  <2>1. tries[l] > 0 /\ tries[l] # 0
    BY <1>1 DEF Worked, TypeOK
  <2>2. pos[l] <= i => Owes(l, c, i)'
    BY <1>1, <2>1 DEF Owes, Unfinished
  <2>3. lock[c] = l /\ i < pos[l] => Tops(hist'[c], rows, i, c)
    BY <1>1, <1>4
  <2>4. ASSUME lock[c] # l, i < pos[l]
        PROVE  Tops(hist'[c], rows, i, c) \/ \E m \in Loader : Owes(m, c, i)'
    <3>1. hist'[c] = hist[c]
      BY <1>1, <2>4
    <3>2. ASSUME NEW m \in Loader, Owes(m, c, i) PROVE Owes(m, c, i)'
      <4>1. m # l
        BY <1>1, <2>4, <3>2 DEF Owes
      <4>2. lock[c] = m => lock'[c] = m
        BY <4>1 DEF Commit, Unlock
      <4>. QED
        BY <1>1, <3>2, <4>1, <4>2 DEF Owes, Unfinished
    <3>. QED
      BY <2>1, <3>1, <3>2 DEF Kept
  <2>. QED
    BY <1>1, <2>2, <2>3, <2>4
<1>. QED
  BY <1>5, <1>6, <1>7 DEF Kept

LEMMA Working == TypeOK /\ Worked /\ [Next]_vars => Worked'
<1> SUFFICES ASSUME TypeOK, Worked, [Next]_vars PROVE Worked'
  OBVIOUS
<1> USE DEF table, locals, job
<1>1. ASSUME NEW l \in Loader, Abort(l) PROVE Worked'
  <2>1. \A k \in Key, m \in Loader : lock'[k] = m => m # l /\ lock[k] = m
    BY <1>1, WarehouseAssumption DEF Abort, Unlock
  <2>2. pc' = [pc EXCEPT ![l] = "idle"] /\ UNCHANGED <<tries, pos, batch>>
    BY <1>1 DEF Abort
  <2>. QED
    BY <2>1, <2>2 DEF Worked, Active, TypeOK
<1>2. ASSUME NEW l \in Loader, Start(l) PROVE Worked'
  <2>1. /\ UNCHANGED <<lock, batch>>
        /\ pc'[l] = "read" /\ tries'[l] = tries[l] + 1 /\ tries[l] \in Nat
        /\ \A m \in Loader \ {l} : pc'[m] = pc[m] /\ pos'[m] = pos[m] /\ tries'[m] = tries[m]
    BY <1>2 DEF Start, TypeOK
  <2>. QED
    BY <2>1 DEF Worked, Active
<1>3. ASSUME NEW l \in Loader, pc[l] \notin {"idle", "done"}, pc'[l] \notin {"idle", "done"},
             UNCHANGED <<tries, batch>>,
             \A m \in Loader \ {l} : pc'[m] = pc[m] /\ pos'[m] = pos[m],
             \A k \in Key, m \in Loader : lock'[k] = m => m = l \/ lock[k] = m
      PROVE  Worked'
  BY <1>3 DEF Worked, Active
<1>4. ASSUME NEW l \in Loader, Upsert(l) \/ Close(l) \/ Insert(l) PROVE Worked'
  <2>1. PICK s : Write(l, RowKey(l), s)
    BY <1>4 DEF Upsert, Close, Insert
  <2>2. \A k \in Key, m \in Loader : lock'[k] = m => m = l \/ lock[k] = m
    BY <2>1 DEF Write, TypeOK
  <2>3. /\ pc[l] \notin {"idle", "done"} /\ UNCHANGED <<tries, batch>>
        /\ Advance(l) \/ (pc' = [pc EXCEPT ![l] = "insert"] /\ UNCHANGED pos)
    BY <1>4 DEF Upsert, Close, Insert
  <2>4. pc'[l] \notin {"idle", "done"} /\ \A m \in Loader \ {l} : pc'[m] = pc[m] /\ pos'[m] = pos[m]
    BY <2>3 DEF Advance, TypeOK
  <2>. QED
    BY <1>3, <2>2, <2>3, <2>4
<1>5. ASSUME NEW l \in Loader, ReadCurrent(l) PROVE Worked'
  BY <1>3, <1>5 DEF ReadCurrent, Advance, TypeOK
<1>6. ASSUME NEW l \in Loader, Commit(l) PROVE Worked'
  <2>1. \A k \in Key, m \in Loader : lock'[k] = m => m # l /\ lock[k] = m
    BY <1>6, WarehouseAssumption DEF Commit, Unlock
  <2>2. /\ pc' = [pc EXCEPT ![l] = IF pos[l] > Len(batch[l]) THEN "done" ELSE "read"]
        /\ pc[l] = "commit" /\ UNCHANGED <<tries, pos, batch>>
    BY <1>6 DEF Commit
  <2>. QED
    BY <2>1, <2>2 DEF Worked, Active, TypeOK
<1>7. CASE UNCHANGED vars
  BY <1>7 DEF vars, Worked, Active
<1>. QED
  BY <1>1, <1>2, <1>4, <1>5, <1>6, <1>7 DEF Next, IntegrityError, DeadlockVictim, Kill

LEMMA Loading == TypeOK /\ Orderly /\ Worked /\ Loaded /\ [Next]_vars => Loaded'
<1> SUFFICES ASSUME TypeOK, Orderly, Worked, Loaded, [Next]_vars,
                    NEW rows \in Source, NEW i \in Nat, NEW c \in Key,
                    Same(rows)', i \in 1..Len(rows), rows[i].key = c
             PROVE  Kept(rows, i, c)'
  BY DEF Loaded
<1> USE DEF table, locals, job
<1>1. Same(rows)
  BY DEF Next, Start, Upsert, ReadCurrent, Close, Insert, Commit, IntegrityError,
         DeadlockVictim, Kill, Abort, vars, Same
<1>2. Kept(rows, i, c)
  BY <1>1 DEF Loaded
<1>3. ASSUME NEW l \in Loader, Upsert(l) PROVE Kept(rows, i, c)'
  <2>1. PICK k \in Key : k = RowKey(l)
    BY <1>3, BatchRows DEF Upsert
  <2> DEFINE s == View(l, k)
             n == IF Current(s) = 0 THEN Append(s, Version(RowVal(l), clock))
                  ELSE [s EXCEPT ![Current(s)].val = Stored[RowVal(l)]]
  <2>2. s \in Seq(Row) /\ InOrder(s)
    BY <1>3, ViewTyped, ViewInOrder DEF Upsert, Between
  <2>3. /\ rows \in Seq([key : Key, val : Value])
        /\ pos[l] \in 1..Len(rows)
        /\ k = rows[pos[l]].key /\ RowVal(l) = rows[pos[l]].val
    BY <1>1, <1>3, <2>1, LoadRows DEF Upsert
  <2>4. \A m \in 1..pos[l] : Tops(n, rows, m, k)
    <3> SUFFICES ASSUME NEW m \in 1..pos[l] PROVE Tops(n, rows, m, k)
      OBVIOUS
    <3>1. CASE Current(s) = 0
      <4>1. Tops(Append(s, Version(RowVal(l), clock)), rows, m, k)
        BY <2>2, <2>3, TopsAppend
      <4>. QED
        BY <3>1, <4>1
    <3>2. CASE Current(s) # 0
      <4>1. Current(s) = Len(s) /\ Len(s) # 0
        BY <2>2, <3>2, CurrentIsLast
      <4>2. Tops([s EXCEPT ![Len(s)].val = Stored[RowVal(l)]], rows, m, k)
        BY <2>2, <2>3, <4>1, TopsOverwrite
      <4>. QED
        BY <4>1, <4>2
    <3>. QED
      BY <3>1, <3>2
  <2>5. Write(l, k, n) /\ CanLock(l, k)
    BY <1>3, <2>1 DEF Upsert
  <2> HIDE DEF s, n
  <2>6. /\ Active(l) /\ Active(l)' /\ UNCHANGED <<tries, batch>>
        /\ \A m \in Loader \ {l} : pc'[m] = pc[m] /\ pos'[m] = pos[m]
        /\ pos'[l] = pos[l] + 1 /\ pos[l] \in Nat
        /\ ~Between(l, c)
    BY <1>3 DEF Upsert, Advance, Active, Between, TypeOK
  <2>7. i < pos'[l] => i < pos[l] \/ k = c
    BY <2>3, <2>6
  <2>8. k = c => Tops(n, rows, 1, c) /\ (i < pos'[l] => Tops(n, rows, i, c))
    BY <2>3, <2>4, <2>6
  <2>. QED
    BY <1>2, <2>5, <2>6, <2>7, <2>8, KeptByWrite
<1>4. ASSUME NEW l \in Loader, ReadCurrent(l) PROVE Kept(rows, i, c)'
  <2>1. PICK k \in Key : k = RowKey(l)
    BY <1>4, BatchRows DEF ReadCurrent
  <2> DEFINE s == View(l, k)
  <2>2. s \in Seq(Row) /\ InOrder(s)
    BY <1>4, ViewTyped, ViewInOrder DEF ReadCurrent, Between
  <2>3. /\ rows \in Seq([key : Key, val : Value])
        /\ pos[l] \in 1..Len(rows)
        /\ k = rows[pos[l]].key /\ RowVal(l) = rows[pos[l]].val
    BY <1>1, <1>4, <2>1, LoadRows DEF ReadCurrent
  <2>4. Current(s) = Len(s)
    BY <2>2, CurrentIsLast
  <2>5. \/ pos'[l] = pos[l]
        \/ pos'[l] = pos[l] + 1 /\ Len(s) # 0 /\ s[Len(s)].val = RowVal(l)
    BY <1>4, <2>1, <2>4 DEF ReadCurrent, Advance, Unchanged, TypeOK
  <2>6. /\ pc[l] = "read" /\ Active(l)' /\ UNCHANGED <<hist, draft, lock, tries, batch>>
        /\ \A m \in Loader \ {l} : pc'[m] = pc[m] /\ pos'[m] = pos[m]
    BY <1>4 DEF ReadCurrent, Advance, Active, TypeOK
  <2>7. ASSUME i < pos'[l], ~(i < pos[l]) PROVE Tops(View(l, c), rows, i, c)
    <3>1. i = pos[l] /\ Len(s) # 0 /\ s[Len(s)].val = RowVal(l)
      BY <2>3, <2>5, <2>7
    <3>2. k = c /\ s[Len(s)].val = rows[i].val /\ i \in 1..i
      BY <2>3, <3>1
    <3> HIDE DEF s
    <3>3. Tops(s, rows, i, rows[i].key)
      BY <2>2, <2>3, <3>1, <3>2, TopsUnchanged
    <3>. QED
      BY <3>2, <3>3 DEF s
  <2>8. pos[l] \in Nat /\ pos'[l] \in Nat
    BY <2>3, <2>5
  <2>. QED
    BY <1>2, <2>6, <2>7, <2>8, KeptByRead
<1>5. ASSUME NEW l \in Loader, Close(l) PROVE Kept(rows, i, c)'
  <2>1. PICK k \in Key : k = RowKey(l)
    BY <1>5, BatchRows DEF Close
  <2> DEFINE n == Closed(View(l, k), seen[l], now[l])
  <2>2. /\ View(l, k) \in Seq(Row) /\ seen[l] \in Nat /\ now[l] \in Nat
    BY ViewTyped DEF TypeOK
  <2>3. Write(l, k, n) /\ CanLock(l, k)
    BY <1>5, <2>1 DEF Close
  <2>4. /\ Active(l) /\ Active(l)' /\ UNCHANGED <<tries, batch>>
        /\ \A m \in Loader \ {l} : pc'[m] = pc[m] /\ pos'[m] = pos[m]
        /\ pos'[l] = pos[l] /\ pos[l] \in Nat
        /\ ~Between(l, c) /\ (k = c => Between(l, c)')
    BY <1>5, <2>1 DEF Close, Active, Between, RowKey, TypeOK
  <2>5. k = c /\ i < pos[l] => Tops(n, rows, 1, c)
    BY <1>2, <2>2, <2>4, TopsClose DEF Kept, Active
  <2> HIDE DEF n
  <2>. QED
    BY <1>2, <2>3, <2>4, <2>5, KeptByWrite
<1>6. ASSUME NEW l \in Loader, Insert(l) PROVE Kept(rows, i, c)'
  <2>1. PICK k \in Key : k = RowKey(l)
    BY <1>6, BatchRows DEF Insert
  <2> DEFINE n == Append(View(l, k), Version(RowVal(l), now[l]))
  <2>2. View(l, k) \in Seq(Row)
    BY ViewTyped
  <2>3. /\ rows \in Seq([key : Key, val : Value])
        /\ pos[l] \in 1..Len(rows)
        /\ k = rows[pos[l]].key /\ RowVal(l) = rows[pos[l]].val
    BY <1>1, <1>6, <2>1, LoadRows DEF Insert
  <2>4. \A m \in 1..pos[l] : Tops(n, rows, m, k)
    BY <2>2, <2>3, TopsAppend
  <2>5. Write(l, k, n) /\ CanLock(l, k)
    BY <1>6, <2>1 DEF Insert
  <2> HIDE DEF n
  <2>6. /\ Active(l) /\ Active(l)' /\ UNCHANGED <<tries, batch>>
        /\ \A m \in Loader \ {l} : pc'[m] = pc[m] /\ pos'[m] = pos[m]
        /\ pos'[l] = pos[l] + 1 /\ pos[l] \in Nat
        /\ (Between(l, c) => c = k)
    BY <1>6, <2>1 DEF Insert, Advance, Active, Between, TypeOK
  <2>7. i < pos'[l] => i < pos[l] \/ k = c
    BY <2>3, <2>6
  <2>8. k = c => Tops(n, rows, 1, c) /\ (i < pos'[l] => Tops(n, rows, i, c))
    BY <2>3, <2>4, <2>6
  <2>. QED
    BY <1>2, <2>5, <2>6, <2>7, <2>8, KeptByWrite
<1>7. CASE UNCHANGED vars
  <2>1. UNCHANGED <<hist, draft, lock, pc, pos, tries, batch>>
    BY <1>7 DEF vars
  <2>2. \A l \in Loader : View(l, c)' = View(l, c) /\ Between(l, c)' = Between(l, c)
    BY <2>1 DEF View, Between, RowKey
  <2>. QED
    BY <1>2, <2>1, <2>2 DEF Kept, Owes, Unfinished
<1>8. \A l \in Loader : IntegrityError(l) \/ DeadlockVictim(l) \/ Kill(l) => Active(l) /\ Abort(l)
  BY DEF IntegrityError, DeadlockVictim, Kill, Waiting, Active
<1>. QED
  BY <1>1, <1>2, <1>3, <1>4, <1>5, <1>6, <1>7, <1>8, KeptByAbort, KeptByStart, KeptByCommit
  DEF Next

(* A load that has ended has loaded every row, for any chunks, kills,       *)
(* retries and other loads of the batch: the table serves the last value   *)
(* the source lists for the customer, or, while another load goes through  *)
(* the batch again, some value it lists.                                   *)
THEOREM EveryRowIsServed == Spec => []LoadedRowsAreServed
<1>1. Init => Worked /\ Loaded
  <2> SUFFICES ASSUME Init PROVE Worked /\ Loaded
    OBVIOUS
  <2>1. \A k \in Key, l \in Loader : lock[k] # l
    BY WarehouseAssumption DEF Init
  <2>2. \A l \in Loader : pc[l] = "idle" /\ tries[l] = 0
    BY DEF Init
  <2>3. Worked
    BY <2>1, <2>2 DEF Worked
  <2>4. Loaded
    BY <2>1, <2>2 DEF Loaded, Kept
  <2>. QED
    BY <2>3, <2>4
<1>2. TypeOK /\ Orderly /\ Worked /\ Loaded => LoadedRowsAreServed
  <2> SUFFICES ASSUME TypeOK, Orderly, Worked, Loaded,
                      NEW l \in Loader, pc[l] = "done", SameBatch, NEW i \in DOMAIN batch[l]
               PROVE  LET versions == hist[batch[l][i].key]
                      IN /\ Current(versions) # 0
                         /\ \E j \in DOMAIN batch[l] :
                              /\ batch[l][j].key = batch[l][i].key
                              /\ versions[Current(versions)].val = Stored[batch[l][j].val]
                              /\ i <= j \/ \E other \in Loader : Unfinished(other)
    BY DEF LoadedRowsAreServed
  <2>1. PICK rows \in Source : rows = batch[l]
    BY DEF TypeOK
  <2>2. rows \in Seq([key : Key, val : Value])
    BY WarehouseAssumption
  <2>3. DOMAIN rows = 1..Len(rows) /\ Len(rows) \in Nat /\ i \in 1..Len(rows) /\ i \in Nat
    BY <2>1, <2>2
  <2>4. PICK c \in Key : c = rows[i].key
    <3>1. rows[i] \in [key : Key, val : Value]
      BY <2>2, <2>3, ElementOfSeq
    <3>. QED
      BY <3>1
  <2>5. Same(rows)
    BY <2>1 DEF SameBatch, Same
  <2>6. Kept(rows, i, c)
    BY <2>3, <2>4, <2>5 DEF Loaded
  <2>7. i < pos[l] /\ tries[l] > 0 /\ tries[l] # 0 /\ lock[c] # l
    BY <2>1, <2>3 DEF Worked, Active, TypeOK
  <2>8. Tops(hist[c], rows, 1, c)
    BY <2>6, <2>7 DEF Kept, View
  <2>9. Tops(hist[c], rows, i, c) \/ \E other \in Loader : Unfinished(other)
    BY <2>6, <2>7 DEF Kept, Owes
  <2>10. Current(hist[c]) = Len(hist[c]) /\ Len(hist[c]) # 0
    BY <2>8, CurrentIsLast DEF Orderly, TypeOK, Tops
  <2>11. \E j \in 1..Len(rows) :
           /\ rows[j].key = c
           /\ hist[c][Len(hist[c])].val = Stored[rows[j].val]
           /\ i <= j \/ \E other \in Loader : Unfinished(other)
    <3>1. CASE Tops(hist[c], rows, i, c)
      BY <2>3, <3>1 DEF Tops
    <3>2. CASE \E other \in Loader : Unfinished(other)
      BY <2>8, <3>2 DEF Tops
    <3>. QED
      BY <2>9, <3>1, <3>2
  <2>. QED
    BY <2>1, <2>3, <2>4, <2>10, <2>11
<1>. QED
  BY <1>1, <1>2, InitOrder, Typing, Ordering, Working, Loading, PTL DEF Spec

-----------------------------------------------------------------------------
(* A batch that is loaded again, Type 2 throughout and from a plain source.  *)
(* A load writes only keys whose committed version is none the source lists *)
(* for them; or it has closed a version that was replaced since it read it,  *)
(* and then finds a current one where it would insert its own, and aborts.   *)
(* Once a load has ended, every committed version is one the source lists:   *)
(* what reaches its commit after that has written nothing.                   *)

(* Versions are appended and closed, their values never change. *)
Grows(s, d) == Len(s) <= Len(d) /\ \A i \in 1..Len(s) : d[i].val = s[i].val

(* The last version is none that the rows list for the key. *)
Novel(s, rows, k) ==
  Len(s) = 0 \/ \A j \in 1..Len(rows) : rows[j].key = k => s[Len(s)].val # rows[j].val

(* What load l, of a plain batch, may have locked, and may be about to close. *)
Reloading(l) ==
  /\ \A k \in Key : lock[k] = l =>
       /\ Grows(hist[k], draft[k])
       /\ \E j \in 1..Len(batch[l]) : batch[l][j].key = k
       /\ Novel(hist[k], batch[l], k) \/ (Between(l, k) /\ Current(draft[k]) # 0)
  /\ pc[l] = "close" =>
       /\ seen[l] \in 1..Len(View(l, RowKey(l)))
       /\ View(l, RowKey(l))[seen[l]].val # RowVal(l)

AllReload == \A l \in Loader : type2[l] /\ Plain(batch[l])

Reloads == AllReload => \A l \in Loader : Reloading(l)

(* The row a load of a plain batch stands at is the only one of its key. *)
LEMMA PlainRow ==
  ASSUME TypeOK, NEW l \in Loader, Plain(batch[l]), pc[l] \in {"read", "close", "insert"}
  PROVE  /\ pos[l] \in 1..Len(batch[l]) /\ RowKey(l) \in Key
         /\ batch[l][pos[l]].key = RowKey(l)
         /\ \A j \in 1..Len(batch[l]) :
              batch[l][j].key = RowKey(l) => batch[l][j].val = RowVal(l)
<1>1. batch[l] \in Seq([key : Key, val : Value])
  BY WarehouseAssumption DEF TypeOK
<1>2. pos[l] \in 1..Len(batch[l]) /\ DOMAIN batch[l] = 1..Len(batch[l])
  BY <1>1 DEF TypeOK
<1>. QED BY <1>2, BatchRows DEF Plain, RowKey, RowVal

(* Neither the close of a version nor a new one changes a value. *)
LEMMA GrowsClosed ==
  ASSUME NEW s \in Seq(Row), NEW i \in Nat, NEW t \in Nat
  PROVE  Grows(s, Closed(s, i, t))
<1>1. Closed(s, i, t) = [s EXCEPT ![i] = [s[i] EXCEPT !.to = t, !.current = FALSE]]
  BY DEF Closed
<1>2. Len(Closed(s, i, t)) = Len(s) /\ Len(s) \in Nat
  BY ClosedVersions
<1>3. ASSUME NEW j \in 1..Len(s) PROVE Closed(s, i, t)[j].val = s[j].val
  <2>1. s[j] \in Row
    OBVIOUS
  <2>2. [s[j] EXCEPT !.to = t, !.current = FALSE].val = s[j].val
    BY <2>1 DEF Row
  <2>. QED BY <1>1, <2>2
<1>. QED BY <1>2, <1>3 DEF Grows

LEMMA GrowsAppend ==
  ASSUME NEW s \in Seq(Row), NEW v \in Value, NEW t \in Nat
  PROVE  Grows(s, Append(s, Version(v, t)))
BY AppendedVersions DEF Grows

LEMMA GrowsOn ==
  ASSUME NEW s \in Seq(Row), NEW d \in Seq(Row), NEW e \in Seq(Row), Grows(s, d), Grows(d, e)
  PROVE  Grows(s, e)
BY DEF Grows

(* A load that does nothing, beside one that does. *)
LEMMA ReloadBeside ==
  ASSUME TypeOK, NEW m \in Loader, Reloading(m), batch' = batch,
         pc'[m] = pc[m], pos'[m] = pos[m], seen'[m] = seen[m],
         \A k \in Key : (lock'[k] = m <=> lock[k] = m) /\ Grows(View(m, k), View(m, k)'),
         \A k \in Key : lock[k] = m => hist'[k] = hist[k] /\ draft'[k] = draft[k]
  PROVE  Reloading(m)'
<1>1. RowKey(m)' = RowKey(m) /\ RowVal(m)' = RowVal(m)
  BY DEF RowKey, RowVal
<1>2. ASSUME NEW k \in Key, lock'[k] = m
      PROVE  /\ Grows(hist'[k], draft'[k])
             /\ \E j \in 1..Len(batch'[m]) : batch'[m][j].key = k
             /\ Novel(hist'[k], batch'[m], k) \/ (Between(m, k)' /\ Current(draft'[k]) # 0)
  <2>1. /\ lock[k] = m /\ hist'[k] = hist[k] /\ draft'[k] = draft[k]
        /\ Between(m, k)' <=> Between(m, k)
    BY <1>1, <1>2 DEF Between
  <2>. QED BY <2>1 DEF Reloading
<1>3. ASSUME pc'[m] = "close"
      PROVE  (/\ seen[m] \in 1..Len(View(m, RowKey(m)))
              /\ View(m, RowKey(m))[seen[m]].val # RowVal(m))'
  <2>1. PICK k \in Key : k = RowKey(m)
    BY <1>3, BatchRows
  <2>2. seen[m] \in 1..Len(View(m, k)) /\ View(m, k)[seen[m]].val # RowVal(m)
    BY <1>3, <2>1 DEF Reloading
  <2>3. Grows(View(m, k), View(m, k)') /\ View(m, k) \in Seq(Row)
    BY ViewTyped
  <2>4. Len(View(m, k)) \in Nat
    BY <2>3
  <2>5. /\ Len(View(m, k)) <= Len(View(m, k)')
        /\ View(m, k)'[seen[m]].val = View(m, k)[seen[m]].val
    BY <2>2, <2>3 DEF Grows
  <2>6. /\ seen'[m] \in Nat /\ 1 <= seen'[m] /\ seen'[m] <= Len(View(m, k)')
        /\ View(m, k)'[seen'[m]].val # RowVal(m)'
    BY <1>1, <2>2, <2>4, <2>5
  <2>7. RowKey(m)' = k
    BY <1>1, <2>1
  <2>. QED BY <2>6, <2>7
<1>. QED BY <1>2, <1>3 DEF Reloading

(* A statement of load l writes the versions n of its row's key. *)
LEMMA ReloadWrite ==
  ASSUME TypeOK, Orderly, NEW l \in Loader, NEW k \in Key, k = RowKey(l), Plain(batch[l]),
         pc[l] \in {"close", "insert"}, pc'[l] # "close", batch' = batch,
         \A m \in Loader : Reloading(m),
         NEW n \in Seq(Row), Write(l, k, n), CanLock(l, k), Grows(View(l, k), n),
         \A m \in Loader \ {l} : pc'[m] = pc[m] /\ pos'[m] = pos[m], seen' = seen,
         \/ lock[k] = l /\ pc[l] = "close"
         \/ lock[k] = l /\ Current(draft[k]) = 0
         \/ Novel(hist[k], batch[l], k)
         \/ Between(l, k)' /\ Current(n) # 0
  PROVE  \A m \in Loader : Reloading(m)'
<1>1. /\ hist' = hist /\ draft'[k] = n /\ lock'[k] = l
      /\ \A j \in Key \ {k} : draft'[j] = draft[j] /\ lock'[j] = lock[j]
      /\ \A m \in Loader, j \in Key : View(m, j)' = IF m = l /\ j = k THEN n ELSE View(m, j)
  <2>1. \A m \in Loader, j \in Key : View(m, j)' = IF m = l /\ j = k THEN n ELSE View(m, j)
    BY ViewAfterWrite
  <2>. QED BY <2>1 DEF Write, TypeOK
<1>2. ASSUME NEW m \in Loader \ {l} PROVE Reloading(m)'
  <2>1. \A j \in Key : lock'[j] = m <=> lock[j] = m
    BY <1>1, WarehouseAssumption DEF CanLock
  <2>2. \A j \in Key : lock[j] = m => hist'[j] = hist[j] /\ draft'[j] = draft[j]
    BY <1>1, WarehouseAssumption DEF CanLock
  <2>3. \A j \in Key : Grows(View(m, j), View(m, j)')
    BY <1>1 DEF Grows
  <2>. QED BY <2>1, <2>2, <2>3, ReloadBeside
<1>3. Reloading(l)'
  <2> SUFFICES ASSUME NEW j \in Key, lock'[j] = l
               PROVE  /\ Grows(hist'[j], draft'[j])
                      /\ \E i \in 1..Len(batch'[l]) : batch'[l][i].key = j
                      /\ Novel(hist'[j], batch'[l], j) \/ (Between(l, j)' /\ Current(draft'[j]) # 0)
    BY DEF Reloading
  <2>1. CASE j # k
    <3>1. /\ lock[j] = l /\ hist'[j] = hist[j] /\ draft'[j] = draft[j] /\ ~Between(l, j)
      BY <1>1, <2>1 DEF Between
    <3>. QED BY <3>1 DEF Reloading
  <2>2. CASE j = k
    <3>1. Grows(hist[k], n)
      <4>1. CASE lock[k] = l
        <5>1. Grows(hist[k], draft[k]) /\ draft[k] = View(l, k)
          BY <4>1 DEF Reloading, View
        <5>2. hist[k] \in Seq(Row) /\ draft[k] \in Seq(Row)
          BY DEF TypeOK
        <5>. QED BY <5>1, <5>2, GrowsOn
      <4>2. CASE lock[k] # l
        BY <4>2 DEF View
      <4>. QED BY <4>1, <4>2
    <3>2. \E i \in 1..Len(batch[l]) : batch[l][i].key = k
      BY PlainRow
    <3>3. Novel(hist[k], batch[l], k) \/ (Between(l, k)' /\ Current(n) # 0)
      BY DEF Reloading, Between
    <3>. QED BY <1>1, <2>2, <3>1, <3>2, <3>3
  <2>. QED BY <2>1, <2>2
<1>. QED BY <1>2, <1>3

(* A version in order that is not the last is not the current one. *)
LEMMA CloseEarlier ==
  ASSUME NEW s \in Seq(Row), InOrder(s), NEW i \in 1..Len(s), i # Len(s), NEW t \in Nat
  PROVE  Current(Closed(s, i, t)) # 0
<1>1. Len(s) \in 1..Len(s) /\ s[Len(s)].current = TRUE
  <2>1. Len(s) \in Nat /\ Len(s) \in 1..Len(s)
    OBVIOUS
  <2>2. s[Len(s)].current = (Len(s) = Len(s))
    BY <2>1 DEF InOrder
  <2>. QED BY <2>1, <2>2
<1>2. /\ Closed(s, i, t) \in Seq(Row) /\ Len(Closed(s, i, t)) = Len(s)
      /\ Closed(s, i, t)[Len(s)].current = (s[Len(s)].current /\ Len(s) # i)
  BY <1>1, ClosedVersions
<1>3. Closed(s, i, t)[Len(s)].current
  BY <1>1, <1>2
<1>. QED BY <1>1, <1>2, <1>3, CurrentPicks

(* What a load has drafted is dropped when it aborts. *)
LEMMA ReloadEnds ==
  ASSUME TypeOK, NEW l \in Loader, Abort(l), \A m \in Loader : Reloading(m)
  PROVE  \A m \in Loader : Reloading(m)'
<1> USE DEF locals, job
<1>1. /\ UNCHANGED <<hist, pos, seen, batch>> /\ pc'[l] = "idle"
      /\ \A m \in Loader \ {l} : pc'[m] = pc[m]
      /\ \A k \in Key : lock'[k] = IF lock[k] = l THEN NoLoader ELSE lock[k]
      /\ \A k \in Key : draft'[k] = IF lock[k] = l THEN <<>> ELSE draft[k]
  BY DEF Abort, Unlock, TypeOK
<1>2. ASSUME NEW m \in Loader \ {l} PROVE Reloading(m)'
  <2>1. \A k \in Key : lock'[k] = m <=> lock[k] = m
    BY <1>1, WarehouseAssumption
  <2>2. \A k \in Key : lock[k] = m => hist'[k] = hist[k] /\ draft'[k] = draft[k]
    BY <1>1
  <2>3. \A k \in Key : Grows(View(m, k), View(m, k)')
    BY <1>1, <2>1, <2>2 DEF Grows, View
  <2>. QED BY <1>1, <2>1, <2>2, <2>3, ReloadBeside
<1>3. Reloading(l)'
  BY <1>1, WarehouseAssumption DEF Reloading
<1>. QED BY <1>2, <1>3

(* What a load commits only grows what the others see. *)
LEMMA ReloadCommits ==
  ASSUME TypeOK, NEW l \in Loader, Commit(l), \A m \in Loader : Reloading(m)
  PROVE  \A m \in Loader : Reloading(m)'
<1> USE DEF locals, job
<1>1. /\ UNCHANGED <<pos, seen, batch>> /\ pc'[l] \in {"done", "read"}
      /\ \A m \in Loader \ {l} : pc'[m] = pc[m]
      /\ \A k \in Key : hist'[k] = IF lock[k] = l THEN draft[k] ELSE hist[k]
      /\ \A k \in Key : lock'[k] = IF lock[k] = l THEN NoLoader ELSE lock[k]
      /\ \A k \in Key : draft'[k] = IF lock[k] = l THEN <<>> ELSE draft[k]
  BY DEF Commit, Unlock, TypeOK
<1>2. ASSUME NEW m \in Loader \ {l} PROVE Reloading(m)'
  <2>1. \A k \in Key : lock'[k] = m <=> lock[k] = m
    BY <1>1, WarehouseAssumption
  <2>2. \A k \in Key : lock[k] = m => hist'[k] = hist[k] /\ draft'[k] = draft[k]
    BY <1>1
  <2>3. ASSUME NEW k \in Key PROVE Grows(View(m, k), View(m, k)')
    <3>1. CASE lock[k] = l
      <4>1. View(m, k) = hist[k] /\ View(m, k)' = draft[k]
        BY <1>1, <2>1, <3>1 DEF View
      <4>. QED BY <3>1, <4>1 DEF Reloading
    <3>2. CASE lock[k] # l
      <4>1. View(m, k)' = View(m, k)
        BY <1>1, <3>2 DEF View
      <4>. QED BY <4>1 DEF Grows
    <3>. QED BY <3>1, <3>2
  <2>. QED BY <1>1, <2>1, <2>2, <2>3, ReloadBeside
<1>3. Reloading(l)'
  BY <1>1, WarehouseAssumption DEF Reloading
<1>. QED BY <1>2, <1>3

(* A load reads, or starts: no key is written. *)
LEMMA ReloadReads ==
  ASSUME TypeOK, NEW l \in Loader, pc[l] # "insert", UNCHANGED <<hist, draft, lock, batch>>,
         \A m \in Loader \ {l} : pc'[m] = pc[m] /\ pos'[m] = pos[m] /\ seen'[m] = seen[m],
         \A m \in Loader : Reloading(m),
         pc'[l] = "close" => (/\ seen[l] \in 1..Len(View(l, RowKey(l)))
                              /\ View(l, RowKey(l))[seen[l]].val # RowVal(l))'
  PROVE  \A m \in Loader : Reloading(m)'
<1>1. \A m \in Loader, k \in Key : View(m, k)' = View(m, k)
  BY DEF View
<1>2. ASSUME NEW m \in Loader \ {l} PROVE Reloading(m)'
  <2>1. \A k \in Key : Grows(View(m, k), View(m, k)')
    BY <1>1 DEF Grows
  <2>. QED BY <2>1, ReloadBeside
<1>3. Reloading(l)'
  BY DEF Reloading, Between
<1>. QED BY <1>2, <1>3

(* Every step of a reload keeps to this. *)
LEMMA Reloaded == TypeOK /\ Orderly /\ Reloads /\ [Next]_vars => Reloads'
<1> SUFFICES ASSUME TypeOK, Orderly, Reloads, [Next]_vars, AllReload'
             PROVE  \A m \in Loader : Reloading(m)'
  BY DEF Reloads
<1> USE DEF table, locals, job
<1>1. batch' = batch /\ type2' = type2
  BY DEF Next, Start, Upsert, ReadCurrent, Close, Insert, Commit, IntegrityError,
         DeadlockVictim, Kill, Abort, vars
<1>2. /\ \A m \in Loader : Reloading(m)
      /\ \A m \in Loader : type2[m] /\ Plain(batch[m])
  BY <1>1 DEF AllReload, Reloads, Plain
<1>3. ASSUME NEW l \in Loader, Start(l) PROVE \A m \in Loader : Reloading(m)'
  <2>1. /\ pc[l] = "idle" /\ pc'[l] = "read" /\ UNCHANGED <<hist, draft, lock, seen, batch>>
        /\ \A m \in Loader \ {l} : pc'[m] = pc[m] /\ pos'[m] = pos[m]
    BY <1>3 DEF Start, TypeOK
  <2>. QED BY <1>2, <2>1, ReloadReads
<1>4. ASSUME NEW l \in Loader, Upsert(l) PROVE FALSE
  BY <1>2, <1>4 DEF Upsert
<1>5. ASSUME NEW l \in Loader, ReadCurrent(l) PROVE \A m \in Loader : Reloading(m)'
  <2>1. PICK k \in Key : k = RowKey(l)
    BY <1>5, BatchRows DEF ReadCurrent
  <2>2. /\ pc[l] = "read" /\ UNCHANGED <<hist, draft, lock, batch>>
        /\ \A m \in Loader \ {l} : pc'[m] = pc[m] /\ pos'[m] = pos[m] /\ seen'[m] = seen[m]
        /\ seen'[l] = Current(View(l, k))
    BY <1>5, <2>1 DEF ReadCurrent, Advance, TypeOK
  <2>3. ASSUME pc'[l] = "close"
        PROVE  (/\ seen[l] \in 1..Len(View(l, RowKey(l)))
                /\ View(l, RowKey(l))[seen[l]].val # RowVal(l))'
    <3>1. Current(View(l, k)) # 0 /\ ~Unchanged(l) /\ pos' = pos
      BY <1>5, <2>1, <2>3 DEF ReadCurrent, Advance, TypeOK
    <3>2. /\ Current(View(l, k)) \in 1..Len(View(l, k))
          /\ View(l, k)[Current(View(l, k))].val # RowVal(l)
      BY <2>1, <3>1, CurrentPicks, ViewTyped DEF Unchanged
    <3>3. RowKey(l)' = k /\ RowVal(l)' = RowVal(l) /\ View(l, k)' = View(l, k)
      BY <1>1, <2>1, <2>2, <3>1 DEF RowKey, RowVal, View
    <3>. QED BY <2>2, <3>2, <3>3
  <2>. QED BY <1>2, <2>2, <2>3, ReloadReads
<1>6. ASSUME NEW l \in Loader, Close(l) PROVE \A m \in Loader : Reloading(m)'
  <2>1. PICK k \in Key : k = RowKey(l)
    BY <1>6, BatchRows DEF Close
  <2> DEFINE s == View(l, k)
             n == Closed(s, seen[l], now[l])
  <2>2. /\ s \in Seq(Row) /\ seen[l] \in 1..Len(s) /\ s[seen[l]].val # RowVal(l)
        /\ InOrder(s) /\ seen[l] \in Nat /\ now[l] \in Nat
    BY <1>2, <1>6, <2>1, ViewTyped, ViewInOrder DEF Close, Reloading, Between, TypeOK
  <2>3. n \in Seq(Row) /\ Grows(s, n)
    BY <2>2, ClosedVersions, GrowsClosed
  <2>4. /\ Write(l, k, n) /\ CanLock(l, k) /\ pc[l] = "close" /\ pc'[l] = "insert"
        /\ UNCHANGED <<pos, seen>> /\ \A m \in Loader \ {l} : pc'[m] = pc[m] /\ pos'[m] = pos[m]
        /\ Between(l, k)'
    BY <1>1, <1>6, <2>1 DEF Close, Between, RowKey, TypeOK
  <2>5. lock[k] = l \/ Novel(hist[k], batch[l], k) \/ Current(n) # 0
    <3>1. CASE lock[k] # l /\ seen[l] = Len(s)
      <4>1. s = hist[k]
        BY <3>1 DEF View
      <4>2. \A j \in 1..Len(batch[l]) : batch[l][j].key = k => s[Len(s)].val # batch[l][j].val
        BY <1>2, <2>1, <2>2, <2>4, <3>1, PlainRow
      <4>. QED BY <4>1, <4>2 DEF Novel
    <3>2. CASE seen[l] # Len(s)
      BY <2>2, <3>2, CloseEarlier
    <3>. QED BY <3>1, <3>2
  <2> HIDE DEF n, s
  <2>6. Grows(View(l, k), n)
    BY <2>3 DEF s
  <2>. QED BY <1>1, <1>2, <2>1, <2>3, <2>4, <2>5, <2>6, ReloadWrite
<1>7. ASSUME NEW l \in Loader, Insert(l) PROVE \A m \in Loader : Reloading(m)'
  <2>1. PICK k \in Key : k = RowKey(l)
    BY <1>7, BatchRows DEF Insert
  <2> DEFINE s == View(l, k)
             n == Append(s, Version(RowVal(l), now[l]))
  <2>2. s \in Seq(Row) /\ RowVal(l) \in Value /\ now[l] \in Nat
    BY <1>7, ViewTyped, BatchRows DEF Insert, TypeOK
  <2>3. n \in Seq(Row) /\ Grows(s, n)
    BY <2>2, AppendedVersions, GrowsAppend
  <2>4. /\ Write(l, k, n) /\ CanLock(l, k) /\ pc[l] = "insert" /\ pc'[l] # "close"
        /\ UNCHANGED seen /\ \A m \in Loader \ {l} : pc'[m] = pc[m] /\ pos'[m] = pos[m]
        /\ Current(s) = 0
    BY <1>7, <2>1 DEF Insert, Advance, TypeOK
  <2>5. (lock[k] = l /\ Current(draft[k]) = 0) \/ Novel(hist[k], batch[l], k)
    <3>1. CASE lock[k] = l
      BY <2>4, <3>1 DEF View
    <3>2. CASE lock[k] # l
      <4>1. Current(hist[k]) = 0 /\ InOrder(hist[k]) /\ hist[k] \in Seq(Row)
        BY <2>4, <3>2 DEF View, Orderly, TypeOK
      <4>. QED BY <4>1, CurrentIsLast DEF Novel
    <3>. QED BY <3>1, <3>2
  <2> HIDE DEF n, s
  <2>6. Grows(View(l, k), n)
    BY <2>3 DEF s
  <2>. QED BY <1>1, <1>2, <2>1, <2>3, <2>4, <2>5, <2>6, ReloadWrite
<1>8. \A l \in Loader : IntegrityError(l) \/ DeadlockVictim(l) \/ Kill(l) => Abort(l)
  BY DEF IntegrityError, DeadlockVictim, Kill
<1>9. CASE UNCHANGED vars
  <2>1. UNCHANGED <<hist, draft, lock, pc, pos, seen, batch>>
    BY <1>9 DEF vars
  <2>. QED BY <1>2, <2>1 DEF Reloading, View, RowKey, RowVal, Between
<1>. QED
  BY <1>2, <1>3, <1>4, <1>5, <1>6, <1>7, <1>8, <1>9, ReloadEnds, ReloadCommits DEF Next

(* At first nothing is locked. *)
LEMMA ReloadInit == Init => Reloads
BY WarehouseAssumption DEF Init, Reloads, Reloading

(* Once a Type 2 load of a plain source has ended, no other load of it, for *)
(* any number of loads, rows, chunks, kills and retries, changes a committed *)
(* version: what others have drafted, or read before it committed, they      *)
(* cannot commit (upsert_customers_scd2).                                   *)
THEOREM ReloadChangesNothing == Spec => ReloadIsNoOp
<1>1. TypeOK /\ Orderly /\ Reloads /\ LoadedRowsAreServed /\ [Next]_vars =>
        [/\ \E l \in Loader : pc[l] = "done"
         /\ SameBatch
         /\ \A l \in Loader : type2[l] /\ Plain(batch[l])
         => UNCHANGED hist]_vars
  <2> SUFFICES ASSUME TypeOK, Orderly, Reloads, LoadedRowsAreServed, [Next]_vars,
                      NEW d \in Loader, pc[d] = "done", SameBatch, AllReload
               PROVE  UNCHANGED hist
    BY DEF AllReload
  <2>1. ASSUME NEW l \in Loader, Commit(l) PROVE UNCHANGED hist
    <3>1. ASSUME NEW k \in Key, lock[k] = l PROVE FALSE
      <4>1. /\ batch[d] = batch[l] /\ batch[l] \in Seq([key : Key, val : Value])
            /\ Plain(batch[l]) /\ Reloading(l) /\ ~Between(l, k)
        BY <2>1, WarehouseAssumption DEF SameBatch, AllReload, Reloads, Commit, Between, TypeOK
      <4>2. PICK j \in 1..Len(batch[l]) : batch[l][j].key = k
        BY <3>1, <4>1 DEF Reloading
      <4>3. Novel(hist[k], batch[l], k)
        BY <3>1, <4>1 DEF Reloading
      <4>4. DOMAIN batch[l] = 1..Len(batch[l])
        BY <4>1
      <4>5. PICK i \in DOMAIN batch[l] : /\ Current(hist[k]) # 0 /\ batch[l][i].key = k
                                         /\ hist[k][Current(hist[k])].val = Stored[batch[l][i].val]
        <5>1. j \in DOMAIN batch[d] /\ batch[d][j].key = k
          BY <4>1, <4>2, <4>4
        <5>2. /\ Current(hist[k]) # 0
              /\ \E i \in DOMAIN batch[d] : /\ batch[d][i].key = k
                                          /\ hist[k][Current(hist[k])].val = Stored[batch[d][i].val]
          BY <5>1 DEF LoadedRowsAreServed
        <5>. QED BY <4>1, <5>2
      <4>6. Current(hist[k]) = Len(hist[k])
        BY CurrentIsLast DEF Orderly, TypeOK
      <4>7. Stored[batch[l][i].val] = batch[l][i].val
        BY <4>1, <4>5 DEF Plain
      <4>. QED BY <4>3, <4>4, <4>5, <4>6, <4>7 DEF Novel
    <3>2. hist' = [k \in Key |-> hist[k]]
      BY <2>1, <3>1 DEF Commit
    <3>. QED BY <3>2 DEF TypeOK
  <2>. QED
    BY <2>1 DEF Next, Start, Upsert, ReadCurrent, Close, Insert, IntegrityError, DeadlockVictim, Kill,
            Abort, Write, Advance, vars, table
<1>2. Spec => []LoadedRowsAreServed
  BY EveryRowIsServed
<1>3. Init => Orderly /\ Reloads
  BY InitOrder, ReloadInit
<1>. QED
  BY <1>1, <1>2, <1>3, Typing, Ordering, Reloaded, PTL DEF Spec, ReloadIsNoOp
=============================================================================
