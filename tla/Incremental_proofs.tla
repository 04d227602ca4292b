-------------------------- MODULE Incremental_proofs --------------------------
(* No row of a date column is passed over, for any number of rows and runs. *)
EXTENDS Incremental, TLAPS

LEMMA Typing == Spec => []TypeOK
<1>1. Init => TypeOK
  <2> SUFFICES ASSUME Init PROVE TypeOK
    OBVIOUS
  <2>1. 0 \in Maybe
    BY IncrementalAssumption DEF Maybe
  <2>2. batch \in [Run -> [Row -> Maybe]]
    BY <2>1 DEF Init
  <2>. QED
    BY <2>1, <2>2 DEF Init, TypeOK
<1>2. TypeOK /\ [Next]_vars => TypeOK'
  <2> SUFFICES ASSUME TypeOK, [Next]_vars PROVE TypeOK'
    OBVIOUS
  <2> USE IncrementalAssumption DEF TypeOK, Maybe, Version, Goto, Active, engine
  <2>1. ASSUME NEW x \in Row, NEW v \in Version, Arrive(x, v) PROVE TypeOK'
    BY <2>1 DEF Arrive
  <2>2. ASSUME NEW r \in Run, ReadMark(r) PROVE TypeOK'
    BY <2>2 DEF ReadMark, Watermark
  <2>3. ASSUME NEW r \in Run, NEW x \in Row, FetchRow(r, x) PROVE TypeOK'
    BY <2>3 DEF FetchRow, Outdated
  <2>4. ASSUME NEW r \in Run, Filter(r) PROVE TypeOK'
    BY <2>4 DEF Filter, Kept
  <2>5. ASSUME NEW r \in Run, NEW x \in Row, LoadRow(r, x) PROVE TypeOK'
    BY <2>5 DEF LoadRow
  <2>6. ASSUME NEW r \in Run, EndLoad(r) PROVE TypeOK'
    BY <2>6 DEF EndLoad
  <2>7. ASSUME NEW r \in Run, SaveMark(r) PROVE TypeOK'
    BY <2>7 DEF SaveMark, Forget
  <2>8. ASSUME NEW r \in Run, Fail(r) PROVE TypeOK'
    BY <2>8 DEF Fail, Forget
  <2>9. CASE UNCHANGED vars
    BY <2>9 DEF vars
  <2>. QED
    BY <2>1, <2>2, <2>3, <2>4, <2>5, <2>6, <2>7, <2>8, <2>9 DEF Next
<1>. QED
  BY <1>1, <1>2, PTL DEF Spec

(* Types are kept, and no watermark is stored before its load has ended. *)
THEOREM TypeCorrect == Spec => []TypeOK
  BY Typing

-----------------------------------------------------------------------------
(* A watermark is never above everything the source has had, so that a row *)
(* that arrives in time is newer than every watermark there is.            *)
Reached(w) == w <= InitialValue \/ \E y \in Row : w <= source[y]

AllReached ==
  /\ Reached(mark)
  /\ \A r \in Run : /\ Reached(base[r]) /\ Reached(next[r])
                    /\ \A x \in Row : batch[r][x] <= source[x]

LEMMA Reaching == TypeOK /\ AllReached /\ [Next]_vars => AllReached'
<1> SUFFICES ASSUME TypeOK, AllReached, [Next]_vars PROVE AllReached'
  OBVIOUS
<1> USE IncrementalAssumption
    DEF TypeOK, Maybe, Version, AllReached, Reached, Goto, Active, engine
<1>1. ASSUME NEW x \in Row, NEW v \in Version, Arrive(x, v) PROVE AllReached'
  <2>1. \A y \in Row : source[y] <= source'[y]
    BY <1>1 DEF Arrive
  <2>2. \A w \in Nat : Reached(w) => Reached(w)'
    BY <2>1, <1>1 DEF Arrive
  <2>. QED
    BY <2>2, <1>1 DEF Arrive
<1>2. ASSUME NEW r \in Run, ReadMark(r) PROVE AllReached'
  BY <1>2 DEF ReadMark, Watermark
<1>3. ASSUME NEW r \in Run, NEW x \in Row, FetchRow(r, x) PROVE AllReached'
  BY <1>3 DEF FetchRow
<1>4. ASSUME NEW r \in Run, Filter(r) PROVE AllReached'
  <2>1. \A q \in Run, x \in Row : batch'[q][x] <= batch[q][x]
    BY <1>4 DEF Filter
  <2>2. \E m \in {batch[r][x] : x \in Row} \cup {base[r]} : next' = [next EXCEPT ![r] = m]
    BY <1>4 DEF Filter
  <2>. QED
    BY <1>4, <2>1, <2>2 DEF Filter
<1>5. ASSUME NEW r \in Run, NEW x \in Row, LoadRow(r, x) PROVE AllReached'
  BY <1>5 DEF LoadRow
<1>6. ASSUME NEW r \in Run, EndLoad(r) PROVE AllReached'
  BY <1>6 DEF EndLoad
<1>7. ASSUME NEW r \in Run, SaveMark(r) PROVE AllReached'
  BY <1>7 DEF SaveMark, Forget
<1>8. ASSUME NEW r \in Run, Fail(r) PROVE AllReached'
  BY <1>8 DEF Fail, Forget
<1>9. CASE UNCHANGED vars
  BY <1>9 DEF vars
<1>. QED
  BY <1>1, <1>2, <1>3, <1>4, <1>5, <1>6, <1>7, <1>8, <1>9 DEF Next

LEMMA OnTimeIsNewer ==
  ASSUME DateColumn, TypeOK, NEW v \in Nat, OnTime(v), NEW w \in Nat, Reached(w)
  PROVE  Newer(v, w)
BY IncrementalAssumption DEF TypeOK, Maybe, OnTime, Newer, Reached

-----------------------------------------------------------------------------
(* The rows that are still to be loaded. *)
Due(x) == InTime(x) /\ x \notin loaded

(* Each run in progress would, by itself, pass over none of them: what it   *)
(* fetched before x changed gives it no watermark beyond x.                 *)
Caught(r, x) ==
  /\ pc[r] = "extract" => /\ Newer(source[x], base[r])
                          /\ \/ x \in todo[r] \/ batch[r][x] = source[x]
                             \/ \A y \in Row \ todo[r] : Newer(source[x], batch[r][y])
  /\ pc[r] = "load" => \/ x \in todo[r] /\ batch[r][x] = source[x]
                       \/ Newer(source[x], next[r])
  /\ pc[r] = "mark" => Newer(source[x], next[r])

AllCaught ==
  \A x \in Row : Due(x) => Ahead(x) /\ \A r \in Run : Caught(r, x)

LEMMA Catching ==
  ASSUME DateColumn
  PROVE  TypeOK /\ AllReached /\ AllCaught /\ [Next]_vars => AllCaught'
<1> SUFFICES ASSUME TypeOK, AllReached, AllCaught, [Next]_vars PROVE AllCaught'
  OBVIOUS
<1> USE IncrementalAssumption
    DEF TypeOK, Maybe, Version, AllCaught, Due, InTime, Ahead, Caught, Goto, Active, engine
<1>1. ASSUME NEW x \in Row, NEW v \in Version, Arrive(x, v) PROVE AllCaught'
  <2>1. OnTime(v) =>
          /\ Newer(v, Watermark)
          /\ \A r \in Run : /\ Newer(v, base[r]) /\ Newer(v, next[r])
                            /\ \A y \in Row : Newer(v, batch[r][y])
    <3>1. Reached(Watermark) /\ Watermark \in Nat
      BY DEF AllReached, Reached, Watermark
    <3>2. \A r \in Run, y \in Row : Reached(batch[r][y])
      BY DEF AllReached, Reached
    <3>. QED
      BY <3>1, <3>2, OnTimeIsNewer DEF AllReached
  <2>2. ASSUME NEW y \in Row, Due(y)', y # x PROVE Ahead(y)' /\ \A r \in Run : Caught(r, y)'
    BY <2>2, <1>1 DEF Arrive, Watermark
  <2>3. ASSUME Due(x)' PROVE Ahead(x)' /\ \A r \in Run : Caught(r, x)'
    BY <2>1, <2>3, <1>1 DEF Arrive, Watermark
  <2>. QED
    BY <2>2, <2>3
<1>2. ASSUME NEW r \in Run, ReadMark(r) PROVE AllCaught'
  BY <1>2 DEF ReadMark, Watermark
<1>3. ASSUME NEW r \in Run, NEW x \in Row, FetchRow(r, x) PROVE AllCaught'
  BY <1>3 DEF FetchRow, Outdated, Newer, Watermark
<1>4. ASSUME NEW r \in Run, Filter(r) PROVE AllCaught'
  <2>1. ASSUME NEW x \in Row, Due(x), batch[r][x] = source[x] PROVE Caught(r, x)'
    BY <1>4, <2>1 DEF Filter, Kept
  <2>2. ASSUME NEW x \in Row, Due(x), batch[r][x] # source[x] PROVE Caught(r, x)'
    <3>1. /\ Newer(source[x], base[r])
          /\ \A y \in Row : Newer(source[x], batch[r][y])
      BY <1>4, <2>2 DEF Filter
    <3>2. \E m \in {batch[r][y] : y \in Row} \cup {base[r]} : next' = [next EXCEPT ![r] = m]
      BY <1>4 DEF Filter
    <3>3. Newer(source[x], next'[r])
      BY <3>1, <3>2
    <3>. QED
      BY <1>4, <3>3 DEF Filter
  <2>. QED
    BY <1>4, <2>1, <2>2 DEF Filter, Watermark
<1>5. ASSUME NEW r \in Run, NEW x \in Row, LoadRow(r, x) PROVE AllCaught'
  BY <1>5 DEF LoadRow, Watermark
<1>6. ASSUME NEW r \in Run, EndLoad(r) PROVE AllCaught'
  BY <1>6 DEF EndLoad, Watermark
<1>7. ASSUME NEW r \in Run, SaveMark(r) PROVE AllCaught'
  BY <1>7 DEF SaveMark, Forget, Watermark
<1>8. ASSUME NEW r \in Run, Fail(r) PROVE AllCaught'
  BY <1>8 DEF Fail, Forget, Watermark
<1>9. CASE UNCHANGED vars
  BY <1>9 DEF vars, Watermark
<1>. QED
  BY <1>1, <1>2, <1>3, <1>4, <1>5, <1>6, <1>7, <1>8, <1>9 DEF Next

(* A version that arrived within the grace period is loaded, or ahead of   *)
(* the watermark, for every number of rows and of runs that overlap.       *)
THEOREM NoRowIsLost ==
  ASSUME DateColumn
  PROVE  Spec => []NoRowIsPassedOver
<1>1. Init => AllReached /\ AllCaught
  BY IncrementalAssumption DEF Init, AllReached, Reached, AllCaught, Due, InTime
<1>2. TypeOK /\ AllCaught => NoRowIsPassedOver
  BY DEF AllCaught, Due, InTime, NoRowIsPassedOver
<1>. QED
  BY <1>1, <1>2, Typing, Reaching, Catching, PTL DEF Spec

-----------------------------------------------------------------------------
(* Runs that do not overlap.  The source only ever gets newer versions, so  *)
(* what a run holds is old or current; and as the only run it has loaded    *)
(* whatever is current in the warehouse, so it brings no old version back.  *)
NoneFromTheFuture ==
  \A x \in Row : served[x] <= source[x] /\ \A r \in Run : batch[r][x] <= source[x]

Serial == \A r, q \in Run : Active(r) /\ Active(q) => r = q

(* A version that was fetched and is still to be loaded replaces no newer one. *)
NothingGoesBack ==
  \A r \in Run, x \in Row :
    /\ \/ pc[r] = "extract" /\ x \notin todo[r]
       \/ pc[r] = "load" /\ x \in todo[r]
    /\ served[x] = source[x]
    => batch[r][x] = source[x]

Stale(x) == InTime(x) /\ served[x] # source[x]

StaleCaught ==
  \A x \in Row : Stale(x) => Ahead(x) /\ \A r \in Run : Caught(r, x)

SerialInv ==
  /\ NoneFromTheFuture
  /\ ~overlap => Serial /\ NothingGoesBack /\ StaleCaught

LEMMA Serving ==
  ASSUME DateColumn
  PROVE  TypeOK /\ AllReached /\ SerialInv /\ [Next]_vars => SerialInv'
<1> SUFFICES ASSUME TypeOK, AllReached, SerialInv, [Next]_vars PROVE SerialInv'
  OBVIOUS
<1> USE IncrementalAssumption
    DEF TypeOK, Maybe, Version, SerialInv, NoneFromTheFuture, Serial, NothingGoesBack,
        StaleCaught, Stale, InTime, Ahead, Caught, Goto, Active, engine
<1>1. ASSUME NEW x \in Row, NEW v \in Version, Arrive(x, v) PROVE SerialInv'
  <2>1. OnTime(v) =>
          /\ Newer(v, Watermark)
          /\ \A r \in Run : /\ Newer(v, base[r]) /\ Newer(v, next[r])
                            /\ \A y \in Row : Newer(v, batch[r][y])
    <3>1. Reached(Watermark) /\ Watermark \in Nat
      BY DEF AllReached, Reached, Watermark
    <3>2. \A r \in Run, y \in Row : Reached(batch[r][y])
      BY DEF AllReached, Reached
    <3>. QED
      BY <3>1, <3>2, OnTimeIsNewer DEF AllReached
  <2>2. NoneFromTheFuture'
    BY <1>1 DEF Arrive
  <2>3. ASSUME ~overlap PROVE Serial' /\ NothingGoesBack'
    BY <2>3, <1>1 DEF Arrive
  <2>4. ASSUME ~overlap PROVE StaleCaught'
    <3>1. ASSUME NEW y \in Row, Stale(y)', y # x
          PROVE  Ahead(y)' /\ \A r \in Run : Caught(r, y)'
      BY <2>4, <3>1, <1>1 DEF Arrive, Watermark
    <3>2. ASSUME Stale(x)' PROVE Ahead(x)' /\ \A r \in Run : Caught(r, x)'
      BY <2>1, <3>2, <1>1 DEF Arrive, Watermark
    <3>. QED
      BY <3>1, <3>2
  <2>. QED
    BY <2>2, <2>3, <2>4, <1>1 DEF Arrive
<1>2. ASSUME NEW r \in Run, ReadMark(r) PROVE SerialInv'
  BY <1>2 DEF ReadMark, Watermark
<1>3. ASSUME NEW r \in Run, NEW x \in Row, FetchRow(r, x) PROVE SerialInv'
  BY <1>3 DEF FetchRow, Outdated, Newer, Watermark
<1>4. ASSUME NEW r \in Run, Filter(r) PROVE SerialInv'
  BY <1>4 DEF Filter, Kept, NextMark, Newer, Watermark
<1>5. ASSUME NEW r \in Run, NEW x \in Row, LoadRow(r, x) PROVE SerialInv'
  BY <1>5 DEF LoadRow, Watermark
<1>6. ASSUME NEW r \in Run, EndLoad(r) PROVE SerialInv'
  BY <1>6 DEF EndLoad, Watermark
<1>7. ASSUME NEW r \in Run, SaveMark(r) PROVE SerialInv'
  BY <1>7 DEF SaveMark, Forget, Watermark
<1>8. ASSUME NEW r \in Run, Fail(r) PROVE SerialInv'
  BY <1>8 DEF Fail, Forget, Watermark
<1>9. CASE UNCHANGED vars
  BY <1>9 DEF vars, Watermark
<1>. QED
  BY <1>1, <1>2, <1>3, <1>4, <1>5, <1>6, <1>7, <1>8, <1>9 DEF Next

(* Runs that do not overlap leave no old version behind: what was re-loaded *)
(* after a failure, or within the grace period, is what the source has now. *)
THEOREM NoOldVersionIsServed ==
  ASSUME DateColumn
  PROVE  Spec => []CurrentIsServed
<1>1. Init => AllReached /\ SerialInv
  BY IncrementalAssumption
  DEF Init, AllReached, Reached, SerialInv, NoneFromTheFuture, Serial, NothingGoesBack,
      StaleCaught, Stale, InTime, Active
<1>2. SerialInv => CurrentIsServed
  BY DEF SerialInv, StaleCaught, Stale, InTime, CurrentIsServed
<1>. QED
  BY <1>1, <1>2, Typing, Reaching, Serving, PTL DEF Spec
=============================================================================
