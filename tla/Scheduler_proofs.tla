--------------------------- MODULE Scheduler_proofs ---------------------------
(***************************************************************************)
(* A save that no other request on the pipeline overlaps puts row and beat *)
(* entry in step, for every number of pipelines, schedules and requests.   *)
(* While it runs alone the row cannot move under it: before the save it is *)
(* what the request loaded, after it what the request has in memory, which *)
(* is what sync_schedule writes.                                           *)
(***************************************************************************)
EXTENDS Scheduler, TLAPS

LEMMA OneMore ==
  ASSUME NEW S, NEW f \in [S -> Nat], NEW s \in S
  PROVE  [f EXCEPT ![s] = f[s] + 1] \in [S -> Nat]
<1>1. f[s] + 1 \in Nat
  OBVIOUS
<1>. QED
  BY <1>1

LEMMA Typing == Spec => []TypeOK
<1>1. Init => TypeOK
  <2> SUFFICES ASSUME Init PROVE TypeOK
    OBVIOUS
  <2>1. row \in [Pipeline -> Rows]
    BY DEF Init, Rows
  <2>2. entry \in [Pipeline -> Entries]
    BY DEF Init, Entries
  <2>3. inst \in [Request -> Instance]
    BY DEF Init, Instance
  <2>. QED
    BY <2>1, <2>2, <2>3 DEF Init, TypeOK
<1>2. TypeOK /\ [Next]_vars => TypeOK'
  <2> SUFFICES ASSUME TypeOK, [Next]_vars PROVE TypeOK'
    OBVIOUS
  <2> USE SchedulerAssumption DEF TypeOK, Goto, request
  <2>1. ASSUME NEW q \in Request, NEW s \in Schedule \cup {NoSchedule}, NEW a \in BOOLEAN,
               BeginCreate(q, s, a) \/ BeginPatch(q, s, a)
        PROVE  TypeOK'
    <3>1. [schedule |-> s, active |-> a] \in Instance
      BY DEF Instance
    <3>2. inst' \in [Request -> Instance]
      BY <2>1, <3>1 DEF BeginCreate, BeginPatch
    <3>3. \A p \in Request : pc'[p] \in {"make_crontab", "entry"} => inst'[p] = inst[p]
      BY <2>1 DEF BeginCreate, BeginPatch
    <3>. QED
      BY <2>1, <3>2, <3>3 DEF BeginCreate, BeginPatch, Begin
  <2>2. ASSUME NEW q \in Request, NEW p \in Pipeline, BeginClone(q, p) PROVE TypeOK'
    BY <2>2 DEF BeginClone, Begin, Instance, Loaded, Exists, Rows
  <2>3. ASSUME NEW q \in Request, BeginAction(q) PROVE TypeOK'
    BY <2>3 DEF BeginAction, Begin, Instance, Loaded, Exists, Rows
  <2>4. ASSUME NEW q \in Request, SaveAll(q) PROVE TypeOK'
    BY <2>4 DEF SaveAll, Stored, Rows, Instance
  <2>5. ASSUME NEW q \in Request, SaveActive(q) PROVE TypeOK'
    <3>1. row[on[q]] \in Rows /\ row[on[q]].state = "stored" /\ inst[q] \in Instance
      BY <2>5 DEF SaveActive, Exists
    <3>2. [row[on[q]] EXCEPT !.active = inst[q].active] \in Rows
      BY <3>1 DEF Rows, Instance
    <3>. QED
      BY <2>5, <3>2 DEF SaveActive
  <2>6. ASSUME NEW q \in Request, SaveActiveFails(q) PROVE TypeOK'
    BY <2>6 DEF SaveActiveFails, End
  <2>7. ASSUME NEW q \in Request, Delete(q) PROVE TypeOK'
    BY <2>7 DEF Delete, End, Rows
  <2>8. ASSUME NEW q \in Request, RemoveEntry(q) PROVE TypeOK'
    BY <2>8 DEF RemoveEntry, End, Entries
  <2>9. ASSUME NEW q \in Request, GetCrontab(q) PROVE TypeOK'
    BY <2>9 DEF GetCrontab, Instance
  <2>10. ASSUME NEW q \in Request, GetCrontabFails(q) PROVE TypeOK'
    BY <2>10 DEF GetCrontabFails, End
  <2>11. ASSUME NEW q \in Request, MakeCrontab(q) PROVE TypeOK'
    <3>1. inst[q].schedule \in Schedule
      BY <2>11 DEF MakeCrontab
    <3>2. crontabs' \in [Schedule -> Nat]
      BY <2>11, <3>1, OneMore DEF MakeCrontab
    <3>3. \A p \in Request :
            pc'[p] \in {"make_crontab", "entry"} => inst'[p].schedule \in Schedule
      BY <2>11, <3>1 DEF MakeCrontab
    <3>4. pc' \in [Request -> {"new", "save", "sync", "make_crontab", "entry", "done"}]
      BY <2>11 DEF MakeCrontab
    <3>. QED
      BY <2>11, <3>2, <3>3, <3>4 DEF MakeCrontab
  <2>12. ASSUME NEW q \in Request, WriteEntry(q) PROVE TypeOK'
    <3>1. Entry(inst[q]) \in Entries
      BY <2>12 DEF WriteEntry, Entry, Entries, Instance
    <3>. QED
      BY <2>12, <3>1 DEF WriteEntry, End
  <2>13. ASSUME NEW q \in Request, Kill(q) PROVE TypeOK'
    BY <2>13 DEF Kill, End
  <2>14. CASE UNCHANGED vars
    BY <2>14 DEF vars
  <2> HIDE DEF TypeOK, Goto, request
  <2>. QED
    BY <2>1, <2>2, <2>3, <2>4, <2>5, <2>6, <2>7, <2>8, <2>9, <2>10, <2>11, <2>12,
       <2>13, <2>14 DEF Next
<1>. QED
  BY <1>1, <1>2, PTL DEF Spec

(* Every variable keeps its type, and no request reaches the entry of a    *)
(* pipeline without a cron expression for it.                              *)
THEOREM TypeCorrect == Spec => []TypeOK
  BY Typing

-----------------------------------------------------------------------------
(* Nobody else is served on the pipeline of a request that is alone, and    *)
(* the row is what it will be when the request writes the entry.           *)
Alone(q) == alone[q] /\ Serving(q)

Untouched ==
  \A q \in Request : Alone(q) =>
    /\ \A p \in Request \ {q} : on[p] = on[q] => ~Serving(p)
    /\ kind[q] \in {"pause", "resume"} /\ pc[q] = "save" =>
         Exists(on[q]) /\ row[on[q]].schedule = inst[q].schedule
    /\ pc[q] \in {"sync", "make_crontab", "entry"} =>
         Exists(on[q]) /\ row[on[q]] = Stored(inst[q])

LEMMA BeginUntouched ==
  ASSUME TypeOK, Untouched, NEW q \in Request, NEW i \in Instance,
         Goto(q, "new", "save"), Begin(q), inst' = [inst EXCEPT ![q] = i],
         UNCHANGED <<row, kind, on>>,
         kind[q] \in {"pause", "resume"} =>
           Exists(on[q]) /\ row[on[q]].schedule = i.schedule
  PROVE  Untouched'
<1> USE DEF TypeOK, Goto, Alone, Serving
<1>1. pc[q] = "new" /\ pc'[q] = "save" /\ inst'[q] = i
  OBVIOUS
<1>2. \A p \in Request \ {q} : pc'[p] = pc[p] /\ inst'[p] = inst[p]
  OBVIOUS
<1>3. ASSUME alone'[q], NEW p \in Request \ {q}, on[p] = on[q] PROVE ~Serving(p)
  BY <1>3 DEF Begin
<1>4. ASSUME NEW p \in Request \ {q}, alone'[p], Serving(p) PROVE alone[p] /\ on[p] # on[q]
  BY <1>4 DEF Begin
<1> HIDE DEF Goto, TypeOK
<1>. QED
  BY <1>1, <1>2, <1>3, <1>4 DEF Untouched, Exists

(* The row of a request's pipeline is written, while it is served on it. *)
LEMMA SaveUntouched ==
  ASSUME TypeOK, Untouched, NEW q \in Request, NEW to, NEW r,
         Goto(q, "save", to), to \in {"sync", "done"}, row' = [row EXCEPT ![on[q]] = r],
         UNCHANGED <<kind, on, inst, alone>>,
         alone[q] /\ to = "sync" => r.state = "stored" /\ r = Stored(inst[q])
  PROVE  Untouched'
<1> USE DEF TypeOK, Goto, Alone, Serving
<1>1. /\ Serving(q)
      /\ pc'[q] = to
      /\ row'[on[q]] = r
      /\ \A p \in Request \ {q} : pc'[p] = pc[p]
      /\ \A p \in Pipeline \ {on[q]} : row'[p] = row[p]
  OBVIOUS
<1>2. ASSUME NEW p \in Request \ {q}, Alone(p) PROVE on[p] # on[q]
  BY <1>1, <1>2 DEF Untouched
<1>3. ASSUME NEW p \in Request \ {q}, Alone(p)
      PROVE  row'[on[p]] = row[on[p]] /\ pc'[p] = pc[p]
  BY <1>1, <1>2, <1>3
<1>4. \A p \in Request : Serving(p)' => Serving(p)
  BY <1>1
<1>5. Alone(q)' /\ pc'[q] = "sync" => row'[on[q]] = Stored(inst[q]) /\ Exists(on[q])'
  BY <1>1 DEF Exists
<1>6. pc'[q] \notin {"save", "make_crontab", "entry"}
  BY <1>1
<1> HIDE DEF TypeOK, Serving, Goto
<1>. QED
  BY <1>3, <1>4, <1>5, <1>6 DEF Untouched, Exists

(* The row stays, and the request goes on to its entry or ends. *)
LEMMA SyncUntouched ==
  ASSUME TypeOK, Untouched, NEW q \in Request, NEW to, Serving(q),
         pc' = [pc EXCEPT ![q] = to],
         \/ to = "done"
         \/ to \in {"make_crontab", "entry"} /\ pc[q] \in {"sync", "make_crontab"},
         UNCHANGED <<row, kind, on, inst, alone>>
  PROVE  Untouched'
<1> USE DEF TypeOK, Alone, Serving
<1>1. pc'[q] = to /\ \A p \in Request \ {q} : pc'[p] = pc[p]
  OBVIOUS
<1>2. \A p \in Request :
        /\ Serving(p)' => Serving(p)
        /\ pc'[p] = "save" => pc[p] = "save"
        /\ pc'[p] \in {"sync", "make_crontab", "entry"} =>
             pc[p] \in {"sync", "make_crontab", "entry"}
  BY <1>1
<1> HIDE DEF TypeOK, Serving
<1>. QED
  BY <1>2 DEF Untouched, Exists

LEMMA NothingMovesUnderIt == TypeOK /\ Untouched /\ [Next]_vars => Untouched'
<1> SUFFICES ASSUME TypeOK, Untouched, [Next]_vars PROVE Untouched'
  OBVIOUS
<1> USE DEF request
<1>1. ASSUME NEW q \in Request, NEW s \in Schedule \cup {NoSchedule}, NEW a \in BOOLEAN,
             BeginCreate(q, s, a) \/ BeginPatch(q, s, a)
      PROVE  Untouched'
  <2>1. [schedule |-> s, active |-> a] \in Instance
    BY DEF Instance
  <2>. QED
    BY <1>1, <2>1, BeginUntouched DEF BeginCreate, BeginPatch
<1>2. ASSUME NEW q \in Request, NEW p \in Pipeline, BeginClone(q, p) PROVE Untouched'
  <2>1. [Loaded(p) EXCEPT !.active = FALSE] \in Instance
    BY <1>2 DEF BeginClone, Loaded, Instance, Rows, TypeOK, Exists
  <2>. QED
    BY <1>2, <2>1, BeginUntouched DEF BeginClone
<1>3. ASSUME NEW q \in Request, BeginAction(q) PROVE Untouched'
  <2> DEFINE i == [Loaded(on[q]) EXCEPT
                     !.active = IF kind[q] = "delete" THEN @ ELSE kind[q] = "resume"]
  <2>1. i \in Instance /\ i.schedule = row[on[q]].schedule
    BY <1>3 DEF BeginAction, Loaded, Instance, Rows, TypeOK, Exists
  <2>. QED
    BY <1>3, <2>1, BeginUntouched DEF BeginAction
<1>4. ASSUME NEW q \in Request, SaveAll(q) PROVE Untouched'
  BY <1>4, SaveUntouched DEF SaveAll, Stored
<1>5. ASSUME NEW q \in Request, SaveActive(q) PROVE Untouched'
  <2> DEFINE r == [row[on[q]] EXCEPT !.active = inst[q].active]
  <2>1. row[on[q]] \in Rows /\ row[on[q]].state = "stored"
    BY <1>5 DEF SaveActive, Exists, TypeOK
  <2>2. row' = [row EXCEPT ![on[q]] = r]
    BY <1>5 DEF SaveActive
  <2>3. alone[q] => row[on[q]].schedule = inst[q].schedule
    BY <1>5 DEF SaveActive, Goto, Untouched, Alone, Serving
  <2>4. alone[q] => r.state = "stored" /\ r = Stored(inst[q])
    BY <2>1, <2>3 DEF Stored, Rows
  <2> HIDE DEF r
  <2>. QED
    BY <1>5, <2>2, <2>4, SaveUntouched DEF SaveActive
<1>6. ASSUME NEW q \in Request, SaveActiveFails(q) PROVE Untouched'
  BY <1>6, SyncUntouched DEF SaveActiveFails, Goto, Serving
<1>7. ASSUME NEW q \in Request, Delete(q) PROVE Untouched'
  BY <1>7, SaveUntouched DEF Delete
<1>8. ASSUME NEW q \in Request, RemoveEntry(q) PROVE Untouched'
  BY <1>8, SyncUntouched DEF RemoveEntry, Goto, Serving
<1>9. ASSUME NEW q \in Request, GetCrontab(q) PROVE Untouched'
  BY <1>9, SyncUntouched DEF GetCrontab, Goto, Serving
<1>10. ASSUME NEW q \in Request, GetCrontabFails(q) PROVE Untouched'
  BY <1>10, SyncUntouched DEF GetCrontabFails, Goto, Serving
<1>11. ASSUME NEW q \in Request, MakeCrontab(q) PROVE Untouched'
  BY <1>11, SyncUntouched DEF MakeCrontab, Goto, Serving
<1>12. ASSUME NEW q \in Request, WriteEntry(q) PROVE Untouched'
  BY <1>12, SyncUntouched DEF WriteEntry, Goto, Serving
<1>13. ASSUME NEW q \in Request, Kill(q) PROVE Untouched'
  BY <1>13, SyncUntouched DEF Kill
<1>14. CASE UNCHANGED vars
  BY <1>14 DEF vars, Untouched, Alone, Serving, Exists
<1>. QED
  BY <1>1, <1>2, <1>3, <1>4, <1>5, <1>6, <1>7, <1>8, <1>9, <1>10, <1>11, <1>12,
     <1>13, <1>14 DEF Next

(* A save that nobody overlaps repairs the beat entry of its pipeline, for *)
(* any number of requests, killed, failed or racing before it.             *)
THEOREM SavesAloneRepair == Spec => LoneSaveRepairs
<1>1. Init => Untouched
  BY DEF Init, Untouched, Alone, Serving
<1>2. ASSUME TypeOK, Untouched, [Next]_vars, NEW q \in Request, LoneSaveEnds(q),
             \A s \in Schedule : crontabs[s] <= 1
      PROVE  InSync(on[q])'
  <2>1. ended' # ended /\ ended'[q] \notin {"", "killed"}
    BY <1>2 DEF LoneSaveEnds
  <2>2. \/ SaveActiveFails(q)
        \/ Delete(q)
        \/ RemoveEntry(q)
        \/ GetCrontabFails(q)
        \/ WriteEntry(q)
    <3>1. PICK p \in Request :
            \/ SaveActiveFails(p)
            \/ Delete(p)
            \/ RemoveEntry(p)
            \/ GetCrontabFails(p)
            \/ WriteEntry(p)
            \/ Kill(p)
      BY <1>2, <2>1 DEF Next, vars, BeginCreate, BeginPatch, BeginClone, BeginAction,
         SaveAll, SaveActive, GetCrontab, MakeCrontab
    <3>2. \E how : ended' = [ended EXCEPT ![p] = how]
      BY <3>1 DEF SaveActiveFails, Delete, RemoveEntry, GetCrontabFails, WriteEntry,
         Kill, End
    <3>3. p = q
      BY <1>2, <2>1, <3>2 DEF LoneSaveEnds, TypeOK
    <3>4. ~Kill(q)
      BY <1>2, <2>1 DEF Kill, End, TypeOK
    <3>. QED
      BY <3>1, <3>3, <3>4
  <2>3. alone[q] /\ kind[q] # "delete"
    BY <1>2 DEF LoneSaveEnds
  <2>4. CASE SaveActiveFails(q)
    BY <1>2, <2>3, <2>4 DEF SaveActiveFails, Goto, Untouched, Alone, Serving
  <2>5. CASE Delete(q)
    BY <2>3, <2>5 DEF Delete
  <2>6. CASE RemoveEntry(q)
    <3>1. row[on[q]] = Stored(inst[q])
      BY <1>2, <2>3, <2>6 DEF RemoveEntry, Goto, Untouched, Alone, Serving
    <3>2. row'[on'[q]].schedule = NoSchedule
      BY <2>6, <3>1 DEF RemoveEntry, Stored, request
    <3>3. entry'[on'[q]] = NoEntry
      BY <1>2, <2>6 DEF RemoveEntry, request, TypeOK
    <3>. QED
      BY <3>2, <3>3 DEF InSync
  <2>7. CASE GetCrontabFails(q)
    <3>1. inst[q].schedule \in Schedule
      BY <1>2, <2>7 DEF GetCrontabFails, TypeOK, Instance
    <3>2. crontabs[inst[q].schedule] \in Nat /\ crontabs[inst[q].schedule] <= 1
      BY <1>2, <3>1 DEF TypeOK
    <3>3. crontabs[inst[q].schedule] > 1
      BY <2>7 DEF GetCrontabFails
    <3>. QED
      BY <3>2, <3>3
  <2>8. CASE WriteEntry(q)
    <3>1. row[on[q]] = Stored(inst[q])
      BY <1>2, <2>3, <2>8 DEF WriteEntry, Goto, Untouched, Alone, Serving
    <3>2. inst[q].schedule # NoSchedule
      BY <1>2, <2>8, SchedulerAssumption DEF WriteEntry, Goto, TypeOK
    <3>3. /\ row'[on'[q]].schedule = inst[q].schedule
          /\ row'[on'[q]].active = inst[q].active
      BY <2>8, <3>1 DEF WriteEntry, Stored, request
    <3>4. entry'[on'[q]] = Entry(inst[q])
      BY <1>2, <2>8 DEF WriteEntry, request, TypeOK
    <3>. QED
      BY <3>2, <3>3, <3>4 DEF InSync, Entry, Loaded
  <2>. QED
    BY <2>2, <2>4, <2>5, <2>6, <2>7, <2>8
<1>3. TypeOK /\ Untouched /\ [Next]_vars =>
        [\A q \in Request :
           LoneSaveEnds(q) /\ (\A s \in Schedule : crontabs[s] <= 1) => InSync(on[q])']_vars
  BY <1>2
<1>. QED
  BY <1>1, <1>3, Typing, NothingMovesUnderIt, PTL DEF Spec, LoneSaveRepairs
=============================================================================
