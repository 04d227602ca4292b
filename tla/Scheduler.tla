------------------------------ MODULE Scheduler ------------------------------
(***************************************************************************)
(* Pipelines and their beat entries.  Every request that saves a Pipeline  *)
(* first loads it, changes it in memory, writes it, and then, from the     *)
(* post_save signal, sync_schedule writes the PeriodicTask from the same   *)
(* in-memory instance.  Nothing makes these steps one: requests on one     *)
(* pipeline interleave, each with its own copy of the row.                 *)
(***************************************************************************)
EXTENDS Naturals

CONSTANTS
  Pipeline,
  Schedule, NoSchedule,   \* valid cron strings, and the empty one
  Request,
  Kills                   \* may the process serving a request die?

ASSUME SchedulerAssumption ==
  NoSchedule \notin Schedule /\ Kills \in BOOLEAN

VARIABLES
  row,       \* Pipeline rows
  entry,     \* PeriodicTask rows, by the pipeline id in their name
  crontabs,  \* number of CrontabSchedule rows with each expression
  pc,        \* "new", "save", "sync", "make_crontab", "entry", "done"
  kind,      \* what each request does
  on,        \* the pipeline it does it to
  inst,      \* its in-memory Pipeline
  ended,     \* how it ended: "ok", "error", "killed", or "" before that
  alone      \* history: was it the only request on its pipeline so far?

vars == <<row, entry, crontabs, pc, kind, on, inst, ended, alone>>
request == <<kind, on>>

Kinds == {"create", "clone", "patch", "pause", "resume", "delete"}

Instance == [schedule : Schedule \cup {NoSchedule}, active : BOOLEAN]

(* A primary key is never used again: "never" created, or "deleted". *)
Rows == [state : {"never", "deleted"}] \cup
        [state : {"stored"}, schedule : Schedule \cup {NoSchedule}, active : BOOLEAN]

NoEntry == [state |-> "none"]
Entries == {NoEntry} \cup
           [state : {"stored"}, crontab : Schedule, enabled : BOOLEAN]

Exists(p) == row[p].state = "stored"

Stored(i) == [state |-> "stored", schedule |-> i.schedule, active |-> i.active]
Loaded(p) == [schedule |-> row[p].schedule, active |-> row[p].active]

Entry(i) == [state |-> "stored", crontab |-> i.schedule, enabled |-> i.active]

TypeOK ==
  /\ row \in [Pipeline -> Rows]
  /\ entry \in [Pipeline -> Entries]
  /\ crontabs \in [Schedule -> Nat]
  /\ pc \in [Request -> {"new", "save", "sync", "make_crontab", "entry", "done"}]
  /\ kind \in [Request -> Kinds]
  /\ on \in [Request -> Pipeline]
  /\ inst \in [Request -> Instance]
  /\ ended \in [Request -> {"", "ok", "error", "killed"}]
  /\ alone \in [Request -> BOOLEAN]
  /\ \A q \in Request :
       pc[q] \in {"make_crontab", "entry"} => inst[q].schedule \in Schedule

Init ==
  /\ row = [p \in Pipeline |-> [state |-> "never"]]
  /\ entry = [p \in Pipeline |-> NoEntry]
  /\ crontabs = [s \in Schedule |-> 0]
  /\ pc = [q \in Request |-> "new"]
  /\ kind \in [Request -> Kinds]
  /\ on \in [Request -> Pipeline]
  /\ inst = [q \in Request |-> [schedule |-> NoSchedule, active |-> FALSE]]
  /\ ended = [q \in Request |-> ""]
  /\ alone = [q \in Request |-> TRUE]

Serving(q) == pc[q] \notin {"new", "done"}

Goto(q, from, to) ==
  /\ pc[q] = from
  /\ pc' = [pc EXCEPT ![q] = to]

End(q, how) == ended' = [ended EXCEPT ![q] = how]

(* The request is served from now on, perhaps beside others. *)
Begin(q) ==
  LET beside == {p \in Request \ {q} : Serving(p) /\ on[p] = on[q]}
  IN alone' = [p \in Request |->
       alone[p] /\ p \notin beside /\ ~(p = q /\ beside # {})]

Fresh(q) ==
  /\ row[on[q]].state = "never"
  /\ \A p \in Request \ {q} : on[p] = on[q] => pc[p] = "new"

(* POST, before the insert: the row will be what the client sent. *)
BeginCreate(q, s, a) ==
  /\ kind[q] = "create"
  /\ Fresh(q)
  /\ Goto(q, "new", "save")
  /\ Begin(q)
  /\ inst' = [inst EXCEPT ![q] = [schedule |-> s, active |-> a]]
  /\ UNCHANGED <<row, entry, crontabs, request, ended>>

(* clone: get_object on the original; the copy is always paused. *)
BeginClone(q, original) ==
  /\ kind[q] = "clone"
  /\ Fresh(q)
  /\ Exists(original)
  /\ Goto(q, "new", "save")
  /\ Begin(q)
  /\ inst' = [inst EXCEPT ![q] = [Loaded(original) EXCEPT !.active = FALSE]]
  /\ UNCHANGED <<row, entry, crontabs, request, ended>>

(* get_object; PATCH and PUT then set what the client sent on the copy. *)
BeginPatch(q, s, a) ==
  /\ kind[q] = "patch"
  /\ Exists(on[q])
  /\ Goto(q, "new", "save")
  /\ Begin(q)
  /\ inst' = [inst EXCEPT ![q] = [schedule |-> s, active |-> a]]
  /\ UNCHANGED <<row, entry, crontabs, request, ended>>

BeginAction(q) ==
  /\ kind[q] \in {"pause", "resume", "delete"}
  /\ Exists(on[q])
  /\ Goto(q, "new", "save")
  /\ Begin(q)
  /\ inst' = [inst EXCEPT ![q] = [Loaded(on[q]) EXCEPT
       !.active = IF kind[q] = "delete" THEN @ ELSE kind[q] = "resume"]]
  /\ UNCHANGED <<row, entry, crontabs, request, ended>>

(* save() of the whole instance: an UPDATE of every field, or an INSERT    *)
(* when the UPDATE finds no row, even if the row was deleted meanwhile.    *)
(* POST, PATCH and clone all come to Pipeline.save.                        *)
SaveAll(q) ==
  /\ kind[q] \in {"create", "clone", "patch"}
  /\ Goto(q, "save", "sync")
  /\ row' = [row EXCEPT ![on[q]] = Stored(inst[q])]
  /\ UNCHANGED <<entry, crontabs, request, inst, ended, alone>>

(* save(update_fields=["is_active"]), a DatabaseError without a row. *)
SaveActive(q) ==
  /\ kind[q] \in {"pause", "resume"}
  /\ Exists(on[q])
  /\ Goto(q, "save", "sync")
  /\ row' = [row EXCEPT ![on[q]].active = inst[q].active]
  /\ UNCHANGED <<entry, crontabs, request, inst, ended, alone>>

SaveActiveFails(q) ==
  /\ kind[q] \in {"pause", "resume"}
  /\ ~Exists(on[q])
  /\ Goto(q, "save", "done")
  /\ End(q, "error")
  /\ UNCHANGED <<row, entry, crontabs, request, inst, alone>>

(* DELETE: no signal handler, so the beat entry stays. *)
Delete(q) ==
  /\ kind[q] = "delete"
  /\ Goto(q, "save", "done")
  /\ row' = [row EXCEPT ![on[q]] = [state |-> "deleted"]]
  /\ End(q, "ok")
  /\ UNCHANGED <<entry, crontabs, request, inst, alone>>

(* No early return: an entry for the empty expression. *)
KeepEntry(q) ==
  /\ inst[q].schedule = NoSchedule
  /\ Goto(q, "sync", "done")
  /\ entry' = [entry EXCEPT ![on[q]] = Entry(inst[q])]
  /\ End(q, "ok")
  /\ UNCHANGED <<row, crontabs, request, inst, alone>>

(* sync_schedule of a pipeline without schedule. *)
RemoveEntry(q) ==
  /\ inst[q].schedule = NoSchedule
  /\ Goto(q, "sync", "done")
  /\ entry' = [entry EXCEPT ![on[q]] = NoEntry]
  /\ End(q, "ok")
  /\ UNCHANGED <<row, crontabs, request, inst, alone>>

(* CrontabSchedule.objects.get_or_create: the get. *)
GetCrontab(q) ==
  LET s == inst[q].schedule
  IN /\ s # NoSchedule
     /\ crontabs[s] <= 1
     /\ Goto(q, "sync", IF crontabs[s] = 1 THEN "entry" ELSE "make_crontab")
     /\ UNCHANGED <<row, entry, crontabs, request, inst, ended, alone>>

(* The get finds two rows: MultipleObjectsReturned, after the save. *)
GetCrontabFails(q) ==
  /\ inst[q].schedule # NoSchedule
  /\ crontabs[inst[q].schedule] > 1
  /\ Goto(q, "sync", "done")
  /\ End(q, "error")
  /\ UNCHANGED <<row, entry, crontabs, request, inst, alone>>

(* The create: no unique constraint stops a second row. *)
MakeCrontab(q) ==
  /\ Goto(q, "make_crontab", "entry")
  /\ crontabs' = [crontabs EXCEPT ![inst[q].schedule] = @ + 1]
  /\ UNCHANGED <<row, entry, request, inst, ended, alone>>

(* update_or_create without "enabled" in its defaults. *)
WriteEntryEnabled(q) ==
  /\ Goto(q, "entry", "done")
  /\ entry' = [entry EXCEPT ![on[q]] = [Entry(inst[q]) EXCEPT !.enabled = TRUE]]
  /\ End(q, "ok")
  /\ UNCHANGED <<row, crontabs, request, inst, alone>>

(* PeriodicTask.objects.update_or_create *)
WriteEntry(q) ==
  /\ Goto(q, "entry", "done")
  /\ entry' = [entry EXCEPT ![on[q]] = Entry(inst[q])]
  /\ End(q, "ok")
  /\ UNCHANGED <<row, crontabs, request, inst, alone>>

Kill(q) ==
  /\ Kills
  /\ Serving(q)
  /\ pc' = [pc EXCEPT ![q] = "done"]
  /\ End(q, "killed")
  /\ UNCHANGED <<row, entry, crontabs, request, inst, alone>>

Next == \E q \in Request :
  \/ \E s \in Schedule \cup {NoSchedule}, a \in BOOLEAN :
       BeginCreate(q, s, a) \/ BeginPatch(q, s, a)
  \/ \E p \in Pipeline : BeginClone(q, p)
  \/ BeginAction(q)
  \/ SaveAll(q)
  \/ SaveActive(q)
  \/ SaveActiveFails(q)
  \/ Delete(q)
  \/ RemoveEntry(q)
  \/ GetCrontab(q)
  \/ GetCrontabFails(q)
  \/ MakeCrontab(q)
  \/ WriteEntry(q)
  \/ Kill(q)

Spec == Init /\ [][Next]_vars

-----------------------------------------------------------------------------
(* Properties.                                                             *)

(* The entry is the one sync_schedule would write for the row. *)
InSync(p) ==
  entry[p] = IF row[p].schedule = NoSchedule THEN NoEntry
             ELSE Entry(Loaded(p))

LoneSaveEnds(q) ==
  /\ ended[q] = "" /\ ended'[q] \in {"ok", "error"}
  /\ alone[q] /\ kind[q] # "delete"

(* A save that no other request on the pipeline overlaps leaves row and     *)
(* entry in step, whatever races and kills left behind before it, as long   *)
(* as no cron expression is stored twice (then every get_or_create of it    *)
(* raises, and nothing repairs the entry).                                  *)
LoneSaveRepairs ==
  [][\A q \in Request :
       LoneSaveEnds(q) /\ (\A s \in Schedule : crontabs[s] <= 1) => InSync(on[q])']_vars
=============================================================================
