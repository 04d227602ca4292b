------------------------------- MODULE Tenancy -------------------------------
(***************************************************************************)
(* Workspaces, their members, and the data sources and pipelines that      *)
(* belong to them.  A request is a few database statements: get_object,    *)
(* the checks of a serializer or view, the write, the audit row.  Nothing  *)
(* holds a lock from one to the next, so other requests, and the death of  *)
(* the web process, come between any two.  Foreign keys and unique         *)
(* constraints are the database's: a write that breaks one fails.          *)
(*                                                                         *)
(* Reads, pause, resume and run leave these tables as they are and are     *)
(* left out, as are the fields no check looks at.                          *)
(***************************************************************************)
EXTENDS Naturals, FiniteSets

CONSTANTS
  User,
  Engineer,    \* users whose platform role may write sources and pipelines
  Workspace,   \* primary keys, as are the next two
  Source,
  Pipeline,
  Request,
  Suffix,      \* bound: slug suffixes there are at the start
  New,         \* bound: primary keys without a row at the start
  None

ASSUME TenancyAssumption ==
  /\ Engineer \subseteq User
  /\ None \notin User \cup Workspace \cup Source
  /\ Suffix \subseteq Nat \ {0}

VARIABLES
  slug,      \* of each workspace: 0 if there is no row, else its suffix
  role,      \* WorkspaceMembership: role[w][u]
  source,    \* workspace of each DataSource
  pipeline,  \* source and workspace of each Pipeline
  log,       \* AuditLog: what request, in which workspace
  used,      \* primary keys that ever had a row: a new one is a fresh UUID
  pc, by, call,
  held,      \* the instance a request has in memory
  moved,     \* history: sources given another workspace, pipelines another source
  resigned,  \* history: workspaces of which an owner gave himself another role
  admitted,  \* history: workspaces its user was a member of since a request began
  overlap    \* history: were two requests ever served at once?

tables  == <<slug, role, source, pipeline>>
request == <<by, call>>
history == <<moved, resigned>>
vars == <<tables, log, used, pc, request, held, history, admitted, overlap>>

(* add_member takes any text as a role: all but OWNER act like MEMBER.     *)
Role   == {"OWNER", "MEMBER"}
NoRow  == [source |-> None, workspace |-> None]
Rows   == [source : Source, workspace : Workspace]
Blank  == [slug |-> 1, source |-> None, workspace |-> None]

Calls ==
  [op : {"create_workspace", "rename_workspace", "delete_workspace"}, row : Workspace]
  \cup [op : {"add_member"}, row : Workspace, of : User, role : Role]
  \cup [op : {"remove_member"}, row : Workspace, of : User]
  \cup [op : {"create_source", "move_source"}, row : Source, of : Workspace]
  \cup [op : {"patch_source", "delete_source"}, row : Source]
  \cup [op : {"create_pipeline", "repoint_pipeline"}, row : Pipeline, of : Source]
  \cup [op : {"patch_pipeline", "delete_pipeline"}, row : Pipeline]
  \cup [op : {"clone_pipeline"}, row : Pipeline, of : Pipeline]

NoCall == [op |-> "none"]

Op(r)       == call[r].op
Row(r)      == call[r].row
WorkspaceOp == {"create_workspace", "rename_workspace", "delete_workspace",
                "add_member", "remove_member"}
SourceOp    == {"create_source", "move_source", "patch_source", "delete_source"}
PipelineOp  == {"create_pipeline", "clone_pipeline", "repoint_pipeline",
                "patch_pipeline", "delete_pipeline"}
MemberOp    == {"add_member", "remove_member"}
Creation    == {"create_workspace", "create_source", "create_pipeline",
                "clone_pipeline"}
Deletion    == {"delete_workspace", "delete_source", "delete_pipeline"}
Unaudited   == {"rename_workspace", "patch_pipeline", "repoint_pipeline",
                "delete_pipeline"}

Exists(w)    == slug[w] # 0
Member(u, w) == role[w][u] # "none"
Owner(u, w)  == role[w][u] = "OWNER"
Ended        == {"done", "refused", "failed", "unaudited", "killed"}
Served(r)    == pc[r] \notin {"new"} \cup Ended

(* get_queryset of the three viewsets, on a single row *)
SeesWorkspace(u, w) == Exists(w) /\ Member(u, w)
SeesSource(u, s)    == source[s] # None /\ Member(u, source[s])
SeesPipeline(u, p)  ==
  pipeline[p] # NoRow /\ Member(u, pipeline[p].workspace)

-----------------------------------------------------------------------------
Init ==
  /\ slug \in [Workspace -> {0} \cup Suffix]
  /\ role \in [Workspace -> [User -> Role \cup {"none"}]]
  /\ source \in [Source -> Workspace \cup {None}]
  /\ pipeline \in [Pipeline -> Rows \cup {NoRow}]
  /\ used = {w \in Workspace : Exists(w)} \cup {s \in Source : source[s] # None}
              \cup {p \in Pipeline : pipeline[p] # NoRow}
  /\ used \cap New = {}
  /\ \A w, v \in Workspace : Exists(w) /\ slug[w] = slug[v] => w = v
  /\ \A w \in Workspace :
       Exists(w) <=> \E u \in User : role[w][u] # "none"
  /\ \A w \in Workspace : Exists(w) => \E u \in User : Owner(u, w)
  /\ \A s \in Source : source[s] # None => Exists(source[s])
  /\ \A p \in Pipeline : pipeline[p] # NoRow =>
       pipeline[p].workspace = source[pipeline[p].source]
  /\ log = {}
  /\ pc = [r \in Request |-> "new"]
  /\ by = [r \in Request |-> None]
  /\ call = [r \in Request |-> NoCall]
  /\ held = [r \in Request |-> Blank]
  /\ moved = {} /\ resigned = {}
  /\ admitted = [r \in Request |-> {}]
  /\ overlap = FALSE

Goto(r, from, to) ==
  /\ pc[r] = from
  /\ pc' = [pc EXCEPT ![r] = to]

Keep(r, instance) == held' = [held EXCEPT ![r] = instance]

(* A POST, PATCH or DELETE that permission_classes let through, up to its  *)
(* first statement.  One that finds nothing changes nothing.               *)
Begin(r, u, c, to) ==
  /\ Goto(r, "new", to)
  /\ c.op \in WorkspaceOp \/ u \in Engineer
  /\ by' = [by EXCEPT ![r] = u]
  /\ call' = [call EXCEPT ![r] = c]
  /\ c.op \in Creation => c.row \notin used
  /\ used' = IF c.op \in Creation THEN used \cup {c.row} ELSE used
  /\ UNCHANGED <<tables, log, history>>

Create(r, u, c) ==
  /\ c.op \in Creation \ {"clone_pipeline"}
  /\ Begin(r, u, c, "check")
  /\ UNCHANGED held

(* get_object: the row, if get_queryset shows it to the user.  What is to  *)
(* be deleted is in the audit log before it is.                            *)
AfterLoad(c) ==
  CASE c.op \in Deletion \ Unaudited -> "audit"
    [] c.op \in MemberOp \cup {"move_source", "repoint_pipeline", "clone_pipeline"} ->
         "check"
    [] OTHER -> "write"

LoadWorkspace(r, u, c) ==
  /\ c.op \in WorkspaceOp \ Creation
  /\ SeesWorkspace(u, c.row)
  /\ Begin(r, u, c, AfterLoad(c))
  /\ Keep(r, [Blank EXCEPT !.slug = slug[c.row]])

LoadSource(r, u, c) ==
  /\ c.op \in SourceOp \ Creation
  /\ SeesSource(u, c.row)
  /\ Begin(r, u, c, AfterLoad(c))
  /\ Keep(r, [Blank EXCEPT !.workspace = source[c.row]])

LoadPipeline(r, u, c) ==
  LET p == IF c.op = "clone_pipeline" THEN c.of ELSE c.row
  IN /\ c.op \in PipelineOp \ {"create_pipeline"}
     /\ SeesPipeline(u, p)
     /\ Begin(r, u, c, AfterLoad(c))
     /\ Keep(r, [slug |-> 1, source |-> pipeline[p].source,
                 workspace |-> pipeline[p].workspace])

(* Mutant: is_member in the place of is_owner. *)
CheckOwnerAsMember(r) ==
  /\ Op(r) \in MemberOp
  /\ Goto(r, "check", IF Member(by[r], Row(r)) THEN "write" ELSE "refused")
  /\ UNCHANGED <<tables, log, used, request, held, history>>

(* is_owner, on the table and not on what get_object returned *)
CheckOwner(r) ==
  /\ Op(r) \in MemberOp
  /\ Goto(r, "check", IF Owner(by[r], Row(r)) THEN "write" ELSE "refused")
  /\ UNCHANGED <<tables, log, used, request, held, history>>

(* validate_workspace: is_member of the workspace the client names *)
CheckMember(r) ==
  LET mine == Member(by[r], call[r].of)
  IN /\ Op(r) \in {"create_source", "move_source"}
     /\ Goto(r, "check", IF mine THEN "write" ELSE "refused")
     /\ Keep(r, [held[r] EXCEPT !.workspace = IF mine THEN call[r].of ELSE @])
     /\ UNCHANGED <<tables, log, used, request, history>>

(* Mutant: the field's default queryset, which is every source there is. *)
CheckAnySource(r) ==
  LET s == call[r].of
      found == source[s] # None
      chosen == [held[r] EXCEPT !.source = s,
                   !.workspace = IF @ = None THEN source[s] ELSE @]
  IN /\ Op(r) \in {"create_pipeline", "repoint_pipeline"}
     /\ Goto(r, "check", IF found THEN "write" ELSE "refused")
     /\ Keep(r, IF found THEN chosen ELSE held[r])
     /\ UNCHANGED <<tables, log, used, request, history>>

(* The queryset of the field source.  A pipeline without a workspace takes *)
(* that of its source when it is saved; one that has a workspace keeps it. *)
CheckSource(r) ==
  LET s == call[r].of
      mine == SeesSource(by[r], s)
      chosen == [held[r] EXCEPT !.source = s,
                   !.workspace = IF @ = None THEN source[s] ELSE @]
  IN /\ Op(r) \in {"create_pipeline", "repoint_pipeline"}
     /\ Goto(r, "check", IF mine THEN "write" ELSE "refused")
     /\ Keep(r, IF mine THEN chosen ELSE held[r])
     /\ UNCHANGED <<tables, log, used, request, history>>

(* Mutant: the copy goes to some workspace of the user who copies. *)
ReadOwnWorkspace(r) ==
  \E w \in Workspace :
    /\ Op(r) = "clone_pipeline"
    /\ Goto(r, "check", IF source[held[r].source] # None THEN "write" ELSE "failed")
    /\ Member(by[r], w)
    /\ Keep(r, [held[r] EXCEPT !.workspace = w])
    /\ UNCHANGED <<tables, log, used, request, history>>

(* clone: pipeline.source is read now, and the copy has no workspace yet *)
ReadSource(r) ==
  LET w == source[held[r].source]
  IN /\ Op(r) = "clone_pipeline"
     /\ Goto(r, "check", IF w # None THEN "write" ELSE "failed")
     /\ Keep(r, [held[r] EXCEPT !.workspace = w])
     /\ UNCHANGED <<tables, log, used, request, history>>

(* create_workspace: one turn of the loop that looks for a free slug *)
TrySlug(r) ==
  LET taken == \E w \in Workspace : slug[w] = held[r].slug
  IN /\ Op(r) = "create_workspace"
     /\ Goto(r, "check", IF taken THEN "check" ELSE "write")
     /\ Keep(r, [held[r] EXCEPT !.slug = IF taken THEN @ + 1 ELSE @])
     /\ UNCHANGED <<tables, log, used, request, history>>

-----------------------------------------------------------------------------
(* save() of the whole instance: an UPDATE of every field, or an INSERT    *)
(* when the row was deleted meanwhile.  The constraints of what it writes: *)
Allowed(r) ==
  /\ Op(r) \in {"create_workspace", "rename_workspace"} =>
       \A w \in Workspace \ {Row(r)} : slug[w] # held[r].slug
  /\ Op(r) = "add_member" => Exists(Row(r))
  /\ Op(r) \in SourceOp \ Deletion => Exists(held[r].workspace)
  /\ Op(r) \in PipelineOp \ Deletion =>
       source[held[r].source] # None /\ Exists(held[r].workspace)

IntegrityError(r) ==
  /\ Goto(r, "write", "failed")
  /\ ~Allowed(r)
  /\ UNCHANGED <<tables, log, used, request, held, history>>

SaveWorkspace(r) ==
  /\ Op(r) \in {"create_workspace", "rename_workspace"}
  /\ Goto(r, "write", IF Op(r) = "create_workspace" THEN "member" ELSE "done")
  /\ Allowed(r)
  /\ slug' = [slug EXCEPT ![Row(r)] = held[r].slug]
  /\ UNCHANGED <<role, source, pipeline, log, used, request, held, history>>

(* create_workspace, its last statement *)
SaveOwner(r) ==
  /\ Goto(r, "member", "audit")
  /\ role' = [role EXCEPT ![Row(r)][by[r]] = "OWNER"]
  /\ UNCHANGED <<slug, source, pipeline, log, used, request, held, history>>

AddMember(r) ==
  /\ Op(r) = "add_member"
  /\ Goto(r, "write", "audit")
  /\ Allowed(r)
  /\ role' = [role EXCEPT ![Row(r)][call[r].of] = call[r].role]
  /\ resigned' = IF call[r].of = by[r] /\ call[r].role # "OWNER"
                   THEN resigned \cup {Row(r)} ELSE resigned
  /\ UNCHANGED <<slug, source, pipeline, log, used, request, held, moved>>

RemoveMember(r) ==
  /\ Op(r) = "remove_member"
  /\ Goto(r, "write", "audit")
  /\ role' = [role EXCEPT ![Row(r)][call[r].of] = "none"]
  /\ resigned' = IF call[r].of = by[r] THEN resigned \cup {Row(r)} ELSE resigned
  /\ UNCHANGED <<slug, source, pipeline, log, used, request, held, moved>>

SaveSource(r) ==
  /\ Op(r) \in SourceOp \ Deletion
  /\ Goto(r, "write", "audit")
  /\ Allowed(r)
  /\ source' = [source EXCEPT ![Row(r)] = held[r].workspace]
  /\ moved' = IF Op(r) = "move_source" THEN moved \cup {Row(r)} ELSE moved
  /\ UNCHANGED <<slug, role, pipeline, log, used, request, held, resigned>>

SavePipeline(r) ==
  /\ Op(r) \in PipelineOp \ Deletion
  /\ Goto(r, "write", IF Op(r) \in Unaudited THEN "done" ELSE "audit")
  /\ Allowed(r)
  /\ pipeline' = [pipeline EXCEPT ![Row(r)] =
       [source |-> held[r].source, workspace |-> held[r].workspace]]
  /\ moved' = IF Op(r) = "repoint_pipeline" THEN moved \cup {Row(r)} ELSE moved
  /\ UNCHANGED <<slug, role, source, log, used, request, held, resigned>>

(* Mutant: CASCADE for the audit log as well. *)
DeleteWorkspaceAndLog(r) ==
  LET w == Row(r)
      gone == {s \in Source : source[s] = w}
  IN /\ Op(r) = "delete_workspace"
     /\ Goto(r, "write", "done")
     /\ slug' = [slug EXCEPT ![w] = 0]
     /\ role' = [role EXCEPT ![w] = [u \in User |-> "none"]]
     /\ source' = [s \in Source |-> IF s \in gone THEN None ELSE source[s]]
     /\ pipeline' = [p \in Pipeline |->
          IF pipeline[p].workspace = w \/ pipeline[p].source \in gone
            THEN NoRow ELSE pipeline[p]]
     /\ log' = {e \in log : e.workspace # w}
     /\ UNCHANGED <<used, request, held, history>>

(* on_delete=CASCADE, but SET_NULL for the audit log; one transaction *)
DeleteWorkspace(r) ==
  LET w == Row(r)
      gone == {s \in Source : source[s] = w}
  IN /\ Op(r) = "delete_workspace"
     /\ Goto(r, "write", "done")
     /\ slug' = [slug EXCEPT ![w] = 0]
     /\ role' = [role EXCEPT ![w] = [u \in User |-> "none"]]
     /\ source' = [s \in Source |-> IF s \in gone THEN None ELSE source[s]]
     /\ pipeline' = [p \in Pipeline |->
          IF pipeline[p].workspace = w \/ pipeline[p].source \in gone
            THEN NoRow ELSE pipeline[p]]
     /\ log' = {[e EXCEPT !.workspace = IF @ = w THEN None ELSE @] : e \in log}
     /\ UNCHANGED <<used, request, held, history>>

(* Mutant: DO_NOTHING in the place of CASCADE. *)
DeleteSourceAlone(r) ==
  /\ Op(r) = "delete_source"
  /\ Goto(r, "write", "done")
  /\ source' = [source EXCEPT ![Row(r)] = None]
  /\ UNCHANGED <<slug, role, pipeline, log, used, request, held, history>>

DeleteSource(r) ==
  /\ Op(r) = "delete_source"
  /\ Goto(r, "write", "done")
  /\ source' = [source EXCEPT ![Row(r)] = None]
  /\ pipeline' = [p \in Pipeline |->
       IF pipeline[p].source = Row(r) THEN NoRow ELSE pipeline[p]]
  /\ UNCHANGED <<slug, role, log, used, request, held, history>>

DeletePipeline(r) ==
  /\ Op(r) = "delete_pipeline"
  /\ Goto(r, "write", "done")
  /\ pipeline' = [pipeline EXCEPT ![Row(r)] = NoRow]
  /\ UNCHANGED <<slug, role, source, log, used, request, held, history>>

(* The cascade looks for children and then deletes: a child that another   *)
(* request stores in between makes the transaction fail.                   *)
CascadeFails(r) ==
  /\ Op(r) \in {"delete_workspace", "delete_source"}
  /\ \E q \in Request :
       /\ pc[q] = "write" /\ Op(q) \notin Deletion
       /\ \/ Row(r) \in {held[q].workspace, held[q].source}
          \/ Op(q) = "add_member" /\ Row(q) = Row(r)
  /\ Goto(r, "write", "failed")
  /\ UNCHANGED <<tables, log, used, request, held, history>>

-----------------------------------------------------------------------------
AuditWorkspace(r) ==
  IF Op(r) \in WorkspaceOp THEN Row(r) ELSE held[r].workspace

(* audit_record, a statement of its own; the row names the workspace by a  *)
(* foreign key, which fails if that is gone.                               *)
Audit(r) ==
  /\ Goto(r, "audit", IF Op(r) \in Deletion THEN "write" ELSE "done")
  /\ Exists(AuditWorkspace(r))
  /\ log' = log \cup {[request |-> r, workspace |-> AuditWorkspace(r)]}
  /\ UNCHANGED <<tables, used, request, held, history>>

AuditFails(r) ==
  /\ Goto(r, "audit", IF Op(r) \in Deletion THEN "failed" ELSE "unaudited")
  /\ ~Exists(AuditWorkspace(r))
  /\ UNCHANGED <<tables, log, used, request, held, history>>

(* The web process is killed.  Before the first write nothing is left of a *)
(* request, as of one that was refused.                                    *)
Die(r) ==
  /\ pc[r] \in {"member", "audit"} \/ (pc[r] = "write" /\ Op(r) \in Deletion)
  /\ pc' = [pc EXCEPT ![r] = "killed"]
  /\ Keep(r, Blank)
  /\ UNCHANGED <<tables, log, used, request, history>>

Step(r) ==
  \/ /\ pc[r] = "new"
     /\ \E u \in User, c \in Calls :
          \/ Create(r, u, c)
          \/ LoadWorkspace(r, u, c) \/ LoadSource(r, u, c) \/ LoadPipeline(r, u, c)
  \/ CheckOwner(r) \/ CheckMember(r) \/ CheckSource(r) \/ ReadSource(r) \/ TrySlug(r)
  \/ IntegrityError(r) \/ SaveWorkspace(r) \/ SaveOwner(r) \/ AddMember(r)
  \/ RemoveMember(r) \/ SaveSource(r) \/ SavePipeline(r)
  \/ DeleteWorkspace(r) \/ DeleteSource(r) \/ DeletePipeline(r) \/ CascadeFails(r)
  \/ Audit(r) \/ AuditFails(r)
  \/ Die(r)

(* What is written down of each step for the properties *)
Witness ==
  /\ admitted' = [r \in Request |-> IF ~Served(r)' THEN {}
       ELSE admitted[r] \cup {w \in Workspace : Member(by[r], w)'}]
  /\ overlap' = (overlap \/ \E r, q \in Request : r # q /\ Served(r)' /\ Served(q)')

Next == (\E r \in Request : Step(r)) /\ Witness

Spec == Init /\ [][Next]_vars

-----------------------------------------------------------------------------
HeldTypes ==
  [slug : Nat \ {0}, source : Source \cup {None}, workspace : Workspace \cup {None}]

Shape ==
  /\ slug \in [Workspace -> Nat]
  /\ role \in [Workspace -> [User -> Role \cup {"none"}]]
  /\ source \in [Source -> Workspace \cup {None}]
  /\ pipeline \in [Pipeline -> Rows \cup {NoRow}]
  /\ log \subseteq [request : Request, workspace : Workspace \cup {None}]
  /\ used \subseteq Workspace \cup Source \cup Pipeline
  /\ pc \in [Request -> {"new", "check", "write", "member", "audit"} \cup Ended]
  /\ held \in [Request -> HeldTypes]
  /\ moved \subseteq Source \cup Pipeline
  /\ resigned \subseteq Workspace
  /\ admitted \in [Request -> SUBSET Workspace]
  /\ overlap \in BOOLEAN
  /\ by \in [Request -> User \cup {None}]
  /\ call \in [Request -> Calls \cup {NoCall}]
  /\ \A r \in Request : pc[r] # "new" => by[r] \in User /\ call[r] \in Calls

Integrity ==
  /\ \A w, v \in Workspace : Exists(w) /\ slug[w] = slug[v] => w = v
  /\ \A w \in Workspace, u \in User : Member(u, w) => Exists(w)
  /\ \A s \in Source : source[s] # None => Exists(source[s])
  /\ \A p \in Pipeline : pipeline[p] # NoRow =>
       Exists(pipeline[p].workspace) /\ source[pipeline[p].source] # None
  /\ \A e \in log : e.workspace # None => Exists(e.workspace)

(* Every variable keeps its type, and the tables satisfy their foreign     *)
(* keys and unique constraints after every write and cascade: members and  *)
(* sources are of workspaces, and pipelines of sources, that are there.    *)
TypeOK == Shape /\ Integrity

(* pipelines/models.py:21: a pipeline is in the workspace of its source.   *)
(* It is, through all creations, copies, late saves and cascades, unless   *)
(* the source was given another workspace or the pipeline another source:  *)
(* the workspace of a pipeline is stored once and does not follow.         *)
PipelineFollowsSource ==
  \A p \in Pipeline :
    \/ pipeline[p] = NoRow
    \/ p \in moved
    \/ pipeline[p].source \in moved
    \/ pipeline[p].workspace = source[pipeline[p].source]

(* The same without the exception: the comment has "Always the same        *)
(* workspace as `source`".                                                 *)
AlwaysOfItsSource ==
  \A p \in Pipeline :
    pipeline[p] # NoRow => pipeline[p].workspace = source[pipeline[p].source]

(* workspaces/services.py:1: who can see what.  A source or pipeline comes *)
(* into a workspace only by a request whose user was a member of it at     *)
(* some time while the request was served, whoever removes him meanwhile;  *)
(* except for a copy of a pipeline that a move took out of the workspace   *)
(* of its source.                                                          *)
Comes(w, before, after) == after = w /\ before # w
LandsWhereAdmitted ==
  [][\A r \in Request, w \in Workspace :
       /\ pc'[r] # pc[r]
       /\ \/ \E s \in Source : Comes(w, source[s], source'[s])
          \/ \E p \in Pipeline :
               Comes(w, pipeline[p].workspace, pipeline'[p].workspace)
       => \/ w \in admitted[r]
          \/ Op(r) = "clone_pipeline" /\ {held[r].source, call[r].of} \cap moved # {}]_vars

(* A workspace that was made, and its owner with it, has an owner as long  *)
(* as no owner gave himself another role and no two requests were served   *)
(* at once: two owners who remove each other at once leave none.           *)
OwnerRemains ==
  \/ overlap
  \/ \A w \in Workspace :
       \/ ~Exists(w)
       \/ w \in resigned
       \/ \E u \in User : Owner(u, w)
       \/ \E r \in Request :
            /\ pc[r] \in {"member", "killed"}
            /\ Op(r) = "create_workspace" /\ Row(r) = w

(* audit/models.py:21: the audit row of a request that was answered is     *)
(* there for good, also when its workspace is deleted.  A request whose    *)
(* write is stored and whose audit row is not, which answers 500, is one   *)
(* whose workspace another request deleted in between.                     *)
AuditTrail ==
  \A r \in Request :
    /\ pc[r] = "done" /\ Op(r) \notin Unaudited => \E e \in log : e.request = r
    /\ pc[r] = "unaudited" =>
         \E q \in Request : /\ pc[q] = "done"
                            /\ Op(q) = "delete_workspace" /\ Row(q) = AuditWorkspace(r)
=============================================================================
