---------------------------- MODULE Tenancy_proofs ----------------------------
(* Workspaces, sources and pipelines for any number of users and requests. *)
EXTENDS Tenancy, TLAPS

(* What a call names, by its operation. *)
LEMMA CallTypes ==
  ASSUME NEW c \in Calls
  PROVE  /\ c.op \in WorkspaceOp \cup SourceOp \cup PipelineOp
         /\ c.op \in WorkspaceOp => c.row \in Workspace
         /\ c.op \in MemberOp => c.of \in User
         /\ c.op = "add_member" => c.role \in Role
         /\ c.op \in SourceOp => c.row \in Source
         /\ c.op \in {"create_source", "move_source"} => c.of \in Workspace
         /\ c.op \in PipelineOp => c.row \in Pipeline
         /\ c.op \in {"create_pipeline", "repoint_pipeline"} => c.of \in Source
         /\ c.op = "clone_pipeline" => c.of \in Pipeline
BY DEF Calls, WorkspaceOp, SourceOp, PipelineOp, MemberOp

-----------------------------------------------------------------------------
(* What the instance of a request holds by each step *)
HeldOK ==
  /\ \A r \in Request : pc[r] = "new" => held[r].workspace = None
  /\ \A r \in Request : Served(r) =>
    /\ Op(r) \in SourceOp /\ (Op(r) # "create_source" \/ pc[r] # "check")
         => held[r].workspace \in Workspace
    /\ Op(r) \in PipelineOp /\ (Op(r) # "create_pipeline" \/ pc[r] # "check")
         => held[r].source \in Source /\ held[r].workspace \in Workspace
    /\ Op(r) = "create_pipeline" /\ pc[r] = "check" => held[r].workspace = None
    /\ pc[r] = "member" => Op(r) = "create_workspace"

(* Every primary key in a table or in a request has been given out. *)
Known ==
  /\ \A w \in Workspace : Exists(w) => w \in used
  /\ \A s \in Source : source[s] # None => s \in used
  /\ \A p \in Pipeline : pipeline[p] # NoRow => p \in used
  /\ \A r \in Request : pc[r] # "new" => Row(r) \in used
  /\ \A r \in Request : held[r].source # None => held[r].source \in used

(* Nobody else knows of a workspace before its owner is stored. *)
Fresh ==
  \A r \in Request : Served(r) /\ Op(r) = "create_workspace" /\ pc[r] # "audit" =>
    /\ \A u \in User : ~Member(u, Row(r))
    /\ pc[r] = "member" => Exists(Row(r))
    /\ \A q \in Request \ {r} :
         pc[q] # "new" /\ Op(q) \in WorkspaceOp => Row(q) # Row(r)

Base == Shape /\ Integrity /\ HeldOK /\ Known /\ Fresh

LEMMA BaseInit == Init => Base
<1> SUFFICES ASSUME Init PROVE Base
  OBVIOUS
<1>1. Shape
  <2>1. held \in [Request -> HeldTypes]
    BY DEF Init, Blank, HeldTypes
  <2>2. slug \in [Workspace -> Nat]
    <3>1. {0} \cup Suffix \subseteq Nat
      BY TenancyAssumption
    <3>. QED
      BY <3>1 DEF Init
  <2>3. used \subseteq Workspace \cup Source \cup Pipeline
    BY DEF Init
  <2>. QED
    BY <2>1, <2>2, <2>3 DEF Init, Shape, Ended
<1>2. Integrity
  <2>1. ASSUME NEW p \in Pipeline, pipeline[p] # NoRow
        PROVE  Exists(pipeline[p].workspace) /\ source[pipeline[p].source] # None
    BY <2>1, TenancyAssumption DEF Init, Rows
  <2>. QED
    BY <2>1 DEF Init, Integrity, Member
<1>3. HeldOK /\ Fresh
  BY DEF Init, HeldOK, Fresh, Served, Blank
<1>4. Known
  BY DEF Init, Known, Blank
<1>. QED
  BY <1>1, <1>2, <1>3, <1>4 DEF Base

-----------------------------------------------------------------------------
(* The actions of a step, by what they touch *)
Begins(r) == \E u \in User, c \in Calls :
  Create(r, u, c) \/ LoadWorkspace(r, u, c) \/ LoadSource(r, u, c) \/ LoadPipeline(r, u, c)
Checks(r) == CheckOwner(r) \/ CheckMember(r) \/ CheckSource(r) \/ ReadSource(r) \/ TrySlug(r)
Ends(r)   == IntegrityError(r) \/ CascadeFails(r) \/ AuditFails(r) \/ Die(r)
Saves(r)  == SaveWorkspace(r) \/ SaveOwner(r) \/ AddMember(r) \/ RemoveMember(r)
               \/ SaveSource(r) \/ SavePipeline(r)
Deletes(r) == DeleteWorkspace(r) \/ DeleteSource(r) \/ DeletePipeline(r)

LEMMA StepCases ==
  ASSUME NEW r \in Request, Step(r)
  PROVE  Begins(r) \/ Checks(r) \/ Ends(r) \/ Saves(r) \/ Deletes(r) \/ Audit(r)
BY DEF Step, Begins, Checks, Ends, Saves, Deletes

Places == {"new", "check", "write", "member", "audit"} \cup Ended

(* A step of r is of r alone: *)
LEMMA StepIsLocal ==
  ASSUME Shape, NEW r \in Request, Step(r)
  PROVE  /\ \E t \in Places : pc' = [pc EXCEPT ![r] = t]
         /\ \A q \in Request \ {r} : /\ pc'[q] = pc[q] /\ held'[q] = held[q]
                                     /\ by'[q] = by[q] /\ call'[q] = call[q]
         /\ Begins(r) \/ UNCHANGED <<request, used>>
<1>1. CASE Begins(r)
  <2>1. PICK u \in User, c \in Calls : Create(r, u, c) \/ LoadWorkspace(r, u, c)
                                        \/ LoadSource(r, u, c) \/ LoadPipeline(r, u, c)
    BY <1>1 DEF Begins
  <2>2. /\ Begin(r, u, c, "check") \/ Begin(r, u, c, AfterLoad(c))
        /\ UNCHANGED held \/ \E i : Keep(r, i)
    BY <2>1 DEF Create, LoadWorkspace, LoadSource, LoadPipeline
  <2>3. AfterLoad(c) \in Places
    BY DEF AfterLoad, Places
  <2>4. /\ \E t \in Places : pc' = [pc EXCEPT ![r] = t]
        /\ by' = [by EXCEPT ![r] = u] /\ call' = [call EXCEPT ![r] = c]
    BY <2>2, <2>3 DEF Begin, Goto, Places
  <2>. QED
    BY <1>1, <2>2, <2>4 DEF Keep, Shape
<1>2. CASE Checks(r)
  BY <1>2 DEF Checks, CheckOwner, CheckMember, CheckSource, ReadSource, TrySlug, Keep, Goto,
              Places, Ended, Shape, request
<1>3. CASE Ends(r)
  BY <1>3 DEF Ends, IntegrityError, CascadeFails, AuditFails, Die, Keep, Goto, Places, Ended,
              Shape, request
<1>4. CASE Saves(r)
  BY <1>4 DEF Saves, SaveWorkspace, SaveOwner, AddMember, RemoveMember, SaveSource,
              SavePipeline, Goto, Places, Ended, Shape, request
<1>5. CASE Deletes(r) \/ Audit(r)
  BY <1>5 DEF Deletes, DeleteWorkspace, DeleteSource, DeletePipeline, Audit, Goto, Places,
              Ended, Shape, request
<1>. QED
  BY <1>1, <1>2, <1>3, <1>4, <1>5, StepCases

LEMMA KeepTypes ==
  ASSUME Shape, NEW r \in Request, NEW i \in HeldTypes, Keep(r, i)
  PROVE  held' \in [Request -> HeldTypes] /\ held'[r] = i
BY DEF Keep, Shape

(* What a request has read or checked when it begins, by its kind *)
LEMMA BeginTypes ==
  ASSUME Shape, NEW r \in Request, Begins(r)
  PROVE  /\ held' \in [Request -> HeldTypes]
         /\ used' \subseteq Workspace \cup Source \cup Pipeline
         /\ by' \in [Request -> User \cup {None}] /\ by'[r] \in User
         /\ call' \in [Request -> Calls \cup {NoCall}] /\ call'[r] \in Calls
         /\ UNCHANGED <<tables, log, history>>
<1>1. PICK u \in User, c \in Calls : Create(r, u, c) \/ LoadWorkspace(r, u, c)
                                      \/ LoadSource(r, u, c) \/ LoadPipeline(r, u, c)
  BY DEF Begins
<1>2. \E to : Begin(r, u, c, to)
  BY <1>1 DEF Create, LoadWorkspace, LoadSource, LoadPipeline
<1>3. c.row \in Workspace \cup Source \cup Pipeline
  BY CallTypes
<1>4. held' \in [Request -> HeldTypes]
  <2>1. CASE Create(r, u, c)
    BY <2>1 DEF Create, Shape
  <2>2. CASE LoadWorkspace(r, u, c)
    <3>1. c.row \in Workspace
      BY <2>2, CallTypes DEF LoadWorkspace
    <3>2. slug[c.row] \in Nat \ {0}
      BY <2>2, <3>1 DEF LoadWorkspace, SeesWorkspace, Exists, Shape
    <3>3. [Blank EXCEPT !.slug = slug[c.row]] \in HeldTypes
      BY <3>2 DEF Blank, HeldTypes
    <3>. QED
      BY <2>2, <3>3, KeepTypes DEF LoadWorkspace
  <2>3. CASE LoadSource(r, u, c)
    <3>1. c.row \in Source
      BY <2>3, CallTypes DEF LoadSource
    <3>2. [Blank EXCEPT !.workspace = source[c.row]] \in HeldTypes
      BY <3>1 DEF Blank, HeldTypes, Shape
    <3>. QED
      BY <2>3, <3>2, KeepTypes DEF LoadSource
  <2>4. CASE LoadPipeline(r, u, c)
    <3>1. PICK p \in Pipeline : Keep(r,
            [slug |-> 1, source |-> pipeline[p].source, workspace |-> pipeline[p].workspace])
      BY <2>4, CallTypes DEF LoadPipeline, PipelineOp
    <3>2. pipeline[p].source \in Source \cup {None} /\ pipeline[p].workspace \in Workspace \cup {None}
      BY DEF Shape, Rows, NoRow
    <3>3. [slug |-> 1, source |-> pipeline[p].source, workspace |-> pipeline[p].workspace]
            \in HeldTypes
      BY <3>2 DEF HeldTypes
    <3>. QED
      BY <3>1, <3>3, KeepTypes
  <2>. QED
    BY <1>1, <2>1, <2>2, <2>3, <2>4
<1>5. used' \subseteq Workspace \cup Source \cup Pipeline
  BY <1>2, <1>3 DEF Begin, Shape
<1>6. by' = [by EXCEPT ![r] = u] /\ call' = [call EXCEPT ![r] = c]
  BY <1>2 DEF Begin
<1>7. UNCHANGED <<tables, log, history>>
  BY <1>2 DEF Begin
<1>. QED
  BY <1>4, <1>5, <1>6, <1>7 DEF Shape

LEMMA ShapeStep ==
  ASSUME Base, NEW r \in Request, Step(r), Witness
  PROVE  Shape'
<1>. USE DEF Base
<1>1. pc' \in [Request -> Places]
  BY StepIsLocal DEF Shape, Places
<1>2. admitted' \in [Request -> SUBSET Workspace] /\ overlap' \in BOOLEAN
  BY DEF Witness, Shape
<1>3. CASE Begins(r)
  BY <1>1, <1>2, <1>3, BeginTypes, StepIsLocal DEF Shape, Places, tables, history
<1>4. CASE ~Begins(r)
  <2>1. UNCHANGED <<by, call, used>>
    BY <1>4, StepIsLocal DEF request
  <2>2. pc[r] # "new"
    BY <1>4, StepCases DEF Checks, CheckOwner, CheckMember, CheckSource, ReadSource, TrySlug,
       Ends, IntegrityError, CascadeFails, AuditFails, Die, Saves, SaveWorkspace, SaveOwner,
       AddMember, RemoveMember, SaveSource, SavePipeline, Deletes, DeleteWorkspace,
       DeleteSource, DeletePipeline, Audit, Goto
  <2>3. \A q \in Request : pc'[q] # "new" => by'[q] \in User /\ call'[q] \in Calls
    BY <2>1, <2>2, StepIsLocal DEF Shape
  <2>4. call[r] \in Calls /\ by[r] \in User
    BY <2>2 DEF Shape
  <2>5. CASE Checks(r)
    <3>1. held' \in [Request -> HeldTypes]
      <4>1. CASE CheckOwner(r)
        BY <4>1 DEF CheckOwner, Shape
      <4>2. CASE CheckMember(r)
        <5> DEFINE i == [held[r] EXCEPT !.workspace =
                           IF Member(by[r], call[r].of) THEN call[r].of ELSE @]
        <5>1. call[r].of \in Workspace
          BY <2>4, <4>2, CallTypes DEF CheckMember, Op
        <5>2. held[r] \in HeldTypes
          BY DEF Shape
        <5>3. i \in HeldTypes
          BY <5>1, <5>2 DEF HeldTypes
        <5>. QED
          BY <4>2, <5>3, KeepTypes DEF CheckMember
      <4>3. CASE CheckSource(r)
        <5>1. call[r].of \in Source
          BY <2>4, <4>3, CallTypes DEF CheckSource, Op
        <5>2. held[r] \in HeldTypes /\ source[call[r].of] \in Workspace \cup {None}
          BY <5>1 DEF Shape
        <5>3. [held[r] EXCEPT !.source = call[r].of,
                 !.workspace = IF @ = None THEN source[call[r].of] ELSE @] \in HeldTypes
          BY <5>1, <5>2 DEF HeldTypes
        <5>. QED
          BY <4>3, <5>2, <5>3, KeepTypes DEF CheckSource
      <4>4. CASE ReadSource(r)
        <5>1. held[r].source \in Source
          BY <4>4, <2>4 DEF HeldOK, ReadSource, Op, PipelineOp, Served, Goto, Ended
        <5>2. held[r] \in HeldTypes /\ source[held[r].source] \in Workspace \cup {None}
          BY <5>1 DEF Shape
        <5>3. [held[r] EXCEPT !.workspace = source[held[r].source]] \in HeldTypes
          BY <5>2 DEF HeldTypes
        <5>. QED
          BY <4>4, <5>3, KeepTypes DEF ReadSource
      <4>5. CASE TrySlug(r)
        <5>1. PICK n \in {held[r].slug, held[r].slug + 1} : Keep(r, [held[r] EXCEPT !.slug = n])
          BY <4>5 DEF TrySlug
        <5>2. held[r] \in HeldTypes
          BY DEF Shape
        <5>3. [held[r] EXCEPT !.slug = n] \in HeldTypes
          BY <5>2 DEF HeldTypes
        <5>. QED
          BY <5>1, <5>3, KeepTypes
      <4>. QED
        BY <2>5, <4>1, <4>2, <4>3, <4>4, <4>5 DEF Checks
    <3>2. UNCHANGED <<tables, log, used, request, history>>
      BY <2>5 DEF Checks, CheckOwner, CheckMember, CheckSource, ReadSource, TrySlug
    <3>. QED
      BY <1>1, <1>2, <2>3, <3>1, <3>2 DEF Shape, Places, tables, request, history
  <2>6. CASE Ends(r)
    <3>1. held' \in [Request -> HeldTypes]
      BY <2>6 DEF Ends, IntegrityError, CascadeFails, AuditFails, Die, Keep, Blank, HeldTypes, Shape
    <3>2. UNCHANGED <<tables, log, used, request, history>>
      BY <2>6 DEF Ends, IntegrityError, CascadeFails, AuditFails, Die
    <3>. QED
      BY <1>1, <1>2, <2>3, <3>1, <3>2 DEF Shape, Places, tables, request, history
  <2>7. CASE Saves(r)
    <3>1. slug' \in [Workspace -> Nat]
      <4>1. CASE SaveWorkspace(r)
        BY <4>1 DEF SaveWorkspace, Shape, HeldTypes
      <4>. QED
        BY <2>7, <4>1 DEF Saves, SaveOwner, AddMember, RemoveMember, SaveSource, SavePipeline, Shape
    <3>2. role' \in [Workspace -> [User -> Role \cup {"none"}]]
      <4>1. CASE SaveOwner(r) \/ AddMember(r) \/ RemoveMember(r)
        <5>1. PICK u \in User, x \in Role \cup {"none"} : role' = [role EXCEPT ![Row(r)][u] = x]
          BY <2>4, <4>1, CallTypes DEF SaveOwner, AddMember, RemoveMember, Role, Op, MemberOp
        <5> DEFINE mine == [role[Row(r)] EXCEPT ![u] = x]
        <5>2. \A w \in Workspace : role[w] \in [User -> Role \cup {"none"}]
          BY DEF Shape
        <5>3. Row(r) \in Workspace => mine \in [User -> Role \cup {"none"}]
          BY <5>2
        <5>4. role' = [role EXCEPT ![Row(r)] = mine]
          BY <5>1
        <5> HIDE DEF mine
        <5>. QED
          BY <5>3, <5>4 DEF Shape
      <4>. QED
        BY <2>7, <4>1 DEF Saves, SaveWorkspace, SaveSource, SavePipeline, Shape
    <3>3. source' \in [Source -> Workspace \cup {None}]
      <4>1. CASE SaveSource(r)
        BY <4>1 DEF SaveSource, Shape, HeldTypes
      <4>. QED
        BY <2>7, <4>1 DEF Saves, SaveWorkspace, SaveOwner, AddMember, RemoveMember, SavePipeline, Shape
    <3>4. pipeline' \in [Pipeline -> Rows \cup {NoRow}]
      <4>1. CASE SavePipeline(r)
        <5>1. held[r].source \in Source /\ held[r].workspace \in Workspace
          BY <4>1 DEF SavePipeline, HeldOK, Served, Goto, Ended
        <5>. QED
          BY <4>1, <5>1 DEF SavePipeline, Rows, Shape
      <4>. QED
        BY <2>7, <4>1 DEF Saves, SaveWorkspace, SaveOwner, AddMember, RemoveMember, SaveSource, Shape
    <3>5. moved' \subseteq Source \cup Pipeline /\ resigned' \subseteq Workspace
      <4>1. Op(r) \in MemberOp => Row(r) \in Workspace
        BY <2>4, CallTypes DEF Op, Row, MemberOp, WorkspaceOp
      <4>2. Op(r) \in SourceOp \cup PipelineOp => Row(r) \in Source \cup Pipeline
        BY <2>4, CallTypes DEF Op, Row
      <4>3. CASE AddMember(r) \/ RemoveMember(r)
        BY <4>1, <4>3 DEF AddMember, RemoveMember, MemberOp, Shape
      <4>4. CASE SaveSource(r) \/ SavePipeline(r)
        BY <4>2, <4>4 DEF SaveSource, SavePipeline, SourceOp, PipelineOp, Shape
      <4>. QED
        BY <2>7, <4>3, <4>4 DEF Saves, SaveWorkspace, SaveOwner, Shape, history
    <3>6. UNCHANGED <<log, held>>
      BY <2>7 DEF Saves, SaveWorkspace, SaveOwner, AddMember, RemoveMember, SaveSource, SavePipeline
    <3>. QED
      BY <1>1, <1>2, <2>1, <2>3, <3>1, <3>2, <3>3, <3>4, <3>5, <3>6 DEF Shape, Places
  <2>8. CASE Deletes(r)
    <3>1. slug' \in [Workspace -> Nat] /\ role' \in [Workspace -> [User -> Role \cup {"none"}]]
      <4>1. CASE DeleteWorkspace(r)
        <5> DEFINE nobody == [u \in User |-> "none"]
        <5>1. slug' = [slug EXCEPT ![Row(r)] = 0] /\ role' = [role EXCEPT ![Row(r)] = nobody]
          BY <4>1 DEF DeleteWorkspace
        <5>2. nobody \in [User -> Role \cup {"none"}]
          OBVIOUS
        <5> HIDE DEF nobody
        <5>. QED
          BY <5>1, <5>2 DEF Shape
      <4>2. CASE DeleteSource(r) \/ DeletePipeline(r)
        BY <4>2 DEF DeleteSource, DeletePipeline, Shape
      <4>. QED
        BY <2>8, <4>1, <4>2 DEF Deletes
    <3>2. source' \in [Source -> Workspace \cup {None}]
      BY <2>8 DEF Deletes, DeleteWorkspace, DeleteSource, DeletePipeline, Shape
    <3>3. pipeline' \in [Pipeline -> Rows \cup {NoRow}]
      BY <2>8 DEF Deletes, DeleteWorkspace, DeleteSource, DeletePipeline, Shape
    <3>4. log' \subseteq [request : Request, workspace : Workspace \cup {None}]
      BY <2>8 DEF Deletes, DeleteWorkspace, DeleteSource, DeletePipeline, Shape
    <3>5. UNCHANGED <<held, moved, resigned>>
      BY <2>8 DEF Deletes, DeleteWorkspace, DeleteSource, DeletePipeline, history
    <3>. QED
      BY <1>1, <1>2, <2>1, <2>3, <3>1, <3>2, <3>3, <3>4, <3>5 DEF Shape, Places
  <2>9. CASE Audit(r)
    <3>1. AuditWorkspace(r) \in Workspace
      BY <2>4, <2>9, CallTypes DEF Audit, AuditWorkspace, HeldOK, Served, Goto, Ended, Op, Row
    <3>2. log' \subseteq [request : Request, workspace : Workspace \cup {None}]
      BY <2>9, <3>1 DEF Audit, Shape
    <3>3. UNCHANGED <<tables, held, history>>
      BY <2>9 DEF Audit
    <3>. QED
      BY <1>1, <1>2, <2>1, <2>3, <3>2, <3>3 DEF Shape, Places, tables, history
  <2>. QED
    BY <1>4, <2>5, <2>6, <2>7, <2>8, <2>9, StepCases
<1>. QED
  BY <1>3, <1>4

-----------------------------------------------------------------------------
(* A request that is past its first statement *)
LEMMA Ongoing ==
  ASSUME Shape, NEW r \in Request, Step(r), ~Begins(r)
  PROVE  Served(r) /\ by[r] \in User /\ call[r] \in Calls /\ UNCHANGED <<by, call, used>>
<1>1. Served(r)
  BY StepCases DEF Checks, CheckOwner, CheckMember, CheckSource, ReadSource, TrySlug,
     Ends, IntegrityError, CascadeFails, AuditFails, Die, Saves, SaveWorkspace, SaveOwner,
     AddMember, RemoveMember, SaveSource, SavePipeline, Deletes, DeleteWorkspace,
     DeleteSource, DeletePipeline, Audit, Goto, Served, Ended
<1>. QED
  BY <1>1, StepIsLocal DEF Shape, Served, request

(* What begins, checks or ends leaves the tables alone. *)
LEMMA Quiet ==
  ASSUME NEW r \in Request, Begins(r) \/ Checks(r) \/ Ends(r)
  PROVE  UNCHANGED <<slug, role, source, pipeline, log, moved, resigned>>
<1>1. CASE Begins(r)
  BY <1>1 DEF Begins, Create, LoadWorkspace, LoadSource, LoadPipeline, Begin, tables, history
<1>2. CASE Checks(r)
  BY <1>2 DEF Checks, CheckOwner, CheckMember, CheckSource, ReadSource, TrySlug, tables, history
<1>3. CASE Ends(r)
  BY <1>3 DEF Ends, IntegrityError, CascadeFails, AuditFails, Die, tables, history
<1>. QED
  BY <1>1, <1>2, <1>3

LEMMA IntegrityStep ==
  ASSUME Base, NEW r \in Request, Step(r)
  PROVE  Integrity'
<1>. USE DEF Base
<1>1. CASE Begins(r) \/ Checks(r) \/ Ends(r)
  BY <1>1, Quiet DEF Integrity, Exists, Member
<1>. SUFFICES ASSUME ~Begins(r)
              PROVE  Integrity'
  BY <1>1
<1>2. Served(r) /\ by[r] \in User /\ call[r] \in Calls
  BY Ongoing
<1>3. held[r] \in HeldTypes
  BY DEF Shape
<1>4. CASE SaveWorkspace(r)
  <2>1. Row(r) \in Workspace
    BY <1>2, <1>4, CallTypes DEF SaveWorkspace, Op, Row, WorkspaceOp
  <2>2. /\ slug' = [slug EXCEPT ![Row(r)] = held[r].slug] /\ held[r].slug # 0
        /\ \A w \in Workspace \ {Row(r)} : slug[w] # held[r].slug
    BY <1>3, <1>4 DEF SaveWorkspace, Allowed, HeldTypes
  <2>3. \A w \in Workspace : Exists(w) => Exists(w)'
    BY <2>1, <2>2 DEF Exists, Shape
  <2>4. \A w, v \in Workspace : Exists(w)' /\ slug'[w] = slug'[v] => w = v
    BY <2>1, <2>2 DEF Exists, Shape, Integrity
  <2>5. UNCHANGED <<role, source, pipeline, log>>
    BY <1>4 DEF SaveWorkspace
  <2>. QED
    BY <2>3, <2>4, <2>5 DEF Integrity, Member, Shape, Rows
<1>5. CASE SaveOwner(r) \/ AddMember(r) \/ RemoveMember(r)
  <2>1. UNCHANGED <<slug, source, pipeline, log>>
    BY <1>5 DEF SaveOwner, AddMember, RemoveMember
  <2>2. Op(r) = "create_workspace" \/ Op(r) \in MemberOp
    BY <1>2, <1>5 DEF SaveOwner, AddMember, RemoveMember, HeldOK, Goto, MemberOp
  <2>3. Row(r) \in Workspace
    BY <1>2, <2>2, CallTypes DEF Op, Row, MemberOp, WorkspaceOp
  <2>4. ASSUME NEW w \in Workspace, NEW u \in User, Member(u, w)'
        PROVE  Exists(w)
    <3>1. CASE w # Row(r)
      BY <1>5, <2>3, <2>4, <3>1 DEF SaveOwner, AddMember, RemoveMember, Member, Shape, Integrity
    <3>2. CASE w = Row(r) /\ ~RemoveMember(r)
      BY <1>2, <1>5, <3>2 DEF SaveOwner, AddMember, Allowed, HeldOK, Fresh, Goto
    <3>3. CASE w = Row(r) /\ RemoveMember(r)
      BY <2>3, <2>4, <3>3 DEF RemoveMember, Member, Shape, Integrity
    <3>. QED
      BY <3>1, <3>2, <3>3
  <2>. QED
    BY <2>1, <2>4 DEF Integrity, Exists
<1>6. CASE SaveSource(r)
  <2>1. /\ UNCHANGED <<slug, role, pipeline, log>>
        /\ source' = [source EXCEPT ![Row(r)] = held[r].workspace]
        /\ Exists(held[r].workspace)
    BY <1>6 DEF SaveSource, Allowed, SourceOp, Deletion
  <2>2. held[r].workspace \in Workspace
    BY <1>2, <1>6 DEF SaveSource, HeldOK, SourceOp, Goto
  <2>3. \A s \in Source : source[s] # None => source'[s] # None
    BY <2>1, <2>2, TenancyAssumption DEF Shape
  <2>4. \A s \in Source : source'[s] # None => Exists(source'[s])
    BY <2>1 DEF Shape, Integrity
  <2>5. \A p \in Pipeline : pipeline[p] # NoRow => pipeline[p].source \in Source
    BY DEF Shape, Rows
  <2>. QED
    BY <2>1, <2>3, <2>4, <2>5 DEF Integrity, Exists, Member
<1>7. CASE SavePipeline(r)
  <2>1. /\ UNCHANGED <<slug, role, source, log>>
        /\ pipeline' = [pipeline EXCEPT ![Row(r)] =
             [source |-> held[r].source, workspace |-> held[r].workspace]]
    BY <1>7 DEF SavePipeline
  <2>2. source[held[r].source] # None /\ Exists(held[r].workspace)
    BY <1>7 DEF SavePipeline, Allowed, SourceOp, Deletion
  <2>3. \A p \in Pipeline : pipeline'[p] # NoRow =>
          Exists(pipeline'[p].workspace) /\ source[pipeline'[p].source] # None
    BY <2>1, <2>2 DEF Shape, Integrity
  <2>. QED
    BY <2>1, <2>3 DEF Integrity, Exists, Member
<1>8. CASE DeleteWorkspace(r)
  <2> DEFINE w == Row(r)
             gone == {s \in Source : source[s] = w}
  <2>1. /\ slug' = [slug EXCEPT ![w] = 0]
        /\ role' = [role EXCEPT ![w] = [u \in User |-> "none"]]
        /\ source' = [s \in Source |-> IF s \in gone THEN None ELSE source[s]]
        /\ pipeline' = [p \in Pipeline |->
             IF pipeline[p].workspace = w \/ pipeline[p].source \in gone
               THEN NoRow ELSE pipeline[p]]
        /\ log' = {[e EXCEPT !.workspace = IF @ = w THEN None ELSE @] : e \in log}
    BY <1>8 DEF DeleteWorkspace
  <2>2. w \in Workspace
    BY <1>2, <1>8, CallTypes DEF DeleteWorkspace, Op, Row, WorkspaceOp
  <2> HIDE DEF w
  <2>3. \A v \in Workspace : Exists(v)' <=> v # w /\ Exists(v)
    BY <2>1, <2>2 DEF Exists, Shape
  <2>4. \A v, x \in Workspace : Exists(v)' /\ slug'[v] = slug'[x] => v = x
    BY <2>1, <2>2 DEF Exists, Shape, Integrity
  <2>5. \A v \in Workspace, u \in User : Member(u, v)' => Exists(v)'
    <3>1. \A v \in Workspace, u \in User : v # w => role'[v][u] = role[v][u]
      BY <2>1 DEF Shape
    <3>2. \A u \in User : role'[w][u] = "none"
      BY <2>1, <2>2 DEF Shape
    <3>. QED
      BY <2>3, <3>1, <3>2 DEF Member, Integrity
  <2>6. ASSUME NEW s \in Source, source'[s] # None
        PROVE  Exists(source[s])'
    <3>1. source'[s] = source[s] /\ source[s] # w /\ source[s] \in Workspace
      BY <2>1, <2>6 DEF Shape
    <3>. QED
      BY <2>3, <3>1, <2>6 DEF Integrity
  <2>7. ASSUME NEW p \in Pipeline, pipeline'[p] # NoRow
        PROVE  Exists(pipeline[p].workspace)' /\ source'[pipeline'[p].source] # None
    <3>1. /\ pipeline'[p] = pipeline[p] /\ pipeline[p].workspace # w
          /\ pipeline[p].source \notin gone /\ pipeline[p] \in Rows
      BY <2>1, <2>7 DEF Shape
    <3>2. source'[pipeline[p].source] = source[pipeline[p].source]
      BY <2>1, <3>1 DEF Rows
    <3>. QED
      BY <2>3, <2>7, <3>1, <3>2 DEF Integrity, Rows
  <2>8. ASSUME NEW e \in log', e.workspace # None
        PROVE  Exists(e.workspace)'
    <3>1. PICK d \in log : e = [d EXCEPT !.workspace = IF @ = w THEN None ELSE @]
      BY <2>1
    <3>2. d \in [request : Request, workspace : Workspace \cup {None}]
      BY DEF Shape
    <3>3. e.workspace = IF d.workspace = w THEN None ELSE d.workspace
      BY <3>1, <3>2
    <3>4. d.workspace # None /\ d.workspace # w /\ d.workspace \in Workspace
      BY <2>8, <3>2, <3>3
    <3>. QED
      BY <2>3, <3>3, <3>4 DEF Integrity
  <2>. QED
    BY <2>4, <2>5, <2>6, <2>7, <2>8 DEF Integrity
<1>9. CASE DeleteSource(r)
  <2>1. /\ UNCHANGED <<slug, role, log>>
        /\ source' = [source EXCEPT ![Row(r)] = None]
        /\ pipeline' = [p \in Pipeline |->
             IF pipeline[p].source = Row(r) THEN NoRow ELSE pipeline[p]]
    BY <1>9 DEF DeleteSource
  <2>2. ASSUME NEW p \in Pipeline, pipeline'[p] # NoRow
        PROVE  Exists(pipeline'[p].workspace) /\ source'[pipeline'[p].source] # None
    <3>1. pipeline'[p] = pipeline[p] /\ pipeline[p].source # Row(r) /\ pipeline[p] \in Rows
      BY <2>1, <2>2 DEF Shape
    <3>2. source'[pipeline[p].source] = source[pipeline[p].source]
      BY <2>1, <3>1 DEF Rows, Shape
    <3>. QED
      BY <2>2, <3>1, <3>2 DEF Integrity
  <2>3. \A s \in Source : source'[s] # None => source'[s] = source[s]
    BY <2>1 DEF Shape
  <2>. QED
    BY <2>1, <2>2, <2>3 DEF Integrity, Exists, Member
<1>10. CASE DeletePipeline(r)
  BY <1>10 DEF DeletePipeline, Integrity, Exists, Member, Shape
<1>11. CASE Audit(r)
  <2>1. /\ UNCHANGED tables /\ Exists(AuditWorkspace(r))
        /\ log' = log \cup {[request |-> r, workspace |-> AuditWorkspace(r)]}
    BY <1>11 DEF Audit
  <2>. QED
    BY <2>1 DEF Integrity, Exists, Member, tables
<1>. QED
  BY <1>1, <1>4, <1>5, <1>6, <1>7, <1>8, <1>9, <1>10, <1>11, StepCases DEF Saves, Deletes

-----------------------------------------------------------------------------
LEMMA HeldStep ==
  ASSUME Base, NEW r \in Request, Step(r)
  PROVE  HeldOK'
<1>. USE DEF Base
<1>. SUFFICES ASSUME NEW q \in Request
              PROVE  (HeldOK!1!(q))' /\ (HeldOK!2!(q))'
  BY DEF HeldOK
<1>1. CASE q # r
  BY <1>1, StepIsLocal DEF HeldOK, Served, Op
<1>. SUFFICES ASSUME q = r
              PROVE  (HeldOK!1!(r))' /\ (HeldOK!2!(r))'
  BY <1>1
<1>2. CASE Begins(r)
  <2>1. PICK u \in User, c \in Calls : Create(r, u, c) \/ LoadWorkspace(r, u, c)
                                        \/ LoadSource(r, u, c) \/ LoadPipeline(r, u, c)
    BY <1>2 DEF Begins
  <2>2. Op(r)' = c.op
    BY <2>1 DEF Create, LoadWorkspace, LoadSource, LoadPipeline, Begin, Op, Shape
  <2>3. pc'[r] \notin {"new", "member"}
    BY <2>1 DEF Create, LoadWorkspace, LoadSource, LoadPipeline, Begin, Goto, AfterLoad, Shape
  <2>4. CASE Create(r, u, c)
    BY <2>2, <2>3, <2>4 DEF Create, Begin, Goto, Shape, HeldOK, SourceOp, PipelineOp, Creation
  <2>5. CASE LoadWorkspace(r, u, c)
    BY <2>2, <2>3, <2>5 DEF LoadWorkspace, SourceOp, PipelineOp, WorkspaceOp
  <2>6. CASE LoadSource(r, u, c)
    <3>1. c.row \in Source /\ c.op \in SourceOp
      BY <2>6, CallTypes DEF LoadSource
    <3>2. held'[r].workspace = source[c.row] /\ source[c.row] \in Workspace
      BY <2>6, <3>1 DEF LoadSource, Keep, Blank, SeesSource, Shape
    <3>. QED
      BY <2>2, <2>3, <3>1, <3>2 DEF SourceOp, PipelineOp
  <2>7. CASE LoadPipeline(r, u, c)
    <3>1. PICK p \in Pipeline : SeesPipeline(u, p) /\ Keep(r,
            [slug |-> 1, source |-> pipeline[p].source, workspace |-> pipeline[p].workspace])
      BY <2>7, CallTypes DEF LoadPipeline, PipelineOp
    <3>2. pipeline[p].source \in Source /\ pipeline[p].workspace \in Workspace
      BY <3>1 DEF Shape, Rows, SeesPipeline
    <3>3. held'[r].source = pipeline[p].source /\ held'[r].workspace = pipeline[p].workspace
      BY <3>1 DEF Keep, Shape
    <3>4. c.op \in PipelineOp \ {"create_pipeline"}
      BY <2>7 DEF LoadPipeline
    <3>. QED
      BY <2>2, <2>3, <3>2, <3>3, <3>4 DEF SourceOp, PipelineOp
  <2>. QED
    BY <2>1, <2>4, <2>5, <2>6, <2>7
<1>. SUFFICES ASSUME ~Begins(r)
              PROVE  (HeldOK!1!(r))' /\ (HeldOK!2!(r))'
  BY <1>2
<1>3. Served(r) /\ call[r] \in Calls /\ UNCHANGED <<by, call, used>>
  BY Ongoing
<1>4. Op(r)' = Op(r)
  BY <1>3 DEF Op
<1>5. pc'[r] # "new"
  BY <1>3, StepCases DEF Checks, CheckOwner, CheckMember, CheckSource, ReadSource, TrySlug,
     Ends, IntegrityError, CascadeFails, AuditFails, Die, Saves, SaveWorkspace, SaveOwner,
     AddMember, RemoveMember, SaveSource, SavePipeline, Deletes, DeleteWorkspace,
     DeleteSource, DeletePipeline, Audit, Goto, Shape
<1>6. CASE Checks(r)
  <2>1. pc'[r] # "member"
    BY <1>6 DEF Checks, CheckOwner, CheckMember, CheckSource, ReadSource, TrySlug, Goto, Shape
  <2>2. CASE CheckOwner(r) \/ TrySlug(r)
    BY <1>4, <1>5, <2>1, <2>2 DEF CheckOwner, TrySlug, MemberOp, SourceOp, PipelineOp
  <2>3. CASE CheckMember(r)
    <3>1. call[r].of \in Workspace
      BY <1>3, <2>3, CallTypes DEF CheckMember, Op
    <3>2. held[r] \in HeldTypes
      BY DEF Shape
    <3>3. Served(r)' => held'[r].workspace = call[r].of
      BY <2>3, <3>2 DEF CheckMember, Served, Ended, Goto, Keep, HeldTypes, Shape
    <3>. QED
      BY <1>4, <1>5, <2>1, <2>3, <3>1, <3>3 DEF CheckMember, PipelineOp
  <2>4. CASE CheckSource(r)
    <3> DEFINE s == call[r].of
    <3>1. s \in Source
      BY <1>3, <2>4, CallTypes DEF CheckSource, Op
    <3>2. held[r] \in HeldTypes /\ source[s] \in Workspace \cup {None}
      BY <3>1 DEF Shape
    <3>3. Served(r)' => SeesSource(by[r], s) /\ pc'[r] = "write"
      BY <2>4 DEF CheckSource, Served, Ended, Goto, Shape
    <3>4. Served(r)' => /\ held'[r].source = s
                        /\ held'[r].workspace =
                             IF held[r].workspace = None THEN source[s] ELSE held[r].workspace
      BY <2>4, <3>2, <3>3 DEF CheckSource, Keep, HeldTypes, Shape
    <3>5. Served(r)' => held'[r].workspace \in Workspace
      BY <3>2, <3>3, <3>4 DEF SeesSource, HeldTypes
    <3>. QED
      BY <1>4, <1>5, <2>1, <2>4, <3>1, <3>3, <3>4, <3>5 DEF CheckSource, SourceOp
  <2>5. CASE ReadSource(r)
    <3>1. held[r].source \in Source
      BY <1>3, <2>5 DEF HeldOK, ReadSource, PipelineOp
    <3>2. held[r] \in HeldTypes /\ source[held[r].source] \in Workspace \cup {None}
      BY <3>1 DEF Shape
    <3>3. Served(r)' => held'[r].source = held[r].source /\ held'[r].workspace \in Workspace
      BY <2>5, <3>2 DEF ReadSource, Served, Ended, Goto, Keep, HeldTypes, Shape
    <3>. QED
      BY <1>4, <1>5, <2>1, <2>5, <3>1, <3>3 DEF ReadSource, SourceOp
  <2>. QED
    BY <1>6, <2>2, <2>3, <2>4, <2>5 DEF Checks
<1>7. CASE Ends(r)
  <2>1. ~Served(r)'
    BY <1>7 DEF Ends, IntegrityError, CascadeFails, AuditFails, Die, Goto, Served, Ended, Shape
  <2>. QED
    BY <1>5, <2>1
<1>8. CASE Saves(r) \/ Deletes(r) \/ Audit(r)
  <2>1. held' = held /\ pc[r] # "check" /\ pc'[r] # "check"
    BY <1>8 DEF Saves, SaveWorkspace, SaveOwner, AddMember, RemoveMember, SaveSource,
       SavePipeline, Deletes, DeleteWorkspace, DeleteSource, DeletePipeline, Audit, Goto, Shape
  <2>2. pc'[r] = "member" => Op(r) = "create_workspace"
    BY <1>8 DEF Saves, SaveWorkspace, SaveOwner, AddMember, RemoveMember, SaveSource,
       SavePipeline, Deletes, DeleteWorkspace, DeleteSource, DeletePipeline, Audit, Goto, Shape
  <2>. QED
    BY <1>3, <1>4, <1>5, <2>1, <2>2 DEF HeldOK
<1>. QED
  BY <1>6, <1>7, <1>8, StepCases

-----------------------------------------------------------------------------
(* A step of r writes only the row of r, or deletes. *)
LEMMA WorkspacesAreLocal ==
  ASSUME Base, NEW r \in Request, Step(r), NEW w \in Workspace,
         Begins(r) \/ Op(r) \notin WorkspaceOp \/ w # Row(r)
  PROVE  slug'[w] = slug[w] /\ role'[w] = role[w]
<1>1. CASE Begins(r) \/ Checks(r) \/ Ends(r)
  BY <1>1, Quiet
<1>. SUFFICES ASSUME ~Begins(r), ~Checks(r), ~Ends(r)
              PROVE  slug'[w] = slug[w] /\ role'[w] = role[w]
  BY <1>1
<1>2. CASE SaveWorkspace(r) \/ AddMember(r) \/ RemoveMember(r) \/ DeleteWorkspace(r)
  BY <1>2 DEF SaveWorkspace, AddMember, RemoveMember, DeleteWorkspace, WorkspaceOp, Base, Shape
<1>3. CASE SaveOwner(r)
  BY <1>3, Ongoing DEF SaveOwner, Goto, WorkspaceOp, HeldOK, Base, Shape
<1>4. CASE SaveSource(r) \/ SavePipeline(r) \/ DeleteSource(r) \/ DeletePipeline(r) \/ Audit(r)
  BY <1>4 DEF SaveSource, SavePipeline, DeleteSource, DeletePipeline, Audit, tables
<1>. QED
  BY <1>2, <1>3, <1>4, StepCases DEF Saves, Deletes

LEMMA SourcesAreLocal ==
  ASSUME Base, NEW r \in Request, Step(r), NEW s \in Source,
         source'[s] # source[s], source'[s] # None
  PROVE  SaveSource(r) /\ s = Row(r) /\ source'[s] = held[r].workspace
<1>1. ~Begins(r) /\ ~Checks(r) /\ ~Ends(r)
  BY Quiet
<1>2. CASE DeleteWorkspace(r) \/ DeleteSource(r)
  BY <1>2 DEF DeleteWorkspace, DeleteSource, Base, Shape
<1>3. CASE SaveWorkspace(r) \/ SaveOwner(r) \/ AddMember(r) \/ RemoveMember(r)
             \/ SavePipeline(r) \/ DeletePipeline(r) \/ Audit(r)
  BY <1>3 DEF SaveWorkspace, SaveOwner, AddMember, RemoveMember, SavePipeline, DeletePipeline,
     Audit, tables
<1>4. CASE SaveSource(r)
  BY <1>4 DEF SaveSource, Base, Shape
<1>. QED
  BY <1>1, <1>2, <1>3, <1>4, StepCases DEF Saves, Deletes

LEMMA PipelinesAreLocal ==
  ASSUME Base, NEW r \in Request, Step(r), NEW p \in Pipeline,
         pipeline'[p] # pipeline[p], pipeline'[p] # NoRow
  PROVE  /\ SavePipeline(r) /\ p = Row(r)
         /\ pipeline'[p] = [source |-> held[r].source, workspace |-> held[r].workspace]
<1>1. ~Begins(r) /\ ~Checks(r) /\ ~Ends(r)
  BY Quiet
<1>2. CASE DeleteWorkspace(r) \/ DeleteSource(r) \/ DeletePipeline(r)
  BY <1>2 DEF DeleteWorkspace, DeleteSource, DeletePipeline, Base, Shape
<1>3. CASE SaveWorkspace(r) \/ SaveOwner(r) \/ AddMember(r) \/ RemoveMember(r)
             \/ SaveSource(r) \/ Audit(r)
  BY <1>3 DEF SaveWorkspace, SaveOwner, AddMember, RemoveMember, SaveSource, Audit, tables
<1>4. CASE SavePipeline(r)
  BY <1>4 DEF SavePipeline, Base, Shape
<1>. QED
  BY <1>1, <1>2, <1>3, <1>4, StepCases DEF Saves, Deletes

-----------------------------------------------------------------------------
LEMMA KnownStep ==
  ASSUME Base, NEW r \in Request, Step(r), Shape'
  PROVE  Known'
<1>. USE DEF Base
<1>1. used \subseteq used' /\ Row(r)' \in used'
  <2>1. CASE Begins(r)
    <3>1. PICK u \in User, c \in Calls : Create(r, u, c) \/ LoadWorkspace(r, u, c)
                                          \/ LoadSource(r, u, c) \/ LoadPipeline(r, u, c)
      BY <2>1 DEF Begins
    <3>2. PICK to : Begin(r, u, c, to)
      BY <3>1 DEF Create, LoadWorkspace, LoadSource, LoadPipeline
    <3>3. Row(r)' = c.row
      BY <3>2 DEF Begin, Row, Shape
    <3>4. used' = IF c.op \in Creation THEN used \cup {c.row} ELSE used
      BY <3>2 DEF Begin
    <3>5. CASE c.op \in Creation
      BY <3>3, <3>4, <3>5
    <3>6. CASE c.op \notin Creation
      <4>1. ~Create(r, u, c)
        BY <3>6 DEF Create
      <4>2. c.op \in PipelineOp => c.op # "clone_pipeline" /\ c.row \in Pipeline
        BY <3>6, CallTypes DEF Creation
      <4>3. c.row \in used
        BY <3>1, <4>1, <4>2, CallTypes DEF LoadWorkspace, LoadSource, LoadPipeline, Known,
           SeesWorkspace, SeesSource, SeesPipeline
      <4>. QED
        BY <3>3, <3>4, <3>6, <4>3
    <3>. QED
      BY <3>5, <3>6
  <2>2. CASE ~Begins(r)
    BY <2>2, Ongoing DEF Known, Row, Served
  <2>. QED
    BY <2>1, <2>2
<1>2. \A q \in Request : pc'[q] # "new" => Row(q)' \in used'
  BY <1>1, StepIsLocal DEF Known, Row
<1>3. ASSUME NEW w \in Workspace, Exists(w)'
      PROVE  w \in used'
  BY <1>1, <1>3, WorkspacesAreLocal, Ongoing DEF Known, Exists, Row
<1>4. ASSUME NEW s \in Source, source'[s] # None
      PROVE  s \in used'
  <2>1. CASE source'[s] = source[s]
    BY <1>1, <1>4, <2>1 DEF Known
  <2>2. CASE source'[s] # source[s]
    <3>1. SaveSource(r) /\ s = Row(r)
      BY <1>4, <2>2, SourcesAreLocal
    <3>2. pc[r] # "new"
      BY <3>1 DEF SaveSource, Goto
    <3>. QED
      BY <1>1, <3>1, <3>2 DEF Known
  <2>. QED
    BY <2>1, <2>2
<1>5. ASSUME NEW p \in Pipeline, pipeline'[p] # NoRow
      PROVE  p \in used'
  <2>1. CASE pipeline'[p] = pipeline[p]
    BY <1>1, <1>5, <2>1 DEF Known
  <2>2. CASE pipeline'[p] # pipeline[p]
    <3>1. SavePipeline(r) /\ p = Row(r)
      BY <1>5, <2>2, PipelinesAreLocal
    <3>2. pc[r] # "new"
      BY <3>1 DEF SavePipeline, Goto
    <3>. QED
      BY <1>1, <3>1, <3>2 DEF Known
  <2>. QED
    BY <2>1, <2>2
<1>6. ASSUME NEW q \in Request, held'[q].source # None
      PROVE  held'[q].source \in used'
  <2>1. CASE q # r \/ held'[q].source = held[q].source
    BY <1>1, <1>6, <2>1, StepIsLocal DEF Known
  <2>2. CASE q = r /\ held'[r].source # held[r].source
    <3>1. CASE Begins(r)
      <4>1. PICK u \in User, c \in Calls : Create(r, u, c) \/ LoadWorkspace(r, u, c)
                                            \/ LoadSource(r, u, c) \/ LoadPipeline(r, u, c)
        BY <3>1 DEF Begins
      <4>2. ~Create(r, u, c)
        BY <2>2 DEF Create
      <4>3. ~LoadWorkspace(r, u, c) /\ ~LoadSource(r, u, c)
        BY <1>6, <2>2 DEF LoadWorkspace, LoadSource, Keep, Blank, Shape
      <4>4. PICK p \in Pipeline : SeesPipeline(u, p) /\ Keep(r,
              [slug |-> 1, source |-> pipeline[p].source, workspace |-> pipeline[p].workspace])
        BY <4>1, <4>2, <4>3, CallTypes DEF LoadPipeline, PipelineOp
      <4>5. held'[r].source = pipeline[p].source /\ pipeline[p].source \in Source
        BY <4>4 DEF SeesPipeline, Keep, Shape, Rows
      <4>6. source[pipeline[p].source] # None
        BY <4>4 DEF SeesPipeline, Integrity
      <4>. QED
        BY <1>1, <2>2, <4>5, <4>6 DEF Known
    <3>2. CASE CheckSource(r)
      <4>1. call[r].of \in Source
        BY <3>2, Ongoing, CallTypes, StepCases DEF CheckSource, Op, Begins, Begin, Goto, Create,
           LoadWorkspace, LoadSource, LoadPipeline
      <4>2. held[r] \in HeldTypes
        BY DEF Shape
      <4>3. held'[r].source = call[r].of /\ SeesSource(by[r], call[r].of)
        BY <2>2, <3>2, <4>2 DEF CheckSource, Keep, Shape, HeldTypes
      <4>. QED
        BY <1>1, <2>2, <4>1, <4>3 DEF Known, SeesSource
    <3>3. CASE ~CheckSource(r) /\ Checks(r)
      <4>1. held[r] \in HeldTypes
        BY DEF Shape
      <4>. QED
        BY <2>2, <3>3, <4>1 DEF Checks, CheckOwner, CheckMember, ReadSource, TrySlug, Keep,
           Shape, HeldTypes
    <3>4. CASE Ends(r)
      BY <1>6, <2>2, <3>4 DEF Ends, IntegrityError, CascadeFails, AuditFails, Die, Keep, Blank, Shape
    <3>5. CASE Saves(r) \/ Deletes(r) \/ Audit(r)
      BY <2>2, <3>5 DEF Saves, SaveWorkspace, SaveOwner, AddMember, RemoveMember, SaveSource,
         SavePipeline, Deletes, DeleteWorkspace, DeleteSource, DeletePipeline, Audit
    <3>. QED
      BY <3>1, <3>2, <3>3, <3>4, <3>5, StepCases
  <2>. QED
    BY <2>1, <2>2
<1>. QED
  BY <1>2, <1>3, <1>4, <1>5, <1>6 DEF Known

LEMMA FreshStep ==
  ASSUME Base, NEW r \in Request, Step(r), Shape'
  PROVE  Fresh'
<1>. USE DEF Base
<1> DEFINE Creating(q) == Served(q) /\ Op(q) = "create_workspace" /\ pc[q] # "audit"
<1>. SUFFICES ASSUME NEW q \in Request, Creating(q)'
              PROVE  (/\ \A u \in User : ~Member(u, Row(q))
                      /\ pc[q] = "member" => Exists(Row(q))
                      /\ \A x \in Request \ {q} :
                           pc[x] # "new" /\ Op(x) \in WorkspaceOp => Row(x) # Row(q))'
  BY DEF Fresh
<1>0. pc'[q] # "new" /\ call'[q] \in Calls /\ Row(q)' \in Workspace
  BY CallTypes DEF Shape, Served, Op, Row, WorkspaceOp
<1>1. CASE q = r /\ Begins(r)
  <2>1. PICK u \in User, c \in Calls : Create(r, u, c) \/ LoadWorkspace(r, u, c)
                                        \/ LoadSource(r, u, c) \/ LoadPipeline(r, u, c)
    BY <1>1 DEF Begins
  <2>2. Row(r)' = c.row /\ Op(r)' = c.op
    BY <2>1 DEF Create, LoadWorkspace, LoadSource, LoadPipeline, Begin, Row, Op, Shape
  <2>3. Create(r, u, c)
    BY <1>1, <2>1, <2>2 DEF LoadWorkspace, LoadSource, LoadPipeline, Creation, SourceOp, PipelineOp
  <2>4. c.row \notin used /\ c.row \in Workspace /\ pc'[r] = "check"
    BY <1>0, <1>1, <2>2, <2>3 DEF Create, Begin, Goto, Shape, Creation
  <2>5. \A u1 \in User : ~Member(u1, c.row)
    BY <2>4 DEF Integrity, Known
  <2>6. \A x \in Request \ {r} : pc[x] # "new" => Row(x) # c.row
    BY <2>4 DEF Known
  <2>7. role' = role
    BY <1>1, Quiet
  <2>. QED
    BY <1>1, <2>2, <2>4, <2>5, <2>6, <2>7, StepIsLocal DEF Member, Row
<1>2. CASE q = r /\ ~Begins(r)
  <2>1. Creating(r) /\ Row(r)' = Row(r)
    <3>1. Served(r) /\ Op(r)' = Op(r) /\ Row(r)' = Row(r)
      BY <1>2, Ongoing DEF Op, Row
    <3>2. pc[r] # "audit"
      BY <1>2, <3>1, StepCases DEF Checks, CheckOwner, CheckMember, CheckSource, ReadSource,
         TrySlug, Ends, IntegrityError, CascadeFails, AuditFails, Die, Saves, SaveWorkspace,
         SaveOwner, AddMember, RemoveMember, SaveSource, SavePipeline, Deletes, DeleteWorkspace,
         DeleteSource, DeletePipeline, Audit, Goto, Served, Ended, Shape, Deletion
    <3>. QED
      BY <1>2, <3>1, <3>2
  <2>2. \A x \in Request \ {r} : pc'[x] # "new" /\ Op(x)' \in WorkspaceOp => Row(x)' # Row(r)'
    BY <2>1, StepIsLocal DEF Fresh, Op, Row
  <2>3. ~SaveOwner(r)
    BY <1>2 DEF SaveOwner, Goto, Shape
  <2>4. role' = role
    BY <1>2, <2>1, <2>3, Quiet, StepCases DEF Saves, SaveWorkspace, AddMember, RemoveMember,
       SaveSource, SavePipeline, Deletes, DeleteWorkspace, DeleteSource, DeletePipeline, Audit,
       tables, MemberOp
  <2>5. pc'[r] = "member" => Exists(Row(r))'
    <3>. SUFFICES ASSUME pc'[r] = "member"
                  PROVE  slug'[Row(r)] # 0
      BY <2>1 DEF Exists
    <3>1. SaveWorkspace(r)
      BY <1>2, <2>1, StepCases DEF Checks, CheckOwner, CheckMember, CheckSource, ReadSource,
         TrySlug, Ends, IntegrityError, CascadeFails, AuditFails, Die, Saves,
         SaveOwner, AddMember, RemoveMember, SaveSource, SavePipeline, Deletes, DeleteWorkspace,
         DeleteSource, DeletePipeline, Audit, Goto, Shape
    <3>2. slug' = [slug EXCEPT ![Row(r)] = held[r].slug] /\ held[r] \in HeldTypes
      BY <3>1 DEF SaveWorkspace, Shape
    <3>3. Row(r) \in Workspace
      BY <1>0, <1>2, <2>1
    <3>. QED
      BY <3>2, <3>3 DEF HeldTypes, Shape
  <2>. QED
    BY <1>2, <2>1, <2>2, <2>4, <2>5 DEF Fresh, Member
<1>3. CASE q # r
  <2>1. pc'[q] = pc[q] /\ Op(q)' = Op(q) /\ Row(q)' = Row(q)
    BY <1>3, StepIsLocal DEF Op, Row
  <2>2. Creating(q)
    BY <2>1 DEF Served
  <2>3. Begins(r) => Op(r)' \notin WorkspaceOp \/ Row(r)' # Row(q)
    <3>. SUFFICES ASSUME Begins(r), Op(r)' \in WorkspaceOp
                  PROVE  Row(r)' # Row(q)
      OBVIOUS
    <3>1. PICK u \in User, c \in Calls : Create(r, u, c) \/ LoadWorkspace(r, u, c)
                                          \/ LoadSource(r, u, c) \/ LoadPipeline(r, u, c)
      BY DEF Begins
    <3>2. Row(r)' = c.row /\ Op(r)' = c.op
      BY <3>1 DEF Create, LoadWorkspace, LoadSource, LoadPipeline, Begin, Row, Op, Shape
    <3>3. CASE Create(r, u, c)
      BY <1>0, <2>1, <3>2, <3>3 DEF Create, Begin, Known
    <3>4. CASE LoadWorkspace(r, u, c)
      BY <2>2, <3>2, <3>4 DEF LoadWorkspace, SeesWorkspace, Fresh
    <3>. QED
      BY <3>1, <3>2, <3>3, <3>4 DEF LoadSource, LoadPipeline, SourceOp, PipelineOp, WorkspaceOp
  <2>4. ~Begins(r) /\ Op(r) \in WorkspaceOp => Row(r) # Row(q)
    BY <1>3, <2>2, Ongoing DEF Fresh, Served
  <2>5. slug'[Row(q)] = slug[Row(q)] /\ role'[Row(q)] = role[Row(q)]
    BY <1>0, <2>1, <2>4, WorkspacesAreLocal
  <2>6. \A x \in Request \ {q} : pc'[x] # "new" /\ Op(x)' \in WorkspaceOp => Row(x)' # Row(q)
    <3>1. ~Begins(r) => pc[r] # "new" /\ Op(r)' = Op(r) /\ Row(r)' = Row(r)
      BY Ongoing DEF Served, Op, Row
    <3>2. Op(r)' \in WorkspaceOp => Row(r)' # Row(q)
      BY <2>3, <2>4, <3>1
    <3>3. \A x \in Request \ {q, r} : pc[x] # "new" /\ Op(x) \in WorkspaceOp => Row(x) # Row(q)
      BY <2>2 DEF Fresh
    <3>. QED
      BY <3>2, <3>3, StepIsLocal DEF Op, Row
  <2>. QED
    BY <2>1, <2>2, <2>5, <2>6 DEF Fresh, Member, Exists
<1>. QED
  BY <1>1, <1>2, <1>3

LEMMA BaseStep ==
  ASSUME Base, [Next]_vars
  PROVE  Base'
<1>1. CASE UNCHANGED vars
  BY <1>1 DEF vars, tables, request, history, Base, Shape, Integrity, HeldOK, Known, Fresh,
     Exists, Member, Served, Op, Row
<1>2. CASE Next
  <2>1. PICK r \in Request : Step(r) /\ Witness
    BY <1>2 DEF Next
  <2>2. Shape'
    BY <2>1, ShapeStep
  <2>. QED
    BY <2>1, <2>2, IntegrityStep, HeldStep, KnownStep, FreshStep DEF Base
<1>. QED
  BY <1>1, <1>2

LEMMA BaseAlways == Spec => []Base
BY BaseInit, BaseStep, PTL DEF Spec

(* Types, foreign keys and unique constraints, for every set of users,     *)
(* workspaces, sources, pipelines and requests: no order of statements,    *)
(* late save or cascade leaves a row that points at nothing.               *)
THEOREM TypeCorrect == Spec => []TypeOK
<1>1. Base => TypeOK
  BY DEF Base, TypeOK
<1>. QED
  BY <1>1, BaseAlways, PTL

-----------------------------------------------------------------------------
(* The workspace a source was made in is its home, and until the source is *)
(* moved whatever a table or a request says of it agrees.                  *)
Homes(h, r) ==
  LET s == held[r].source
      w == held[r].workspace
  IN /\ Op(r) = "create_source" => call[r].of = h[Row(r)]
     /\ Op(r) = "create_source" /\ pc[r] # "check" => w = h[Row(r)]
     /\ Op(r) = "patch_source" => Row(r) \in moved \/ w = h[Row(r)]
     /\ Op(r) \in {"create_pipeline", "clone_pipeline"} /\ pc[r] # "check" =>
          s \in moved \/ w = h[s]
     /\ Op(r) = "clone_pipeline" /\ pc[r] = "check" =>
          {s, call[r].of} \cap moved # {} \/ w = h[s]
     /\ Op(r) = "patch_pipeline" => {s, Row(r)} \cap moved # {} \/ w = h[s]

Faithful(h) ==
  /\ \A s \in Source : s \in moved \/ source[s] \in {None, h[s]}
  /\ \A p \in Pipeline :
       \/ pipeline[p] = NoRow
       \/ {p, pipeline[p].source} \cap moved # {}
       \/ pipeline[p].workspace = h[pipeline[p].source]
  /\ \A r \in Request : Served(r) => Homes(h, r)

HasHomes == \E h \in [Source -> Workspace \cup {None}] : Faithful(h)

(* A source nobody knows of yet may have any home. *)
LEMMA NewHome ==
  ASSUME Base, NEW h \in [Source -> Workspace \cup {None}], Faithful(h),
         NEW s \in Source, s \notin used, NEW w \in Workspace
  PROVE  Faithful([h EXCEPT ![s] = w])
<1> DEFINE k == [h EXCEPT ![s] = w]
<1>1. \A t \in Source : t # s => k[t] = h[t]
  OBVIOUS
<1>2. source[s] = None
  BY DEF Base, Known
<1>3. \A t \in Source : t \in moved \/ source[t] \in {None, k[t]}
  BY <1>1, <1>2 DEF Faithful
<1>4. ASSUME NEW p \in Pipeline, pipeline[p] # NoRow
      PROVE  pipeline[p].source \in Source \ {s}
  BY <1>2, <1>4 DEF Base, Shape, Integrity, Rows
<1>5. ASSUME NEW r \in Request, Served(r)
      PROVE  Homes(k, r)
  <2>1. Row(r) # s /\ held[r].source # s
    BY <1>5, TenancyAssumption DEF Base, Known, Served
  <2>2. call[r] \in Calls
    BY <1>5 DEF Served, Base, Shape
  <2>3. Op(r) \in {"create_source", "patch_source"} => k[Row(r)] = h[Row(r)]
    BY <1>1, <2>1, <2>2, CallTypes DEF Op, Row, SourceOp
  <2>4. \/ Op(r) = "create_pipeline" /\ pc[r] # "check"
        \/ Op(r) \in {"clone_pipeline", "patch_pipeline"}
        => k[held[r].source] = h[held[r].source]
    BY <1>1, <1>5, <2>1 DEF Base, HeldOK, PipelineOp
  <2>5. Homes(h, r)
    BY <1>5 DEF Faithful
  <2> HIDE DEF k
  <2>. QED
    BY <2>3, <2>4, <2>5 DEF Homes
<1> HIDE DEF k
<1>6. Faithful(k)
  BY <1>1, <1>3, <1>4, <1>5 DEF Faithful
<1>. QED
  BY <1>6 DEF k

LEMMA HomesStep ==
  ASSUME Base, Base', NEW r \in Request, Step(r),
         NEW h \in [Source -> Workspace \cup {None}], Faithful(h),
         moved \subseteq moved',
         Begins(r) /\ Op(r)' = "create_source" => call'[r].of = h[Row(r)'],
         NEW q \in Request, Served(q)'
  PROVE  Homes(h, q)'
<1>1. CASE q # r
  <2>1. /\ pc'[q] = pc[q] /\ held'[q] = held[q] /\ call'[q] = call[q]
        /\ Op(q)' = Op(q) /\ Row(q)' = Row(q) /\ Served(q)
    BY <1>1, StepIsLocal DEF Op, Row, Served, Base
  <2>2. Homes(h, q)
    BY <2>1 DEF Faithful
  <2>. QED
    BY <2>1, <2>2 DEF Homes
<1>. SUFFICES ASSUME q = r
              PROVE  Homes(h, r)'
  BY <1>1
<1>2. CASE Begins(r)
  <2>1. PICK u \in User, c \in Calls : Create(r, u, c) \/ LoadWorkspace(r, u, c)
                                        \/ LoadSource(r, u, c) \/ LoadPipeline(r, u, c)
    BY <1>2 DEF Begins
  <2>2. call'[r] = c /\ Row(r)' = c.row /\ Op(r)' = c.op /\ moved' = moved
    BY <2>1 DEF Create, LoadWorkspace, LoadSource, LoadPipeline, Begin, Row, Op, Base, Shape, history
  <2>3. CASE Create(r, u, c)
    <3>1. c.op \in {"create_workspace", "create_source", "create_pipeline"} /\ pc'[r] = "check"
      BY <2>3 DEF Create, Creation, Begin, Goto, Base, Shape
    <3>. QED
      BY <1>2, <2>2, <3>1 DEF Homes
  <2>4. CASE LoadWorkspace(r, u, c)
    BY <2>2, <2>4 DEF LoadWorkspace, WorkspaceOp, Homes
  <2>5. CASE LoadSource(r, u, c)
    <3>1. c.row \in Source /\ c.op \in SourceOp \ {"create_source"}
      BY <2>5, CallTypes DEF LoadSource, Creation
    <3>2. held'[r].workspace = source[c.row] /\ source[c.row] # None
      BY <2>5, <3>1 DEF LoadSource, Keep, Blank, SeesSource, Base, Shape
    <3>3. c.row \in moved \/ source[c.row] = h[c.row]
      BY <3>1, <3>2 DEF Faithful
    <3>. QED
      BY <2>2, <3>1, <3>2, <3>3 DEF Homes, SourceOp
  <2>6. CASE LoadPipeline(r, u, c)
    <3> DEFINE p == IF c.op = "clone_pipeline" THEN c.of ELSE c.row
    <3>1. /\ c.op \in PipelineOp \ {"create_pipeline"}
          /\ p \in Pipeline /\ pipeline[p] # NoRow
          /\ held'[r].source = pipeline[p].source /\ held'[r].workspace = pipeline[p].workspace
      BY <2>6, CallTypes DEF LoadPipeline, SeesPipeline, Keep, PipelineOp, Base, Shape
    <3>2. c.op = "clone_pipeline" => pc'[r] = "check"
      BY <2>6 DEF LoadPipeline, Begin, Goto, AfterLoad, Deletion, Base, Shape
    <3>3. {p, pipeline[p].source} \cap moved # {} \/ pipeline[p].workspace = h[pipeline[p].source]
      BY <3>1 DEF Faithful
    <3>. QED
      BY <2>2, <3>1, <3>2, <3>3 DEF Homes, PipelineOp
  <2>. QED
    BY <2>1, <2>3, <2>4, <2>5, <2>6
<1>. SUFFICES ASSUME ~Begins(r)
              PROVE  Homes(h, r)'
  BY <1>2
<1>3. /\ Served(r) /\ call'[r] = call[r] /\ Op(r)' = Op(r) /\ Row(r)' = Row(r)
      /\ call[r] \in Calls
  BY Ongoing DEF Op, Row, Base
<1>4. Homes(h, r)
  BY <1>3 DEF Faithful
<1>5. CASE CheckMember(r)
  <2>1. held'[r].workspace = call[r].of
    BY <1>5 DEF CheckMember, Served, Ended, Goto, Keep, HeldTypes, Base, Shape
  <2>. QED
    BY <1>3, <1>4, <1>5, <2>1 DEF CheckMember, Homes
<1>6. CASE CheckSource(r)
  <2> DEFINE s == call[r].of
  <2>1. s \in Source /\ held[r] \in HeldTypes
    BY <1>3, <1>6, CallTypes DEF CheckSource, Op, Base, Shape
  <2>2. /\ SeesSource(by[r], s) /\ held'[r].source = s
        /\ held[r].workspace = None => held'[r].workspace = source[s]
    BY <1>6, <2>1 DEF CheckSource, Served, Ended, Goto, Keep, HeldTypes, Base, Shape
  <2>3. s \in moved \/ source[s] = h[s]
    BY <2>1, <2>2 DEF SeesSource, Faithful
  <2>4. Op(r) = "create_pipeline" => held[r].workspace = None
    BY <1>3, <1>6 DEF CheckSource, Goto, Base, HeldOK
  <2>. QED
    BY <1>3, <1>6, <2>2, <2>3, <2>4 DEF CheckSource, Homes
<1>7. CASE ReadSource(r)
  <2> DEFINE s == held[r].source
  <2>1. s \in Source /\ held[r] \in HeldTypes
    BY <1>3, <1>7 DEF ReadSource, PipelineOp, Base, HeldOK, Shape
  <2>2. source[s] # None /\ held'[r].source = s /\ held'[r].workspace = source[s] /\ pc'[r] = "write"
    BY <1>7, <2>1 DEF ReadSource, Served, Ended, Goto, Keep, HeldTypes, Base, Shape
  <2>3. s \in moved \/ source[s] = h[s]
    BY <2>1, <2>2 DEF Faithful
  <2>. QED
    BY <1>3, <1>7, <2>2, <2>3 DEF ReadSource, Homes
<1>8. CASE CheckOwner(r) \/ TrySlug(r)
  BY <1>3, <1>8 DEF CheckOwner, TrySlug, MemberOp, Homes
<1>9. CASE Ends(r)
  BY <1>9 DEF Ends, IntegrityError, CascadeFails, AuditFails, Die, Goto, Served, Ended, Base, Shape
<1>10. CASE Saves(r) \/ Deletes(r) \/ Audit(r)
  <2>1. held' = held /\ pc[r] # "check" /\ pc'[r] # "check"
    BY <1>10 DEF Saves, SaveWorkspace, SaveOwner, AddMember, RemoveMember, SaveSource,
       SavePipeline, Deletes, DeleteWorkspace, DeleteSource, DeletePipeline, Audit, Goto, Base, Shape
  <2>. QED
    BY <1>3, <1>4, <2>1 DEF Homes
<1>. QED
  BY <1>5, <1>6, <1>7, <1>8, <1>9, <1>10, StepCases DEF Checks

LEMMA FaithfulStep ==
  ASSUME Base, Base', NEW r \in Request, Step(r),
         NEW h \in [Source -> Workspace \cup {None}], Faithful(h),
         Begins(r) /\ Op(r)' = "create_source" => call'[r].of = h[Row(r)']
  PROVE  Faithful(h)'
<1>1. moved \subseteq moved'
  <2>1. CASE Begins(r) \/ Checks(r) \/ Ends(r)
    BY <2>1, Quiet
  <2>2. CASE Saves(r) \/ Deletes(r) \/ Audit(r)
    BY <2>2 DEF Saves, SaveWorkspace, SaveOwner, AddMember, RemoveMember, SaveSource,
       SavePipeline, Deletes, DeleteWorkspace, DeleteSource, DeletePipeline, Audit, history
  <2>. QED
    BY <2>1, <2>2, StepCases
<1>2. ASSUME NEW s \in Source, source'[s] # None, s \notin moved'
      PROVE  source'[s] = h[s]
  <2>1. CASE source'[s] = source[s]
    BY <1>1, <1>2, <2>1 DEF Faithful
  <2>2. CASE source'[s] # source[s]
    <3>1. SaveSource(r) /\ s = Row(r) /\ source'[s] = held[r].workspace
      BY <1>2, <2>2, SourcesAreLocal
    <3>2. Op(r) \in {"create_source", "patch_source"} /\ pc[r] = "write"
      BY <1>2, <3>1 DEF SaveSource, Goto, SourceOp, Deletion
    <3>3. Homes(h, r)
      BY <3>2 DEF Faithful, Served, Ended
    <3>. QED
      BY <1>1, <1>2, <3>1, <3>2, <3>3 DEF Homes
  <2>. QED
    BY <2>1, <2>2
<1>3. ASSUME NEW p \in Pipeline, pipeline'[p] # NoRow,
             {p, pipeline'[p].source} \cap moved' = {}
      PROVE  pipeline'[p].workspace = h[pipeline'[p].source]
  <2>1. CASE pipeline'[p] = pipeline[p]
    BY <1>1, <1>3, <2>1 DEF Faithful
  <2>2. CASE pipeline'[p] # pipeline[p]
    <3>1. /\ SavePipeline(r) /\ p = Row(r)
          /\ pipeline'[p] = [source |-> held[r].source, workspace |-> held[r].workspace]
      BY <1>3, <2>2, PipelinesAreLocal
    <3>2. Op(r) \in {"create_pipeline", "clone_pipeline", "patch_pipeline"} /\ pc[r] = "write"
      BY <1>3, <3>1 DEF SavePipeline, Goto, PipelineOp, Deletion
    <3>3. Homes(h, r)
      BY <3>2 DEF Faithful, Served, Ended
    <3>. QED
      BY <1>1, <1>3, <3>1, <3>2, <3>3 DEF Homes
  <2>. QED
    BY <2>1, <2>2
<1>4. \A q \in Request : Served(q)' => Homes(h, q)'
  BY <1>1, HomesStep
<1>. QED
  BY <1>2, <1>3, <1>4 DEF Faithful

LEMMA HasHomesStep ==
  ASSUME Base, Base', HasHomes, [Next]_vars
  PROVE  HasHomes'
<1>1. PICK h \in [Source -> Workspace \cup {None}] : Faithful(h)
  BY DEF HasHomes
<1>2. CASE UNCHANGED vars
  <2>1. Faithful(h)'
    BY <1>1, <1>2 DEF vars, tables, request, history, Faithful, Homes, Served, Op, Row
  <2>. QED
    BY <2>1 DEF HasHomes
<1>3. CASE Next
  <2>1. PICK r \in Request : Step(r)
    BY <1>3 DEF Next
  <2>2. CASE Begins(r) /\ Op(r)' = "create_source"
    <3>1. PICK s \in Source, w \in Workspace :
            s \notin used /\ s = Row(r)' /\ w = call'[r].of
      <4>1. PICK u \in User, c \in Calls : Create(r, u, c) \/ LoadWorkspace(r, u, c)
                                            \/ LoadSource(r, u, c) \/ LoadPipeline(r, u, c)
        BY <2>2 DEF Begins
      <4>2. Row(r)' = c.row /\ Op(r)' = c.op /\ call'[r] = c
        BY <4>1 DEF Create, LoadWorkspace, LoadSource, LoadPipeline, Begin, Row, Op, Base, Shape
      <4>3. Create(r, u, c)
        BY <2>2, <4>1, <4>2 DEF LoadWorkspace, LoadSource, LoadPipeline, Creation, WorkspaceOp, PipelineOp
      <4>. QED
        BY <2>2, <4>2, <4>3, CallTypes DEF Create, Begin, SourceOp, Creation
    <3> DEFINE k == [h EXCEPT ![s] = w]
    <3>2. Faithful(k)
      BY <1>1, <3>1, NewHome
    <3>3. k \in [Source -> Workspace \cup {None}] /\ k[s] = w
      OBVIOUS
    <3> HIDE DEF k
    <3>4. Faithful(k)'
      BY <2>1, <3>1, <3>2, <3>3, FaithfulStep
    <3>. QED
      BY <3>3, <3>4 DEF HasHomes
  <2>3. CASE ~(Begins(r) /\ Op(r)' = "create_source")
    <3>1. Faithful(h)'
      BY <1>1, <2>1, <2>3, FaithfulStep
    <3>. QED
      BY <3>1 DEF HasHomes
  <2>. QED
    BY <2>2, <2>3
<1>. QED
  BY <1>2, <1>3

LEMMA HasHomesInit == Init => HasHomes
<1> SUFFICES ASSUME Init PROVE HasHomes
  OBVIOUS
<1> DEFINE h == [s \in Source |-> source[s]]
<1>1. h \in [Source -> Workspace \cup {None}]
  BY DEF Init
<1>2. Faithful(h)
  <2>1. \A p \in Pipeline : pipeline[p] = NoRow \/ pipeline[p].source \in Source
    BY DEF Init, Rows
  <2>. QED
    BY <2>1 DEF Init, Faithful, Served
<1>. QED
  BY <1>1, <1>2 DEF HasHomes

(* A pipeline stays in the workspace of its source, whatever is stored,    *)
(* copied, saved late or deleted, unless one of the two is moved.  A       *)
(* request has the workspace in memory from before its write, so what      *)
(* makes this inductive is that memory and tables agree on one home per    *)
(* source.                                                                 *)
THEOREM FollowsSource == Spec => []PipelineFollowsSource
<1>1. Base /\ HasHomes => PipelineFollowsSource
  <2>. SUFFICES ASSUME Base, HasHomes, NEW p \in Pipeline, pipeline[p] # NoRow,
                       p \notin moved, pipeline[p].source \notin moved
                PROVE  pipeline[p].workspace = source[pipeline[p].source]
    BY DEF PipelineFollowsSource
  <2>1. PICK h \in [Source -> Workspace \cup {None}] : Faithful(h)
    BY DEF HasHomes
  <2>2. pipeline[p].source \in Source /\ source[pipeline[p].source] # None
    BY DEF Base, Shape, Integrity, Rows
  <2>. QED
    BY <2>1, <2>2 DEF Faithful
<1>. QED
  BY <1>1, BaseAlways, HasHomesInit, HasHomesStep, PTL DEF Spec

-----------------------------------------------------------------------------
(* The audit log *)
Logged(r)  == \E e \in log : e.request = r
Gone(w)    == \E q \in Request :
                pc[q] = "done" /\ Op(q) = "delete_workspace" /\ Row(q) = w
Targeted(r) == Served(r) /\ \/ Op(r) = "remove_member"
                            \/ pc[r] = "audit" /\ Op(r) \notin Deletion

Trail ==
  \A r \in Request :
    /\ pc[r] = "done" /\ Op(r) \notin Unaudited => Logged(r)
    /\ pc[r] = "write" /\ Op(r) \in Deletion \ Unaudited => Logged(r)
    /\ Targeted(r) => Exists(AuditWorkspace(r)) \/ Gone(AuditWorkspace(r))
    /\ pc[r] = "unaudited" => Gone(AuditWorkspace(r))

(* What is logged stays logged, and a workspace only ever goes by a        *)
(* request that then has deleted it.                                       *)
LEMMA LogStays ==
  ASSUME Base, NEW r \in Request, Step(r), NEW q \in Request, Logged(q)
  PROVE  Logged(q)'
<1>1. PICK e \in log : e.request = q
  BY DEF Logged
<1>2. CASE DeleteWorkspace(r)
  <2> DEFINE d == [e EXCEPT !.workspace = IF @ = Row(r) THEN None ELSE @]
  <2>1. e \in [request : Request, workspace : Workspace \cup {None}]
    BY DEF Base, Shape
  <2>2. d.request = q
    BY <1>1, <2>1
  <2>3. d \in log'
    BY <1>2 DEF DeleteWorkspace
  <2>. QED
    BY <2>2, <2>3 DEF Logged
<1>3. CASE Audit(r)
  BY <1>1, <1>3 DEF Audit, Logged
<1>4. CASE ~DeleteWorkspace(r) /\ ~Audit(r)
  <2>1. log' = log
    BY <1>4, Quiet, StepCases DEF Saves, SaveWorkspace, SaveOwner, AddMember, RemoveMember,
       SaveSource, SavePipeline, Deletes, DeleteSource, DeletePipeline
  <2>. QED
    BY <2>1 DEF Logged
<1>. QED
  BY <1>2, <1>3, <1>4

LEMMA GoneOrThere ==
  ASSUME Base, NEW r \in Request, Step(r), NEW w \in Workspace, Exists(w) \/ Gone(w)
  PROVE  Exists(w)' \/ Gone(w)'
<1>1. CASE Gone(w)
  <2>1. PICK q \in Request : pc[q] = "done" /\ Op(q) = "delete_workspace" /\ Row(q) = w
    BY <1>1 DEF Gone
  <2>2. q # r
    BY <2>1, Ongoing, StepCases DEF Served, Ended, Begins, Create, LoadWorkspace, LoadSource,
       LoadPipeline, Begin, Goto, Base
  <2>. QED
    BY <2>1, <2>2, StepIsLocal DEF Gone, Op, Row, Base
<1>2. CASE Exists(w) /\ DeleteWorkspace(r) /\ Row(r) = w
  <2>1. pc'[r] = "done" /\ Op(r) = "delete_workspace"
    BY <1>2 DEF DeleteWorkspace, Goto, Base, Shape
  <2>2. Op(r)' = Op(r) /\ Row(r)' = Row(r)
    BY <1>2 DEF DeleteWorkspace, request, Op, Row
  <2>. QED
    BY <1>2, <2>1, <2>2 DEF Gone
<1>3. CASE Exists(w) /\ SaveWorkspace(r) /\ Row(r) = w
  BY <1>3 DEF SaveWorkspace, HeldTypes, Exists, Base, Shape
<1>4. CASE Exists(w) /\ ~SaveWorkspace(r) /\ ~(DeleteWorkspace(r) /\ Row(r) = w)
  <2>1. slug'[w] = slug[w]
    BY <1>4, Quiet, StepCases DEF Saves, SaveOwner, AddMember, RemoveMember, SaveSource,
       SavePipeline, Deletes, DeleteWorkspace, DeleteSource, DeletePipeline, Audit, tables, Base, Shape
  <2>. QED
    BY <1>4, <2>1 DEF Exists
<1>. QED
  BY <1>1, <1>2, <1>3, <1>4, WorkspacesAreLocal DEF Exists

LEMMA TrailStep ==
  ASSUME Base, Base', Trail, NEW r \in Request, Step(r)
  PROVE  Trail'
<1>. SUFFICES ASSUME NEW q \in Request
              PROVE  (/\ pc[q] = "done" /\ Op(q) \notin Unaudited => Logged(q)
                      /\ pc[q] = "write" /\ Op(q) \in Deletion \ Unaudited => Logged(q)
                      /\ Targeted(q) => Exists(AuditWorkspace(q)) \/ Gone(AuditWorkspace(q))
                      /\ pc[q] = "unaudited" => Gone(AuditWorkspace(q)))'
  BY DEF Trail
<1>0. ASSUME NEW x \in Request, Targeted(x) \/ pc[x] = "unaudited"
      PROVE  call[x] \in Calls
  BY <1>0 DEF Targeted, Served, Base, Shape
<1>1. CASE q # r
  <2>1. /\ pc'[q] = pc[q] /\ Op(q)' = Op(q) /\ Served(q)' = Served(q)
        /\ AuditWorkspace(q)' = AuditWorkspace(q)
    BY <1>1, StepIsLocal DEF Op, Row, Served, AuditWorkspace, Base
  <2>2. Targeted(q) => AuditWorkspace(q) \in Workspace
    BY CallTypes DEF Targeted, Served, Base, Shape, HeldOK, AuditWorkspace, Op, Row,
       WorkspaceOp, SourceOp, PipelineOp
  <2>. QED
    <3>1. (pc[q] = "done" /\ Op(q) \notin Unaudited => Logged(q))'
      BY <2>1, LogStays DEF Trail
    <3>2. (pc[q] = "write" /\ Op(q) \in Deletion \ Unaudited => Logged(q))'
      BY <2>1, LogStays DEF Trail
    <3>. DEFINE w == AuditWorkspace(q)
    <3>3. (Targeted(q) => Exists(w) \/ Gone(w))'
      <4>. SUFFICES ASSUME Targeted(q)
                    PROVE  (Exists(w) \/ Gone(w))'
        BY <2>1 DEF Targeted
      <4>1. PICK v \in Workspace : v = w
        BY <2>2
      <4>2. Exists(v)' \/ Gone(v)'
        BY <4>1, GoneOrThere DEF Trail
      <4>. QED
        BY <2>1, <4>1, <4>2 DEF Exists, Gone
    <3>4. (pc[q] = "unaudited" => Gone(w))'
      <4>. SUFFICES ASSUME pc[q] = "unaudited"
                    PROVE  Gone(w)'
        BY <2>1
      <4>1. PICK x \in Request : pc[x] = "done" /\ Op(x) = "delete_workspace" /\ Row(x) = w
        BY DEF Trail, Gone
      <4>2. x # r
        BY <4>1, Ongoing, StepCases DEF Served, Ended, Begins, Create, LoadWorkspace, LoadSource,
           LoadPipeline, Begin, Goto, Base
      <4>3. pc'[x] = "done" /\ Op(x)' = "delete_workspace" /\ Row(x)' = w
        BY <4>1, <4>2, StepIsLocal DEF Op, Row, Base
      <4>. QED
        BY <2>1, <4>3 DEF Gone
    <3>. QED
      BY <3>1, <3>2, <3>3, <3>4
<1>. SUFFICES ASSUME q = r
              PROVE  (/\ pc[r] = "done" /\ Op(r) \notin Unaudited => Logged(r)
                      /\ pc[r] = "write" /\ Op(r) \in Deletion \ Unaudited => Logged(r)
                      /\ Targeted(r) => Exists(AuditWorkspace(r)) \/ Gone(AuditWorkspace(r))
                      /\ pc[r] = "unaudited" => Gone(AuditWorkspace(r)))'
  BY <1>1
<1>2. CASE Begins(r)
  <2>1. PICK u \in User, c \in Calls : Create(r, u, c) \/ LoadWorkspace(r, u, c)
                                        \/ LoadSource(r, u, c) \/ LoadPipeline(r, u, c)
    BY <1>2 DEF Begins
  <2>2. Row(r)' = c.row /\ Op(r)' = c.op
    BY <2>1 DEF Create, LoadWorkspace, LoadSource, LoadPipeline, Begin, Row, Op, Base, Shape
  <2>3. pc'[r] \in {"check", "audit", "write"}
    BY <2>1 DEF Create, LoadWorkspace, LoadSource, LoadPipeline, Begin, Goto, AfterLoad, Base, Shape
  <2>4. pc'[r] = "audit" <=> c.op \in Deletion \ Unaudited
    <3>1. Create(r, u, c) => pc'[r] = "check" /\ c.op \notin Deletion
      BY DEF Create, Begin, Goto, Creation, Deletion, Base, Shape
    <3>2. ~Create(r, u, c) => pc'[r] = AfterLoad(c)
      BY <2>1 DEF LoadWorkspace, LoadSource, LoadPipeline, Begin, Goto, Base, Shape
    <3>3. AfterLoad(c) = "audit" <=> c.op \in Deletion \ Unaudited
      BY DEF AfterLoad, Deletion, Unaudited, MemberOp
    <3>. QED
      BY <3>1, <3>2, <3>3
  <2>5. c.op = "remove_member" => Exists(c.row)
    BY <2>1 DEF Create, LoadWorkspace, LoadSource, LoadPipeline, SeesWorkspace, Creation,
       SourceOp, PipelineOp
  <2>6. slug' = slug
    BY <1>2, Quiet
  <2>. QED
    BY <2>2, <2>3, <2>4, <2>5, <2>6 DEF Targeted, AuditWorkspace, WorkspaceOp, Exists
<1>. SUFFICES ASSUME ~Begins(r)
              PROVE  (/\ pc[r] = "done" /\ Op(r) \notin Unaudited => Logged(r)
                      /\ pc[r] = "write" /\ Op(r) \in Deletion \ Unaudited => Logged(r)
                      /\ Targeted(r) => Exists(AuditWorkspace(r)) \/ Gone(AuditWorkspace(r))
                      /\ pc[r] = "unaudited" => Gone(AuditWorkspace(r)))'
  BY <1>2
<1>3. /\ Served(r) /\ Op(r)' = Op(r) /\ Row(r)' = Row(r) /\ call[r] \in Calls
  BY Ongoing DEF Op, Row, Base
<1>4. CASE CheckOwner(r)
  <2>1. Row(r) \in Workspace /\ Op(r) \in MemberOp
    BY <1>3, <1>4, CallTypes DEF CheckOwner, Op, Row, MemberOp, WorkspaceOp
  <2>2. slug' = slug /\ pc'[r] \in {"write", "refused"}
    BY <1>4 DEF CheckOwner, Goto, tables, Base, Shape
  <2>3. Op(r) = "remove_member" => Exists(Row(r))' \/ Gone(Row(r))'
    <3>. SUFFICES ASSUME Op(r) = "remove_member"
                  PROVE  Exists(Row(r))' \/ Gone(Row(r))'
      OBVIOUS
    <3>1. Exists(Row(r)) \/ Gone(Row(r))
      BY <1>3 DEF Trail, Targeted, AuditWorkspace, WorkspaceOp
    <3>2. PICK w \in Workspace : w = Row(r)
      BY <2>1
    <3>3. Exists(w)' \/ Gone(w)'
      BY <3>1, <3>2, GoneOrThere DEF Exists, Gone
    <3>. QED
      BY <1>3, <3>2, <3>3 DEF Exists, Gone
  <2>. QED
    BY <1>3, <2>1, <2>2, <2>3 DEF Targeted, AuditWorkspace, MemberOp, WorkspaceOp, Deletion
<1>5. CASE CheckMember(r) \/ CheckSource(r) \/ ReadSource(r) \/ TrySlug(r)
  <2>1. Op(r) \notin Deletion \cup {"remove_member"}
    BY <1>5 DEF CheckMember, CheckSource, ReadSource, TrySlug, Deletion
  <2>2. pc'[r] \in {"check", "write", "refused", "failed"}
    BY <1>5 DEF CheckMember, CheckSource, ReadSource, TrySlug, Goto, Base, Shape
  <2>. QED
    BY <1>3, <2>1, <2>2 DEF Targeted
<1>6. CASE IntegrityError(r) \/ CascadeFails(r) \/ Die(r)
  BY <1>6 DEF IntegrityError, CascadeFails, Die, Goto, Targeted, Served, Ended, Base, Shape
<1>7. CASE AuditFails(r)
  <2>1. pc[r] = "audit" /\ ~Exists(AuditWorkspace(r))
    BY <1>7 DEF AuditFails, Goto
  <2>2. pc'[r] = IF Op(r) \in Deletion THEN "failed" ELSE "unaudited"
    BY <1>7 DEF AuditFails, Goto, Base, Shape
  <2>3. Op(r) \notin Deletion => Gone(AuditWorkspace(r))
    BY <1>3, <2>1 DEF Trail, Targeted
  <2>4. AuditWorkspace(r)' = AuditWorkspace(r)
    BY <1>7, <1>3 DEF AuditFails, AuditWorkspace
  <2>5. Op(r) \notin Deletion => Gone(AuditWorkspace(r))'
    <3>. SUFFICES ASSUME Op(r) \notin Deletion
                  PROVE  Gone(AuditWorkspace(r))'
      OBVIOUS
    <3>1. PICK x \in Request :
            pc[x] = "done" /\ Op(x) = "delete_workspace" /\ Row(x) = AuditWorkspace(r)
      BY <2>3 DEF Gone
    <3>2. x # r
      BY <2>1, <3>1
    <3>3. pc'[x] = "done" /\ Op(x)' = "delete_workspace" /\ Row(x)' = Row(x)
      BY <3>1, <3>2, StepIsLocal DEF Op, Row, Base
    <3>. QED
      BY <2>4, <3>1, <3>3 DEF Gone
  <2>. QED
    BY <1>3, <2>2, <2>5 DEF Targeted, Served, Ended
<1>8. CASE Saves(r)
  <2>1. UNCHANGED <<held, log>>
    BY <1>8 DEF Saves, SaveWorkspace, SaveOwner, AddMember, RemoveMember, SaveSource, SavePipeline
  <2>2. AuditWorkspace(r)' = AuditWorkspace(r)
    BY <1>3, <2>1 DEF AuditWorkspace
  <2>3. /\ Op(r) \notin Deletion /\ pc'[r] \in {"member", "audit", "done"}
        /\ pc'[r] = "done" => Op(r) \in Unaudited
    BY <1>3, <1>8 DEF Saves, SaveWorkspace, SaveOwner, AddMember, RemoveMember, SaveSource,
       SavePipeline, Goto, Deletion, Unaudited, SourceOp, PipelineOp, Base, Shape, HeldOK
  <2>4. pc'[r] = "audit" => Exists(AuditWorkspace(r))' \/ Gone(AuditWorkspace(r))'
    <3>1. CASE SaveOwner(r)
      BY <1>3, <2>2, <3>1 DEF SaveOwner, Goto, AuditWorkspace, WorkspaceOp, Exists, Base, HeldOK, Fresh
    <3>2. CASE AddMember(r)
      BY <2>2, <3>2 DEF AddMember, Allowed, AuditWorkspace, WorkspaceOp, Exists
    <3>3. CASE RemoveMember(r)
      <4>1. AuditWorkspace(r) = Row(r) /\ Row(r) \in Workspace
        BY <1>3, <3>3, CallTypes DEF RemoveMember, AuditWorkspace, WorkspaceOp, Op, Row
      <4>2. PICK w \in Workspace : w = AuditWorkspace(r)
        BY <4>1
      <4>3. Exists(w) \/ Gone(w)
        BY <1>3, <3>3, <4>2 DEF RemoveMember, Trail, Targeted
      <4>4. Exists(w)' \/ Gone(w)'
        BY <4>3, GoneOrThere
      <4>. QED
        BY <2>2, <4>2, <4>4 DEF Exists, Gone
    <3>4. CASE SaveSource(r)
      BY <2>2, <3>4 DEF SaveSource, Allowed, AuditWorkspace, WorkspaceOp, SourceOp, Exists
    <3>5. CASE SavePipeline(r)
      BY <2>2, <3>5 DEF SavePipeline, Allowed, AuditWorkspace, WorkspaceOp, PipelineOp, Exists
    <3>6. SaveWorkspace(r) => pc'[r] # "audit"
      BY DEF SaveWorkspace, Goto, Base, Shape
    <3>. QED
      BY <1>8, <3>1, <3>2, <3>3, <3>4, <3>5, <3>6 DEF Saves
  <2>5. Op(r) = "remove_member" => pc'[r] = "audit"
    BY <1>8, <1>3 DEF Saves, SaveWorkspace, SaveOwner, AddMember, RemoveMember, SaveSource,
       SavePipeline, Goto, SourceOp, PipelineOp, Base, Shape, HeldOK
  <2>. QED
    BY <1>3, <2>3, <2>4, <2>5 DEF Targeted
<1>9. CASE Deletes(r)
  <2>1. pc'[r] = "done" /\ pc[r] = "write" /\ Op(r) \in Deletion
    BY <1>9 DEF Deletes, DeleteWorkspace, DeleteSource, DeletePipeline, Goto, Deletion, Base, Shape
  <2>. QED
    BY <1>3, <2>1, LogStays DEF Trail, Targeted, Served, Ended
<1>10. CASE Audit(r)
  <2>1. pc'[r] = IF Op(r) \in Deletion THEN "write" ELSE "done"
    BY <1>10 DEF Audit, Goto, Base, Shape
  <2>2. Logged(r)'
    <3>1. [request |-> r, workspace |-> AuditWorkspace(r)] \in log'
      BY <1>10 DEF Audit
    <3>. QED
      BY <3>1 DEF Logged
  <2>. QED
    BY <1>3, <2>1, <2>2 DEF Targeted, Served, Ended, Deletion
<1>. QED
  BY <1>4, <1>5, <1>6, <1>7, <1>8, <1>9, <1>10, StepCases DEF Checks, Ends

(* The audit row of an answered request outlives its workspace, and a      *)
(* request that stored its write and not its audit row has lost its        *)
(* workspace to another one.  Deletions need their own clause: they log    *)
(* first, and a deletion that finds its workspace gone has written         *)
(* nothing.                                                                *)
THEOREM EverythingAudited == Spec => []AuditTrail
<1>1. Init => Trail
  BY DEF Init, Trail, Targeted, Served
<1>2. Base /\ Base' /\ Trail /\ [Next]_vars => Trail'
  <2>. SUFFICES ASSUME Base, Base', Trail, [Next]_vars
                PROVE  Trail'
    OBVIOUS
  <2>1. CASE UNCHANGED vars
    BY <2>1 DEF vars, tables, request, Trail, Targeted, Logged, Gone, Served, Op, Row, Exists,
       AuditWorkspace
  <2>2. CASE Next
    BY <2>2, TrailStep DEF Next
  <2>. QED
    BY <2>1, <2>2
<1>3. Trail => AuditTrail
  BY DEF Trail, AuditTrail, Logged, Gone
<1>. QED
  BY <1>1, <1>2, <1>3, BaseAlways, PTL DEF Spec

-----------------------------------------------------------------------------
(* Owners.  Without overlap there is one request at a time, and what its   *)
(* check has seen is still so when it writes.                              *)
Orphan(w) ==
  \E r \in Request : /\ pc[r] \in {"member", "killed"}
                     /\ Op(r) = "create_workspace" /\ Row(r) = w
Governed(w) == w \in resigned \/ (\E u \in User : Owner(u, w)) \/ Orphan(w)

OneAtATime ==
  overlap \/ /\ \A r, q \in Request : Served(r) /\ Served(q) => r = q
             /\ \A r \in Request : pc[r] = "write" /\ Op(r) \in MemberOp => Owner(by[r], Row(r))
             /\ \A r \in Request :
                  pc[r] = "write" /\ Op(r) = "rename_workspace" => Exists(Row(r))
             /\ \A w \in Workspace : Exists(w) => Governed(w)

LEMMA OneAtATimeStep ==
  ASSUME Base, Base', OneAtATime, NEW r \in Request, Step(r), Witness
  PROVE  OneAtATime'
<1>. SUFFICES ASSUME ~overlap'
              PROVE  OneAtATime'
  BY DEF OneAtATime
<1>1. ~overlap /\ \A x, q \in Request : Served(x)' /\ Served(q)' => x = q
  BY DEF Witness
<1>2. \A q \in Request : Served(q) => q = r
  <2>1. CASE Begins(r)
    <3>1. Served(r)'
      BY <2>1 DEF Begins, Create, LoadWorkspace, LoadSource, LoadPipeline, Begin, Goto, AfterLoad,
         Served, Ended, Base, Shape
    <3>. QED
      BY <1>1, <3>1, StepIsLocal DEF Served, Base
  <2>2. CASE ~Begins(r)
    BY <1>1, <2>2, Ongoing DEF OneAtATime, Base
  <2>. QED
    BY <2>1, <2>2
<1>3. \A q \in Request \ {r} :
        /\ pc'[q] = pc[q] /\ Op(q)' = Op(q) /\ Row(q)' = Row(q)
        /\ pc'[q] # "write"
  BY <1>2, StepIsLocal DEF Op, Row, Base, Served, Ended
<1>4. pc'[r] = "write" /\ Op(r)' \in MemberOp => Owner(by[r], Row(r))'
  <2>. SUFFICES ASSUME pc'[r] = "write", Op(r)' \in MemberOp
                PROVE  Owner(by[r], Row(r))'
    OBVIOUS
  <2>1. ~Begins(r)
    <3>. SUFFICES ASSUME Begins(r)
                  PROVE  FALSE
      OBVIOUS
    <3>1. PICK u \in User, c \in Calls : Create(r, u, c) \/ LoadWorkspace(r, u, c)
                                          \/ LoadSource(r, u, c) \/ LoadPipeline(r, u, c)
      BY DEF Begins
    <3>2. Op(r)' = c.op
      BY <3>1 DEF Create, LoadWorkspace, LoadSource, LoadPipeline, Begin, Op, Base, Shape
    <3>3. pc'[r] = "check" \/ pc'[r] = AfterLoad(c)
      BY <3>1 DEF Create, LoadWorkspace, LoadSource, LoadPipeline, Begin, Goto, Base, Shape
    <3>. QED
      BY <3>2, <3>3 DEF AfterLoad, MemberOp, Deletion, Unaudited
  <2>2. Served(r) /\ Op(r)' = Op(r) /\ Row(r)' = Row(r) /\ by'[r] = by[r]
    BY <2>1, Ongoing DEF Op, Row, Base
  <2>3. CheckOwner(r)
    BY <2>1, <2>2, StepCases DEF Checks, CheckMember, CheckSource, ReadSource, TrySlug, Ends,
       IntegrityError, CascadeFails, AuditFails, Die, Saves, SaveWorkspace, SaveOwner,
       AddMember, RemoveMember, SaveSource, SavePipeline, Deletes, DeleteWorkspace,
       DeleteSource, DeletePipeline, Audit, Goto, MemberOp, Deletion, Base, Shape
  <2>4. Owner(by[r], Row(r)) /\ role' = role
    BY <2>3 DEF CheckOwner, Goto, tables, Base, Shape
  <2>. QED
    BY <2>2, <2>4 DEF Owner
<1>5. pc'[r] = "write" /\ Op(r)' = "rename_workspace" => Exists(Row(r))'
  <2>. SUFFICES ASSUME pc'[r] = "write", Op(r)' = "rename_workspace"
                PROVE  Exists(Row(r))'
    OBVIOUS
  <2>1. CASE Begins(r)
    <3>1. PICK u \in User, c \in Calls : Create(r, u, c) \/ LoadWorkspace(r, u, c)
                                          \/ LoadSource(r, u, c) \/ LoadPipeline(r, u, c)
      BY <2>1 DEF Begins
    <3>2. Op(r)' = c.op /\ Row(r)' = c.row
      BY <3>1 DEF Create, LoadWorkspace, LoadSource, LoadPipeline, Begin, Op, Row, Base, Shape
    <3>3. Exists(c.row)
      BY <3>1, <3>2 DEF Create, Creation, LoadWorkspace, LoadSource, LoadPipeline, SeesWorkspace,
         SourceOp, PipelineOp
    <3>. QED
      BY <2>1, <3>2, <3>3, Quiet DEF Exists
  <2>2. CASE ~Begins(r)
    <3>1. Served(r) /\ Op(r) = "rename_workspace"
      BY <2>2, Ongoing DEF Op, Base
    <3>2. CASE Checks(r)
      BY <3>1, <3>2 DEF Checks, CheckOwner, CheckMember, CheckSource, ReadSource, TrySlug, MemberOp
    <3>3. CASE Ends(r) \/ Saves(r) \/ Deletes(r) \/ Audit(r)
      BY <3>1, <3>3 DEF Ends, IntegrityError, CascadeFails, AuditFails, Die, Saves, SaveWorkspace,
         SaveOwner, AddMember, RemoveMember, SaveSource, SavePipeline, Deletes, DeleteWorkspace,
         DeleteSource, DeletePipeline, Audit, Goto, Deletion, Base, Shape
    <3>. QED
      BY <2>2, <3>2, <3>3, StepCases
  <2>. QED
    BY <2>1, <2>2
<1>6. ASSUME NEW w \in Workspace, Exists(w)'
      PROVE  Governed(w)'
  <2>1. resigned \subseteq resigned'
    <3>1. CASE Begins(r) \/ Checks(r) \/ Ends(r)
      BY <3>1, Quiet
    <3>2. CASE Saves(r) \/ Deletes(r) \/ Audit(r)
      BY <3>2 DEF Saves, SaveWorkspace, SaveOwner, AddMember, RemoveMember, SaveSource,
         SavePipeline, Deletes, DeleteWorkspace, DeleteSource, DeletePipeline, Audit, history
    <3>. QED
      BY <3>1, <3>2, StepCases
  <2>2. CASE SaveWorkspace(r) /\ w = Row(r)
    <3>1. CASE Op(r) = "create_workspace"
      BY <2>2, <3>1 DEF SaveWorkspace, Goto, request, Op, Row, Base, Shape, Governed, Orphan
    <3>2. CASE Op(r) = "rename_workspace"
      <4>1. Governed(w)
        BY <1>1, <2>2, <3>2 DEF SaveWorkspace, Goto, OneAtATime
      <4>2. ~\E q \in Request : q = r /\ pc[q] \in {"member", "killed"}
        BY <2>2 DEF SaveWorkspace, Goto
      <4>. QED
        BY <1>3, <2>1, <2>2, <4>1, <4>2 DEF Governed, Orphan, Owner, SaveWorkspace
    <3>. QED
      BY <2>2, <3>1, <3>2 DEF SaveWorkspace
  <2>3. CASE SaveOwner(r) /\ w = Row(r)
    <3>1. by[r] \in User /\ role' = [role EXCEPT ![w][by[r]] = "OWNER"]
      BY <2>3, Ongoing, StepCases DEF SaveOwner, Goto, Begins, Create, LoadWorkspace, LoadSource,
         LoadPipeline, Begin, Base
    <3>2. role'[w][by[r]] = "OWNER"
      BY <3>1 DEF Base, Shape
    <3>. QED
      BY <3>1, <3>2 DEF Governed, Owner
  <2>4. CASE (AddMember(r) \/ RemoveMember(r)) /\ w = Row(r)
    <3>1. by[r] \in User /\ call[r] \in Calls /\ pc[r] = "write" /\ Op(r) \in MemberOp
      BY <2>4 DEF AddMember, RemoveMember, Goto, MemberOp, Base, Shape
    <3>2. role[w][by[r]] = "OWNER"
      BY <1>1, <2>4, <3>1 DEF OneAtATime, Owner
    <3>3. CASE call[r].of # by[r]
      <4>1. role'[w][by[r]] = role[w][by[r]]
        BY <2>4, <3>1, <3>3 DEF AddMember, RemoveMember, Base, Shape
      <4>. QED
        BY <3>1, <3>2, <4>1 DEF Governed, Owner
    <3>4. CASE call[r].of = by[r] /\ RemoveMember(r)
      BY <2>4, <3>4 DEF RemoveMember, Governed
    <3>5. CASE call[r].of = by[r] /\ AddMember(r) /\ call[r].role # "OWNER"
      BY <2>4, <3>5 DEF AddMember, Governed
    <3>6. CASE call[r].of = by[r] /\ AddMember(r) /\ call[r].role = "OWNER"
      <4>1. role' = [role EXCEPT ![w][by[r]] = "OWNER"]
        BY <2>4, <3>6 DEF AddMember
      <4>2. role'[w][by[r]] = "OWNER"
        BY <3>1, <4>1 DEF Base, Shape
      <4>. QED
        BY <3>1, <4>2 DEF Governed, Owner
    <3>. QED
      BY <2>4, <3>3, <3>4, <3>5, <3>6
  <2>5. CASE ~((SaveWorkspace(r) \/ SaveOwner(r) \/ AddMember(r) \/ RemoveMember(r)) /\ w = Row(r))
    <3>1. ~(DeleteWorkspace(r) /\ w = Row(r))
      BY <1>6 DEF DeleteWorkspace, Exists, Base, Shape
    <3>2. slug'[w] = slug[w] /\ role'[w] = role[w]
      <4>1. CASE Begins(r) \/ Checks(r) \/ Ends(r)
        BY <4>1, Quiet
      <4>2. CASE Saves(r) \/ Deletes(r) \/ Audit(r)
        BY <2>5, <3>1, <4>2 DEF Saves, SaveWorkspace, SaveOwner, AddMember, RemoveMember,
           SaveSource, SavePipeline, Deletes, DeleteWorkspace, DeleteSource, DeletePipeline, Audit,
           tables, Base, Shape
      <4>. QED
        BY <4>1, <4>2, StepCases
    <3>3. Governed(w)
      BY <1>1, <1>6, <3>2 DEF Exists, OneAtATime
    <3>4. Orphan(w) => Orphan(w)'
      <4>. SUFFICES ASSUME NEW q \in Request, pc[q] \in {"member", "killed"},
                           Op(q) = "create_workspace", Row(q) = w
                    PROVE  Orphan(w)'
        BY DEF Orphan
      <4>1. CASE q # r
        BY <1>3, <4>1 DEF Orphan
      <4>2. CASE q = r
        <5>1. ~Begins(r)
          BY <4>2 DEF Begins, Create, LoadWorkspace, LoadSource, LoadPipeline, Begin, Goto
        <5>2. Served(r) /\ Op(r)' = Op(r) /\ Row(r)' = Row(r)
          BY <5>1, Ongoing DEF Op, Row, Base
        <5>3. SaveOwner(r) \/ pc'[r] = "killed"
          BY <4>2, <5>1, <5>2, StepCases DEF Checks, CheckOwner, CheckMember, CheckSource, ReadSource,
             TrySlug, Ends, IntegrityError, CascadeFails, AuditFails, Die, Saves, SaveWorkspace,
             AddMember, RemoveMember, SaveSource, SavePipeline, Deletes, DeleteWorkspace,
             DeleteSource, DeletePipeline, Audit, Goto, Served, Ended, Base, Shape
        <5>. QED
          BY <2>5, <4>2, <5>2, <5>3 DEF Orphan
      <4>. QED
        BY <4>1, <4>2
    <3>. QED
      BY <2>1, <3>2, <3>3, <3>4 DEF Governed, Owner
  <2>. QED
    BY <2>2, <2>3, <2>4, <2>5
<1>. QED
  BY <1>1, <1>3, <1>4, <1>5, <1>6 DEF OneAtATime

(* A workspace does not lose its last owner while requests are served one  *)
(* at a time and no owner gives up the role himself.                       *)
THEOREM OwnersRemain == Spec => []OwnerRemains
<1>1. Init => OneAtATime
  BY DEF Init, OneAtATime, Served, Governed
<1>2. Base /\ Base' /\ OneAtATime /\ [Next]_vars => OneAtATime'
  <2>. SUFFICES ASSUME Base, Base', OneAtATime, [Next]_vars
                PROVE  OneAtATime'
    OBVIOUS
  <2>1. CASE UNCHANGED vars
    BY <2>1 DEF vars, tables, request, history, OneAtATime, Served, Op, Row, Exists, Owner,
       Governed, Orphan
  <2>2. CASE Next
    BY <2>2, OneAtATimeStep DEF Next
  <2>. QED
    BY <2>1, <2>2
<1>3. OneAtATime => OwnerRemains
  BY DEF OneAtATime, OwnerRemains, Governed, Orphan
<1>. QED
  BY <1>1, <1>2, <1>3, BaseAlways, PTL DEF Spec

-----------------------------------------------------------------------------
(* Membership.  The workspace a request is about to write was one of its   *)
(* user when it was checked, and what is checked later is that or a move.  *)
Strayed(r) == Op(r) = "clone_pipeline" /\ {held[r].source, call[r].of} \cap moved # {}

Admission ==
  \A r \in Request : Served(r) =>
    /\ Op(r) \in SourceOp /\ (Op(r) # "create_source" \/ pc[r] # "check")
         => held[r].workspace \in admitted[r]
    /\ Op(r) \in PipelineOp /\ (Op(r) # "create_pipeline" \/ pc[r] # "check")
         => \/ held[r].workspace \in admitted[r]
            \/ pc[r] # "check" /\ Strayed(r)

LEMMA AdmissionStep ==
  ASSUME Base, Base', HasHomes, Admission, NEW r \in Request, Step(r), Witness
  PROVE  Admission'
<1>. SUFFICES ASSUME NEW q \in Request, Served(q)'
              PROVE  (/\ Op(q) \in SourceOp /\ (Op(q) # "create_source" \/ pc[q] # "check")
                           => held[q].workspace \in admitted[q]
                      /\ Op(q) \in PipelineOp /\ (Op(q) # "create_pipeline" \/ pc[q] # "check")
                           => \/ held[q].workspace \in admitted[q]
                              \/ pc[q] # "check" /\ Strayed(q))'
  BY DEF Admission
<1>1. /\ admitted[q] \subseteq admitted'[q]
      /\ \A w \in Workspace : Member(by[q], w)' => w \in admitted'[q]
  BY DEF Witness
<1>2. moved \subseteq moved'
  <2>1. CASE Begins(r) \/ Checks(r) \/ Ends(r)
    BY <2>1, Quiet
  <2>2. CASE Saves(r) \/ Deletes(r) \/ Audit(r)
    BY <2>2 DEF Saves, SaveWorkspace, SaveOwner, AddMember, RemoveMember, SaveSource,
       SavePipeline, Deletes, DeleteWorkspace, DeleteSource, DeletePipeline, Audit, history
  <2>. QED
    BY <2>1, <2>2, StepCases
<1>3. CASE q # r
  <2>1. /\ Served(q) /\ Op(q)' = Op(q) /\ pc'[q] = pc[q] /\ held'[q] = held[q]
        /\ call'[q] = call[q]
    BY <1>3, StepIsLocal DEF Op, Served, Base
  <2>. QED
    BY <1>1, <1>2, <2>1 DEF Admission, Strayed
<1>. SUFFICES ASSUME q = r
              PROVE  (/\ Op(r) \in SourceOp /\ (Op(r) # "create_source" \/ pc[r] # "check")
                           => held[r].workspace \in admitted[r]
                      /\ Op(r) \in PipelineOp /\ (Op(r) # "create_pipeline" \/ pc[r] # "check")
                           => \/ held[r].workspace \in admitted[r]
                              \/ pc[r] # "check" /\ Strayed(r))'
  BY <1>3
<1>4. CASE Begins(r)
  <2>1. PICK u \in User, c \in Calls : Create(r, u, c) \/ LoadWorkspace(r, u, c)
                                        \/ LoadSource(r, u, c) \/ LoadPipeline(r, u, c)
    BY <1>4 DEF Begins
  <2>2. Op(r)' = c.op /\ by'[r] = u /\ role' = role
    BY <2>1 DEF Create, LoadWorkspace, LoadSource, LoadPipeline, Begin, Op, tables, Base, Shape
  <2>3. CASE Create(r, u, c)
    BY <2>2, <2>3 DEF Create, Creation, Begin, Goto, SourceOp, PipelineOp, Base, Shape
  <2>4. CASE LoadWorkspace(r, u, c)
    BY <2>2, <2>4 DEF LoadWorkspace, WorkspaceOp, SourceOp, PipelineOp
  <2>5. CASE LoadSource(r, u, c)
    <3>1. c.row \in Source /\ c.op \in SourceOp
      BY <2>5, CallTypes DEF LoadSource
    <3>2. /\ held'[r].workspace = source[c.row] /\ source[c.row] \in Workspace
          /\ Member(u, source[c.row])
      BY <2>5, <3>1 DEF LoadSource, Keep, Blank, SeesSource, Base, Shape
    <3>3. held'[r].workspace \in admitted'[r]
      BY <1>1, <2>2, <3>2 DEF Member
    <3>. QED
      BY <3>3
  <2>6. CASE LoadPipeline(r, u, c)
    <3>1. PICK p \in Pipeline : SeesPipeline(u, p) /\ Keep(r,
            [slug |-> 1, source |-> pipeline[p].source, workspace |-> pipeline[p].workspace])
      BY <2>6, CallTypes DEF LoadPipeline, PipelineOp
    <3>2. /\ held'[r].workspace = pipeline[p].workspace /\ pipeline[p].workspace \in Workspace
          /\ Member(u, pipeline[p].workspace)
      BY <3>1 DEF Keep, SeesPipeline, Base, Shape, Rows
    <3>3. held'[r].workspace \in admitted'[r]
      BY <1>1, <2>2, <3>2 DEF Member
    <3>. QED
      BY <3>3
  <2>. QED
    BY <2>1, <2>3, <2>4, <2>5, <2>6
<1>. SUFFICES ASSUME ~Begins(r)
              PROVE  (/\ Op(r) \in SourceOp /\ (Op(r) # "create_source" \/ pc[r] # "check")
                           => held[r].workspace \in admitted[r]
                      /\ Op(r) \in PipelineOp /\ (Op(r) # "create_pipeline" \/ pc[r] # "check")
                           => \/ held[r].workspace \in admitted[r]
                              \/ pc[r] # "check" /\ Strayed(r))'
  BY <1>4
<1>5. /\ Served(r) /\ call'[r] = call[r] /\ Op(r)' = Op(r) /\ by'[r] = by[r]
      /\ call[r] \in Calls /\ held[r] \in HeldTypes
  BY Ongoing DEF Op, Base, Shape
<1>6. CASE CheckMember(r)
  <2>1. call[r].of \in Workspace
    BY <1>5, <1>6, CallTypes DEF CheckMember, Op
  <2>2. held'[r].workspace = call[r].of /\ Member(by[r], call[r].of) /\ role' = role
    BY <1>5, <1>6 DEF CheckMember, Served, Ended, Goto, Keep, HeldTypes, tables, Base, Shape
  <2>3. held'[r].workspace \in admitted'[r]
    BY <1>1, <1>5, <2>1, <2>2 DEF Member
  <2>. QED
    BY <2>3
<1>7. CASE CheckSource(r)
  <2> DEFINE s == call[r].of
  <2>1. s \in Source
    BY <1>5, <1>7, CallTypes DEF CheckSource, Op
  <2>2. /\ SeesSource(by[r], s) /\ role' = role
        /\ held'[r].workspace =
             IF held[r].workspace = None THEN source[s] ELSE held[r].workspace
    BY <1>5, <1>7, <2>1 DEF CheckSource, Served, Ended, Goto, Keep, HeldTypes, tables, Base, Shape
  <2>3. CASE Op(r) = "create_pipeline"
    <3>1. held'[r].workspace = source[s] /\ source[s] \in Workspace
      BY <1>5, <1>7, <2>1, <2>2, <2>3 DEF CheckSource, Goto, SeesSource, Base, HeldOK, Shape
    <3>2. held'[r].workspace \in admitted'[r]
      BY <1>1, <1>5, <2>2, <3>1 DEF SeesSource, Member
    <3>. QED
      BY <3>2
  <2>4. CASE Op(r) = "repoint_pipeline"
    <3>1. held[r].workspace \in admitted[r] /\ held[r].workspace # None
      BY <1>5, <1>7, <2>4, TenancyAssumption DEF CheckSource, Goto, Admission, PipelineOp, Base,
         HeldOK, Strayed
    <3>. QED
      BY <1>1, <2>2, <3>1
  <2>. QED
    BY <1>7, <2>3, <2>4 DEF CheckSource
<1>8. CASE ReadSource(r)
  <2> DEFINE s == held[r].source
  <2>1. PICK h \in [Source -> Workspace \cup {None}] : Faithful(h)
    BY DEF HasHomes
  <2>2. Op(r) = "clone_pipeline" /\ pc[r] = "check" /\ s \in Source
    BY <1>5, <1>8 DEF ReadSource, Goto, PipelineOp, Base, HeldOK
  <2>3. /\ source[s] # None /\ held'[r].source = s /\ held'[r].workspace = source[s]
        /\ pc'[r] = "write"
    BY <1>5, <1>8, <2>2 DEF ReadSource, Served, Ended, Goto, Keep, HeldTypes, Base, Shape
  <2>4. CASE {s, call[r].of} \cap moved # {}
    BY <1>2, <1>5, <2>2, <2>3, <2>4 DEF Strayed, SourceOp
  <2>5. CASE {s, call[r].of} \cap moved = {}
    <3>1. held[r].workspace = h[s] /\ source[s] = h[s]
      BY <1>5, <2>1, <2>2, <2>3, <2>5 DEF Faithful, Homes
    <3>2. held[r].workspace \in admitted[r]
      BY <1>5, <2>2 DEF Admission, PipelineOp
    <3>. QED
      BY <1>1, <2>3, <3>1, <3>2
  <2>. QED
    BY <2>4, <2>5
<1>9. CASE CheckOwner(r) \/ TrySlug(r)
  BY <1>5, <1>9 DEF CheckOwner, TrySlug, MemberOp, SourceOp, PipelineOp
<1>10. CASE Ends(r)
  BY <1>10 DEF Ends, IntegrityError, CascadeFails, AuditFails, Die, Goto, Served, Ended, Base, Shape
<1>11. CASE Saves(r) \/ Deletes(r) \/ Audit(r)
  <2>1. held' = held /\ pc[r] # "check" /\ pc'[r] # "check"
    BY <1>11 DEF Saves, SaveWorkspace, SaveOwner, AddMember, RemoveMember, SaveSource,
       SavePipeline, Deletes, DeleteWorkspace, DeleteSource, DeletePipeline, Audit, Goto, Base, Shape
  <2>. QED
    BY <1>1, <1>2, <1>5, <2>1 DEF Admission, Strayed
<1>. QED
  BY <1>6, <1>7, <1>8, <1>9, <1>10, <1>11, StepCases DEF Checks

(* Nothing comes into a workspace by a request whose user was never a      *)
(* member of it, whoever is removed, moved or deleted between check and    *)
(* write.                                                                  *)
THEOREM Admitted == Spec => LandsWhereAdmitted
<1>1. Init => Admission
  BY DEF Init, Admission, Served
<1>2. Base /\ Base' /\ HasHomes /\ Admission /\ [Next]_vars => Admission'
  <2>. SUFFICES ASSUME Base, Base', HasHomes, Admission, [Next]_vars
                PROVE  Admission'
    OBVIOUS
  <2>1. CASE UNCHANGED vars
    BY <2>1 DEF vars, request, history, Admission, Strayed, Served, Op
  <2>2. CASE Next
    BY <2>2, AdmissionStep DEF Next
  <2>. QED
    BY <2>1, <2>2
<1>3. Base /\ Admission /\ [Next]_vars =>
        [\A r \in Request, w \in Workspace :
           /\ pc'[r] # pc[r]
           /\ \/ \E s \in Source : Comes(w, source[s], source'[s])
              \/ \E p \in Pipeline :
                   Comes(w, pipeline[p].workspace, pipeline'[p].workspace)
           => \/ w \in admitted[r]
              \/ Op(r) = "clone_pipeline" /\ {held[r].source, call[r].of} \cap moved # {}]_vars
  <2>. SUFFICES ASSUME Base, Admission, Next, NEW r \in Request, NEW w \in Workspace,
                       pc'[r] # pc[r],
                       \/ \E s \in Source : Comes(w, source[s], source'[s])
                       \/ \E p \in Pipeline :
                            Comes(w, pipeline[p].workspace, pipeline'[p].workspace)
                PROVE  w \in admitted[r] \/ Strayed(r)
    BY DEF Strayed
  <2>1. Step(r)
    BY StepIsLocal DEF Next, Base
  <2>2. ASSUME NEW s \in Source, Comes(w, source[s], source'[s])
        PROVE  w \in admitted[r]
    <3>1. SaveSource(r) /\ w = held[r].workspace
      BY <2>1, <2>2, SourcesAreLocal, TenancyAssumption DEF Comes
    <3>2. pc[r] = "write" /\ Op(r) \in SourceOp
      BY <3>1 DEF SaveSource, Goto
    <3>. QED
      BY <3>1, <3>2 DEF Admission, Served, Ended
  <2>3. ASSUME NEW p \in Pipeline, Comes(w, pipeline[p].workspace, pipeline'[p].workspace)
        PROVE  w \in admitted[r] \/ Strayed(r)
    <3>1. pipeline'[p] # pipeline[p] /\ pipeline'[p] # NoRow
      <4>1. pipeline'[p].workspace = w /\ pipeline[p].workspace # w
        BY <2>3 DEF Comes
      <4>2. NoRow.workspace = None /\ None # w
        BY TenancyAssumption DEF NoRow
      <4>. QED
        BY <4>1, <4>2
    <3>2. SavePipeline(r) /\ w = held[r].workspace
      <4>1. /\ SavePipeline(r)
            /\ pipeline'[p] = [source |-> held[r].source, workspace |-> held[r].workspace]
        BY <2>1, <3>1, PipelinesAreLocal
      <4>2. pipeline'[p].workspace = held[r].workspace
        BY <4>1
      <4>. QED
        BY <2>3, <4>1, <4>2 DEF Comes
    <3>3. pc[r] = "write" /\ Op(r) \in PipelineOp
      BY <3>2 DEF SavePipeline, Goto
    <3>. QED
      BY <3>2, <3>3 DEF Admission, Served, Ended
  <2>. QED
    BY <2>2, <2>3
<1>. QED
  BY <1>1, <1>2, <1>3, BaseAlways, HasHomesInit, HasHomesStep, PTL DEF Spec, LandsWhereAdmitted
=============================================================================
