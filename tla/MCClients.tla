------------------------------ MODULE MCClients ------------------------------
(***************************************************************************)
(* What clients of the API go through, on small instances: the retries of  *)
(* a request (Idempotency), the tabs of a browser (Session) and the page   *)
(* of a pipeline (PipelinePage).  They share no state, so that a behaviour *)
(* is one of any of them: `part` says of which, and the others stay at an  *)
(* initial state.                                                          *)
(***************************************************************************)
EXTENDS Idempotency, TLC

CONSTANTS
  Tab, Account, Nobody, NoToken, Form, Panel,
  NoPipeline, Home, PageRun, Earlier, Reported, MaxCalls, MaxPolls, MaxMoves

VARIABLES
  part,
  account, access, refresh, user, loading, renewing, req, late, split,
  status, stage, excused, of, switch, route, shown, rows, polling, timer,
  act, gets, lists, polls, moves, tangled, started, disturbed

page == <<status, stage, excused, of, switch, route, shown, rows, polling, timer,
          act, gets, lists, polls, moves, tangled, started, disturbed>>
browser == <<account, access, refresh, user, loading, renewing, req, late, split>>

(* Two requests at once, and one account that is deactivated: not both. *)
Session == INSTANCE Session WITH User <- Account, MaxInFlight <- 2, MaxSuspended <- 0
Admin == INSTANCE Session WITH User <- Account, MaxInFlight <- 1, MaxSuspended <- 1

Page == INSTANCE PipelinePage WITH Run <- PageRun

(* The names of nothing name nothing, and a page has its requests. *)
ASSUME BrowserAssumption ==
  /\ NoToken \notin Session!Token /\ Nobody \notin Account
  /\ "boot" \notin Form \cup Panel /\ Form \cap Panel = {}

ASSUME PageAssumption ==
  /\ NoPipeline \notin Pipeline /\ Home \in Pipeline /\ NoRun \notin PageRun
  /\ Reported \subseteq Page!Contract!Shown /\ IsFiniteSet(PageRun)

ClientsInit ==
  /\ part \in {"request", "browser", "forms", "admin", "page"}
  /\ Init /\ Session!Init /\ Page!Init
  /\ part # "request" => header = [q \in Request |-> CHOOSE h \in Header : h.key = NoKey]

(* Bounds: either tabs that use one form each, or one that uses them all,   *)
(* and whose pages ask nothing.                                            *)
FirstForm == CHOOSE f \in Form : TRUE

OneForm == \A t \in Tab, f \in Form \ {FirstForm} : req'[t][f].at = "idle"

OneTab == \E t \in Tab : \A v \in Tab, s \in Session!Slot :
  /\ v # t => user'[v] = Nobody
  /\ v # t \/ s \in Panel => req'[v][s].at = "idle"

ClientsNext ==
  /\ UNCHANGED part
  /\ \/ part = "request" /\ Next /\ UNCHANGED <<browser, page>>
     \/ part = "browser" /\ Session!Next /\ OneForm /\ UNCHANGED <<vars, page>>
     \/ part = "forms" /\ Session!Next /\ OneTab /\ UNCHANGED <<vars, page>>
     \/ part = "admin" /\ Admin!Next /\ UNCHANGED <<vars, page>>
     \/ part = "page" /\ Page!Next /\ UNCHANGED <<vars, browser>>

ClientsSpec == ClientsInit /\ [][ClientsNext]_<<part, vars, browser, page>>

(* Every permutation is tried on every state, so there should be few: the  *)
(* configuration names accounts as requests and tabs as runs, and one      *)
(* permutation serves both.                                                *)
Symmetry == Permutations(Account) \cup Permutations(Tab)

(* The types of Session and PipelinePage, with who is loading, waiting or   *)
(* busy: nobody for longer than an answer is due.                           *)
PartsTypeOK == Session!TypeOK /\ Page!TypeOK

(* The tokens are of one user, and tabs show that user (Session). *)
SessionIsOfOneUser == Session!SessionIsOfOneUser

(* An access token that expires signs nobody out (Session). *)
LiveSessionIsKept == Session!LiveSessionIsKept

(* The page is about its route, and about the run it has started: polled or *)
(* shown with its end (PipelinePage).                                       *)
PageIsInStep == Page!PageIsInStep
=============================================================================
