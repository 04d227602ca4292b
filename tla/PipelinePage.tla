---------------------------- MODULE PipelinePage -----------------------------
(***************************************************************************)
(* PipelineDetailPage.tsx: a page that shows a pipeline and its runs, can  *)
(* run, pause, resume and clone it, and polls the run it has just started. *)
(* The page is one component from its first pipeline on: going to another  *)
(* pipeline (after a clone, or back) changes its route and keeps the rest. *)
(*                                                                         *)
(* Every call is asked, served, and answered or lost; gets, lists and      *)
(* polls are in the order in which they were asked.  A step of the page is *)
(* a handler up to its next await, with the effects React then runs.  The  *)
(* runs are those of RunContract.                                          *)
(***************************************************************************)
EXTENDS Naturals, Sequences, SequencesExt

CONSTANTS
  Pipeline, NoPipeline, Home,  \* Home is there at the start
  Run, NoRun,
  Earlier,                     \* bound: runs that may be there before the page
  Reported,                    \* bound: statuses of a run that are told apart
  MaxCalls, MaxPolls,          \* bounds: gets and lists, polls under way
  MaxMoves                     \* bound: what the user does

VARIABLES
  status, stage, excused,  \* the runs, see RunContract
  of,         \* pipeline of each run
  switch,     \* is_active of the pipelines there are: "active" or "paused"
  route,      \* id
  shown,      \* pipeline: whose data the page has, and its is_active
  rows,       \* runs: what the table shows
  polling,    \* pollingRunId
  timer,      \* the interval of the effect is set
  act,        \* the call of a button, which disables them all
  gets, lists, polls,
  moves,      \* counted for MaxMoves
  tangled,    \* history: the page missed an answer, or got one out of order
  started,    \* history: runs the page began to poll
  disturbed   \* history: runs whose poll was disturbed

Contract == INSTANCE RunContract

runs == <<status, stage, excused, of>>
server == <<runs, switch>>
view == <<route, shown, rows>>
poller == <<polling, timer, polls, started, disturbed>>
vars == <<server, view, poller, act, gets, lists, moves, tangled>>

TerminalStatuses == {"SUCCEEDED", "FAILED"}

Known == DOMAIN switch

Unserved == "unserved"

Get(p, reload) == [of |-> p, reload |-> reload, data |-> Unserved]
List(p) == [of |-> p, served |-> FALSE, data |-> <<>>]
Poll(r) == [run |-> r, own |-> TRUE, data |-> Unserved]

NoAct == [at |-> "none", call |-> "none", key |-> NoPipeline, run |-> NoRun, data |-> Unserved]

Init ==
  /\ Contract!ContractInit /\ excused = {}
  /\ of = [r \in Run |-> NoPipeline]
  /\ switch = [p \in {Home} |-> "active"]
  /\ route = NoPipeline
  /\ shown = [id |-> NoPipeline, switch |-> "paused"]
  /\ rows = <<>>
  /\ polling = NoRun /\ timer = FALSE
  /\ act = NoAct
  /\ gets = <<>> /\ lists = <<>> /\ polls = <<>>
  /\ moves = 0
  /\ tangled = FALSE /\ started = {} /\ disturbed = {}

(* The calls of a kind that were asked before call i. *)
Before(i) == 1 .. (i - 1)

-----------------------------------------------------------------------------
(* The back end.                                                           *)

Open(r, p) ==
  /\ Contract!Open(r)
  /\ of' = [of EXCEPT ![r] = p]
  /\ UNCHANGED excused

(* A run that was opened goes on, for ever if its promise is broken, which *)
(* shows in nothing the page reads.  It disturbs its poll when it starts   *)
(* again after an end that a poll may have read.                           *)
Proceed(r) ==
  /\ Contract!Keep(r) \/ \E s \in Reported \ {status[r]} : Contract!Show(r, s)
  /\ disturbed' =
       IF /\ status[r] \in TerminalStatuses /\ status'[r] \notin TerminalStatuses
          /\ \E i \in DOMAIN polls : polls[i].run = r
       THEN disturbed \cup {r} ELSE disturbed
  /\ UNCHANGED <<excused, of, switch, view, polling, timer, polls, started, act, gets, lists, moves, tangled>>

(* A run from before: of beat, of a retry, of another user. *)
OpenElsewhere(r) ==
  /\ r \in Earlier /\ route = NoPipeline
  /\ \E p \in Known : Open(r, p)
  /\ UNCHANGED <<switch, view, poller, act, gets, lists, moves, tangled>>

(* An answer is of a later state than those to the calls served before it. *)
ServeGet(i) ==
  /\ gets[i].data = Unserved
  /\ gets' = [gets EXCEPT ![i].data = switch[gets[i].of]]
  /\ tangled' = (tangled \/ \E j \in Before(i) : gets[j].data = Unserved)
  /\ UNCHANGED <<server, view, poller, act, lists, moves>>

(* GET /pipelines/<id>/runs/.  Their order plays no part. *)
ServeList(i) ==
  /\ ~lists[i].served
  /\ lists' = [lists EXCEPT ![i].served = TRUE, ![i].data =
       SetToSeq({[run |-> r, status |-> status[r]] : r \in {r \in Run : of[r] = lists[i].of}})]
  /\ UNCHANGED <<server, view, poller, act, gets, moves, tangled>>

ServePoll(i) ==
  LET r == polls[i].run IN
  /\ polls[i].data = Unserved
  /\ polls' = [polls EXCEPT ![i].data = status[r]]
  /\ disturbed' = IF \E j \in Before(i) : polls[j].data = Unserved
                  THEN disturbed \cup {r} ELSE disturbed
  /\ UNCHANGED <<server, view, polling, timer, started, act, gets, lists, moves, tangled>>

ServeRun(r) ==
  /\ act.at = "sent" /\ act.call = "run"
  /\ Open(r, act.key)
  /\ act' = [act EXCEPT !.at = "opened", !.run = r]
  /\ UNCHANGED <<switch, view, poller, gets, lists, moves, tangled>>

(* refresh_from_db: the answer has what became of the run so far. *)
ReadRun ==
  /\ act.at = "opened"
  /\ act' = [act EXCEPT !.at = "served", !.data = status[act.run]]
  /\ UNCHANGED <<server, view, poller, gets, lists, moves, tangled>>

ServeClone(p) ==
  /\ act.at = "sent" /\ act.call = "clone"
  /\ p \notin Known
  /\ switch' = [q \in Known \cup {p} |-> IF q = p THEN "paused" ELSE switch[q]]
  /\ act' = [act EXCEPT !.at = "served", !.data = p]
  /\ UNCHANGED <<runs, view, poller, gets, lists, moves, tangled>>

ServeToggle ==
  /\ act.at = "sent" /\ act.call \in {"pause", "resume"}
  /\ switch' = [switch EXCEPT ![act.key] = IF act.call = "pause" THEN "paused" ELSE "active"]
  /\ act' = [act EXCEPT !.at = "served"]
  /\ UNCHANGED <<runs, view, poller, gets, lists, moves, tangled>>

-----------------------------------------------------------------------------
(* The page.                                                               *)

Move == moves < MaxMoves /\ moves' = moves + 1

Room == Len(gets) < MaxCalls /\ Len(lists) < MaxCalls

(* The user comes to the page of a pipeline, or goes back to one: the      *)
(* effect of a new id loads it and its runs.                               *)
GoTo(p) ==
  /\ p \in Known \ {route} /\ Room
  /\ Move
  /\ route' = p
  /\ gets' = Append(gets, Get(p, FALSE))
  /\ lists' = Append(lists, List(p))
  /\ tangled' = IF act.at = "none" /\ gets = <<>> /\ lists = <<>> THEN FALSE ELSE TRUE
  /\ disturbed' = disturbed \cup started
  /\ UNCHANGED <<server, shown, rows, polling, timer, polls, started, act>>

(* Run now, Pause or Resume, Clone: for the id of the route. *)
Click(call) ==
  /\ shown.id # NoPipeline /\ act.at = "none"
  /\ Move
  /\ call = "pause" => shown.switch = "active"
  /\ call = "resume" => shown.switch = "paused"
  /\ act' = [NoAct EXCEPT !.at = "sent", !.call = call, !.key = route]
  /\ UNCHANGED <<server, view, poller, gets, lists, tangled>>

(* The effect without its dependency: it runs when the page is mounted.    *)
SetRunsOnly(new, q) == rows' = new /\ polls' = q /\ UNCHANGED timer

(* setRuns, and the effect if runs.length has changed: the interval is     *)
(* cleared, and set anew if there is a run to poll.  q is polls by then.   *)
SetRuns(new, q) ==
  /\ rows' = new
  /\ IF Len(new) # Len(rows)
     THEN /\ timer' = (polling' # NoRun)
          /\ polls' = [i \in DOMAIN q |-> [q[i] EXCEPT !.own = FALSE]]
     ELSE UNCHANGED timer /\ polls' = q

(* handleRun.  The run that was polled is no longer, and calls still under *)
(* way may end the new poll or take its row away.                          *)
RunAnswered ==
  LET r == act.run
      due == act.data \notin TerminalStatuses IN
  /\ act.at = "served" /\ act.call = "run" /\ Len(gets) < MaxCalls
  /\ polling' = IF due THEN r ELSE polling
  /\ SetRuns(<<[run |-> r, status |-> act.data]>> \o rows, polls)
  /\ started' = IF due THEN started \cup {r} ELSE started
  /\ disturbed' = disturbed
       \cup (IF due THEN started ELSE {})
       \cup (IF polls # <<>> \/ lists # <<>> THEN {r} ELSE {})
  /\ act' = [NoAct EXCEPT !.at = "reloading"]
  /\ gets' = Append(gets, Get(act.key, TRUE))
  /\ UNCHANGED <<server, route, shown, lists, moves, tangled>>

(* A clone whose page does not load anew for another id. *)
CloneOnly ==
  LET p == act.data IN
  /\ act.at = "served" /\ act.call = "clone" /\ Len(gets) < MaxCalls
  /\ route' = p
  /\ gets' = Append(gets, Get(act.key, TRUE))
  /\ act' = [NoAct EXCEPT !.at = "reloading"]
  /\ disturbed' = disturbed \cup started
  /\ UNCHANGED <<server, shown, rows, polling, timer, polls, started, lists, moves, tangled>>

(* handleClone: navigate, then the loadPipeline of the old id, then the    *)
(* effect of the new one.                                                  *)
CloneAnswered ==
  LET p == act.data IN
  /\ act.at = "served" /\ act.call = "clone"
  /\ Len(gets) + 1 < MaxCalls /\ Len(lists) < MaxCalls
  /\ route' = p
  /\ gets' = gets \o <<Get(act.key, TRUE), Get(p, FALSE)>>
  /\ lists' = Append(lists, List(p))
  /\ act' = [NoAct EXCEPT !.at = "reloading"]
  /\ disturbed' = disturbed \cup started
  /\ UNCHANGED <<server, shown, rows, polling, timer, polls, started, moves, tangled>>

ToggleAnswered ==
  /\ act.at = "served" /\ act.call \in {"pause", "resume"} /\ Len(gets) < MaxCalls
  /\ act' = [NoAct EXCEPT !.at = "reloading"]
  /\ gets' = Append(gets, Get(act.key, TRUE))
  /\ UNCHANGED <<server, view, poller, lists, moves, tangled>>

(* The page shows an error and knows nothing of a run that was opened.     *)
ActionLost ==
  /\ act.at \in {"sent", "opened", "served"}
  /\ act' = NoAct
  /\ tangled' = TRUE
  /\ UNCHANGED <<server, view, poller, gets, lists, moves>>

(* loadPipeline.  The reload after an action ends it. *)
GetAnswered(i) ==
  /\ gets[i].data # Unserved
  /\ shown' = [id |-> gets[i].of, switch |-> gets[i].data]
  /\ gets' = RemoveAt(gets, i)
  /\ act' = IF gets[i].reload THEN NoAct ELSE act
  /\ tangled' = (tangled \/ i # 1)
  /\ UNCHANGED <<server, route, rows, poller, lists, moves>>

(* runAction without its finally. *)
GetLostBusy(i) ==
  /\ gets' = RemoveAt(gets, i)
  /\ tangled' = TRUE
  /\ UNCHANGED <<server, view, poller, act, lists, moves>>

GetLost(i) ==
  /\ gets' = RemoveAt(gets, i)
  /\ act' = IF gets[i].reload THEN NoAct ELSE act
  /\ tangled' = TRUE
  /\ UNCHANGED <<server, view, poller, lists, moves>>

ListAnswered(i) ==
  /\ lists[i].served
  /\ UNCHANGED polling
  /\ SetRuns(lists[i].data, polls)
  /\ lists' = RemoveAt(lists, i)
  /\ tangled' = (tangled \/ i # 1)
  /\ UNCHANGED <<server, route, shown, started, disturbed, act, gets, moves>>

ListLost(i) ==
  /\ lists' = RemoveAt(lists, i)
  /\ tangled' = TRUE
  /\ UNCHANGED <<server, view, poller, act, gets, moves>>

(* The interval, whether or not the poll before it has been answered. *)
Tick ==
  /\ timer /\ polling # NoRun /\ Len(polls) < MaxPolls
  /\ polls' = Append(polls, Poll(polling))
  /\ UNCHANGED <<server, view, polling, timer, started, disturbed, act, gets, lists, moves, tangled>>

(* A terminal answer that ends the poll before it is shown. *)
UpdatedWhileOpen(r, s) ==
  IF s \in TerminalStatuses THEN rows
  ELSE [i \in DOMAIN rows |-> IF rows[i].run = r THEN [rows[i] EXCEPT !.status = s] ELSE rows[i]]

Updated(r, s) ==
  [i \in DOMAIN rows |-> IF rows[i].run = r THEN [rows[i] EXCEPT !.status = s] ELSE rows[i]]

(* A poll that has come to an end stops the polling, whatever is polled by *)
(* now, and the interval it was made from.                                 *)
PollAnswered(i) ==
  LET r == polls[i].run
      ends == polls[i].data \in TerminalStatuses IN
  /\ polls[i].data # Unserved
  /\ rows' = Updated(r, polls[i].data)
  /\ polling' = IF ends THEN NoRun ELSE polling
  /\ timer' = (timer /\ ~(ends /\ polls[i].own))
  /\ polls' = RemoveAt(polls, i)
  /\ disturbed' = IF i # 1 THEN disturbed \cup {r} ELSE disturbed
  /\ UNCHANGED <<server, route, shown, started, act, gets, lists, moves, tangled>>

PollLost(i) ==
  /\ polls' = RemoveAt(polls, i)
  /\ UNCHANGED <<server, view, polling, timer, started, disturbed, act, gets, lists, moves, tangled>>

Next ==
  \/ \E r \in Run : Proceed(r) \/ OpenElsewhere(r) \/ ServeRun(r)
  \/ ReadRun
  \/ \E p \in Pipeline : ServeClone(p) \/ GoTo(p)
  \/ ServeToggle
  \/ \E call \in {"run", "pause", "resume", "clone"} : Click(call)
  \/ RunAnswered
  \/ CloneAnswered
  \/ ToggleAnswered
  \/ ActionLost
  \/ \E i \in DOMAIN gets : ServeGet(i) \/ GetAnswered(i) \/ GetLost(i)
  \/ \E i \in DOMAIN lists : ServeList(i) \/ ListAnswered(i) \/ ListLost(i)
  \/ Tick
  \/ \E i \in DOMAIN polls : ServePoll(i) \/ PollAnswered(i) \/ PollLost(i)

Spec == Init /\ [][Next]_vars

(* The interval goes off, and not every poll, nor every answer to one, is  *)
(* lost.  Nothing is asked of the runs or the user.                        *)
Fairness ==
  /\ WF_vars(Tick)
  /\ SF_vars(\E i \in DOMAIN polls : ServePoll(i))
  /\ SF_vars(\E i \in DOMAIN polls : PollAnswered(i))

FairSpec == Spec /\ Fairness

-----------------------------------------------------------------------------
(* Properties.                                                             *)

RowsOf(r) == {i \in DOMAIN rows : rows[i].run = r}

(* Besides the types: actionBusy lasts until the reload has ended. *)
TypeOK ==
  /\ route \in Pipeline \cup {NoPipeline} /\ Known \subseteq Pipeline
  /\ shown.id \in Known \cup {NoPipeline}
  /\ \A i \in DOMAIN rows : rows[i].run \in Run /\ rows[i].status \in Contract!Shown
  /\ polling \in Run \cup {NoRun} /\ timer \in BOOLEAN
  /\ started \subseteq Run /\ disturbed \subseteq Run
  /\ \A i \in DOMAIN polls : polls[i].data \in {Unserved} \cup Contract!Shown
  /\ act.at = "reloading" <=> \E i \in DOMAIN gets : gets[i].reload

(* A run the page has started is either shown with an end or still polled, *)
(* unless something disturbed its poll: another run started from the page, *)
(* a list or poll under way when the run was started, polls that overtake  *)
(* one another, a run that starts over meanwhile, or another route.        *)
StartedRunIsWatched ==
  \A r \in started \ disturbed :
    \/ polling = r /\ timer
    \/ RowsOf(r) # {} /\ \A i \in RowsOf(r) : rows[i].status \in TerminalStatuses

(* "Polls the just-triggered run until it reaches a terminal status": once *)
(* the run has come to its end the page shows an end, unless disturbed.    *)
StartedRunIsSeenToEnd ==
  \A r \in Run :
    (r \in started /\ stage[r] = "kept") ~>
      (r \in disturbed \/ \E i \in RowsOf(r) : rows[i].status \in TerminalStatuses)

(* Once all is answered, in the order asked, the page shows the pipeline   *)
(* of its route, whether it is active, and runs of that pipeline, through  *)
(* clones, actions and ways back.                                          *)
PageIsOfItsRoute ==
  route # NoPipeline /\ ~tangled /\ gets = <<>> /\ lists = <<>> /\ act.at = "none" =>
    /\ shown = [id |-> route, switch |-> switch[route]]
    /\ \A i \in DOMAIN rows : of[rows[i].run] = route

(* The page is about its route, and about the run it has started. *)
PageIsInStep == PageIsOfItsRoute /\ StartedRunIsWatched
=============================================================================
