------------------------------ MODULE Campaign ------------------------------
(***************************************************************************)
(* main of tools/run_codex_evaluations.py over one AppServer: the catalog, *)
(* then for every requested model the image preflight (probe_vision) and,  *)
(* if it passes, the trials.  A trial is any client of the server here,    *)
(* which is what Trial shows it to be; a preflight is one that is spelt    *)
(* out.  A call of vision_probe is "tool_empty", a call of another tool    *)
(* "tool_bad"; what the model wrote is known when its turn has completed.  *)
(***************************************************************************)
EXTENDS Client, TLC

CONSTANTS
    Requested,      \* --models, a sequence
    Efforts,        \* --efforts, a sequence
    Repetitions,    \* --repetitions
    Catalogs        \* catalogs of the server: sequences of pages, which map a model
                    \* to its supported efforts

ASSUME CampaignAssumption == Repetitions \in Nat \ {0} /\ <<>> \notin Catalogs

VARIABLES
    at,             \* where main is
    known, pages,   \* the catalog, and the pages that are yet to come
    model, trial,   \* places in Requested and in Plan
    shown, turn_status, reply,          \* what the preflight has noted
    made,           \* directories made
    summaries, index,                   \* the list, and what index.json can be read as
    runs            \* trials whose run.json is written, in order

catalogVars == <<known, pages>>
noteVars    == <<shown, turn_status, reply>>
fileVars    == <<made, summaries, index, runs>>
vars        == <<clientVars, at, catalogVars, model, trial, noteVars, fileVars>>

(* A pair for every trial of a model: the effort asked for, the repetition. *)
Plan == [i \in 1..Len(Efforts) * Repetitions |->
            <<Efforts[((i - 1) \div Repetitions) + 1], ((i - 1) % Repetitions) + 1>>]

CampaignInit ==
    /\ Init
    /\ at = "connect" /\ known = << >> /\ pages \in Catalogs
    /\ model = 1 /\ trial = 1
    /\ shown = FALSE /\ turn_status = "none" /\ reply = "none"
    /\ made = {} /\ summaries = <<>> /\ index = <<>> /\ runs = <<>>

ServerProcess == Server /\ UNCHANGED <<at, catalogVars, model, trial, noteVars, fileVars>>

(* main is left, by an exception or at its end: the server is closed.       *)
Exit(how) ==
    /\ at' = how
    /\ process' = "ended" /\ turns' = {} /\ asked' = {}
    /\ arrived' = 0 /\ messages' = <<>>
    /\ UNCHANGED <<events, callVars, ownVars>>

Abort ==
    /\ Exit("aborted")
    /\ UNCHANGED <<model, trial, fileVars>>

-----------------------------------------------------------------------------
(* The server and its catalog. *)

(* Nobody closes a server whose constructor raises. *)
OnError == IF at = "connect" THEN "unconnected" ELSE "failed"

(* A call of main itself: initialize, or a page of model/list.              *)
Asks ==
    /\ at \in {"connect", "catalog"} /\ calling = NoCall
    /\ CallBegins(at, 0, 0) \/ CallBreaks
    /\ at' = IF calling' = NoCall THEN OnError ELSE at
    /\ UNCHANGED <<ownVars, catalogVars, model, trial, noteVars, fileVars>>

(* The answer is confirmed, which fails when the process has ended.         *)
Connected ==
    /\ at = "connect"
    /\ \/ CallReturns /\ at' = "catalog"
       \/ CallReturns /\ process = "ended" /\ at' = OnError
       \/ CallRaises  /\ at' = OnError
    /\ UNCHANGED <<ownVars, catalogVars, model, trial, noteVars, fileVars>>

(* The first entry of a name counts. *)
Listed ==
    /\ at = "catalog"
    /\ \/ /\ CallReturns
          /\ known' = known @@ Head(pages)
          /\ pages' = Tail(pages)
          /\ at' = IF pages' = <<>> THEN "next" ELSE "catalog"
       \/ CallRaises /\ at' = OnError /\ UNCHANGED catalogVars
    /\ UNCHANGED <<ownVars, model, trial, noteVars, fileVars>>

Failed == at = "failed" /\ Abort /\ UNCHANGED <<catalogVars, noteVars>>

-----------------------------------------------------------------------------
(* The preflight. *)

Name == Requested[model]
Preflight == <<"preflight", Name>>

(* The model is unknown, or its directory is there already.                 *)
NoPreflight ==
    /\ at = "next" /\ model <= Len(Requested)
    /\ Name \notin DOMAIN known \/ Preflight \in made
    /\ Abort
    /\ UNCHANGED <<catalogVars, noteVars>>

BeginPreflight ==
    /\ at = "next" /\ model <= Len(Requested)
    /\ Name \in DOMAIN known /\ Preflight \notin made
    /\ Open
    /\ made' = made \cup {Preflight}
    /\ at' = "preflight"
    /\ UNCHANGED <<catalogVars, model, trial, noteVars, summaries, index, runs>>

KeepsCampaign == UNCHANGED <<at, catalogVars, model, trial, fileVars>>

(* The image is sent; respond fails when the process has ended. *)
PreflightTool ==
    /\ at = "preflight" /\ TakeTool /\ tool' = NoMessage
    /\ CASE stage' = "leaving" -> (Head1.kind # "tool_empty" \/ process = "ended")
         [] OTHER -> Head1.kind = "tool_empty"
    /\ shown' = (shown \/ Head1.kind = "tool_empty")
    /\ UNCHANGED <<turn_status, reply>> /\ KeepsCampaign

PreflightNote ==
    /\ at = "preflight" /\ Note
    /\ over' = (Head1.kind \in {"turn_completed", "turn_failed"})
    /\ stage' = IF over' THEN "leaving" ELSE "loop"
    /\ turn_status' = IF over' THEN Head1.kind ELSE turn_status
    /\ reply' \in IF Head1.kind = "turn_completed" THEN {"right", "wrong"} ELSE {reply}
    /\ UNCHANGED shown /\ KeepsCampaign

(* Faulty: the preflight waits for the model as long as it takes. *)
PreflightExpires_Never ==
    at = "preflight" /\ HasTurn /\ GiveUp /\ process = "ended" /\ UNCHANGED noteVars /\ KeepsCampaign

(* 90 seconds are over. *)
PreflightExpires ==
    at = "preflight" /\ HasTurn /\ GiveUp /\ UNCHANGED noteVars /\ KeepsCampaign

PreflightPassed == turn_status = "turn_completed" /\ shown /\ reply = "right"

PreflightEnds ==
    /\ at = "preflight" /\ stage = "done"
    /\ \/ PreflightPassed /\ at' = "trials" /\ trial' = 1 /\ UNCHANGED <<model, summaries>>
       \/ /\ ~PreflightPassed
          /\ summaries' = Append(summaries, Preflight)
          /\ at' = "next" /\ model' = model + 1 /\ UNCHANGED trial
    /\ shown' = FALSE /\ turn_status' = "none" /\ reply' = "none"
    /\ UNCHANGED <<clientVars, catalogVars, made, index, runs>>

-----------------------------------------------------------------------------
(* The trials. *)

Supported == known[Name]
Effort == IF Plan[trial][1] = "maximum" THEN Supported[Len(Supported)] ELSE Plan[trial][1]
Label == <<Name, Effort, Plan[trial][2]>>

(* The model has no such effort, or the directory is there already: two     *)
(* efforts asked for may turn out to be the same one.                       *)
NoTrial ==
    /\ at = "trials" /\ trial <= Len(Plan)
    /\ Effort \notin {Supported[i] : i \in DOMAIN Supported} \/ Label \in made
    /\ Abort
    /\ UNCHANGED <<catalogVars, noteVars>>

BeginTrial ==
    /\ at = "trials" /\ trial <= Len(Plan)
    /\ Effort \in {Supported[i] : i \in DOMAIN Supported} /\ Label \notin made
    /\ Open
    /\ made' = made \cup {Label}
    /\ at' = "trial"
    /\ UNCHANGED <<catalogVars, model, trial, noteVars, summaries, index, runs>>

TrialTurns ==
    /\ at = "trial"
    /\ TakeTool \/ AnswerTool \/ Note \/ Follow \/ GiveUp
    /\ ~over'
    /\ UNCHANGED noteVars /\ KeepsCampaign

(* run_trial writes run.json, whatever raised in it. *)
RecordTrial ==
    /\ at = "trial" /\ stage = "done"
    /\ runs' = Append(runs, Label)
    /\ at' = "recorded"
    /\ UNCHANGED <<clientVars, catalogVars, model, trial, noteVars, made, summaries, index>>

(* Faulty: the index is written at the end only. *)
EndTrial_Late ==
    /\ at = "recorded"
    /\ summaries' = Append(summaries, Label)
    /\ at' = "trials" /\ trial' = trial + 1
    /\ UNCHANGED <<clientVars, catalogVars, model, noteVars, made, index, runs>>

(* It returns, and the trial is listed. *)
EndTrial ==
    /\ at = "recorded"
    /\ summaries' = Append(summaries, Label)
    /\ index' = summaries'
    /\ at' = "trials" /\ trial' = trial + 1
    /\ UNCHANGED <<clientVars, catalogVars, model, noteVars, made, runs>>

ModelDone ==
    /\ at = "trials" /\ trial > Len(Plan)
    /\ at' = "next" /\ model' = model + 1
    /\ UNCHANGED <<clientVars, catalogVars, trial, noteVars, fileVars>>

-----------------------------------------------------------------------------
(* Steps of whichever client there is. *)
Shared ==
    /\ at \in {"preflight", "trial"}
    /\ Opening \/ Skip \/ Lose \/ Leaving
    /\ UNCHANGED noteVars /\ KeepsCampaign

Finish ==
    /\ at = "next" /\ model > Len(Requested)
    /\ Exit("finished")
    /\ index' = summaries
    /\ UNCHANGED <<catalogVars, model, trial, noteVars, made, summaries, runs>>

(* Main is left where none of its own checks is: by a KeyboardInterrupt,    *)
(* which run_trial and probe_vision let through when they have cleaned up,  *)
(* or because something raises that neither catches: the record of a trial  *)
(* or preflight, its events, or the index cannot be written.  Nothing can   *)
(* be read from an index cut short.  In main's own calls it is CallRaises.  *)
BreakOff ==
    /\ \/ at \in {"next", "trials", "recorded"}
       \/ at \in {"preflight", "trial"} /\ stage = "done"
    /\ Exit("broken")
    /\ \/ UNCHANGED index
       \/ /\ at = "recorded" \/ (at = "next" /\ model > Len(Requested))
          /\ index' = <<>>
    /\ UNCHANGED <<catalogVars, model, trial, noteVars, made, summaries, runs>>

Main == \/ Asks \/ Connected \/ Listed \/ Failed
        \/ NoPreflight \/ BeginPreflight \/ PreflightEnds
        \/ NoTrial \/ BeginTrial \/ RecordTrial \/ EndTrial \/ ModelDone \/ Finish

Turns == PreflightTool \/ PreflightNote \/ TrialTurns \/ Shared

CampaignNext == ServerProcess \/ Main \/ Turns \/ PreflightExpires \/ BreakOff

(* The program goes on; its calls, the preflight and the trial have         *)
(* deadlines (Trial's TrialEnds).                                           *)
CampaignSpec ==
    /\ CampaignInit /\ [][CampaignNext]_vars
    /\ WF_vars(Main) /\ WF_vars(Turns) /\ WF_vars(PreflightExpires)
    /\ WF_vars(at = "trial" /\ GiveUp /\ TrialTurns)

-----------------------------------------------------------------------------
(* Properties. *)

Over == at \in {"finished", "aborted", "broken", "unconnected"}

(* What was done is what the list says of trials, each of them once, in order. *)
Lists(list, done) ==
    \E place \in [DOMAIN done -> DOMAIN list] :
        /\ \A i, j \in DOMAIN done : i < j => place[i] < place[j]
        /\ \A i \in DOMAIN done : list[place[i]] = done[i]
        /\ \A j \in DOMAIN list : j \in {place[i] : i \in DOMAIN done} <=> Len(list[j]) = 3

LastRun == runs[Len(runs)]

(* When the campaign has ended, by an exception of main's own too, its      *)
(* index lists every trial that has a run.json, in order and nothing else;  *)
(* if it was broken off, the last of them may be missing, whose run.json    *)
(* was written just before, or the index is cut short.  No trial is of a    *)
(* model whose preflight is listed as failed.                               *)
IndexListsEveryRun ==
    Over =>
        /\ \/ Lists(index, runs)
           \/ at = "broken" /\ (index = <<>> \/ Lists(Append(index, LastRun), runs))
        /\ \A i \in DOMAIN runs : \A j \in DOMAIN summaries :
              summaries[j] # <<"preflight", runs[i][1]>>

(* The campaign comes to an end, however the server behaves, and takes it   *)
(* along once it has connected.                                             *)
CampaignEnds == <>[](Over /\ (process = "ended" \/ at = "unconnected"))
=============================================================================
