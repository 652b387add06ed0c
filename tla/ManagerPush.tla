---------------------------- MODULE ManagerPush -----------------------------
(***************************************************************************)
(* The Manager's A2A plugin (manager-a2a-plugin/src/index.ts): a2a_send    *)
(* submits a task, and the Manager session is woken with the result when   *)
(* the task ends, on a push notification of the agent or by polling.       *)
(*                                                                         *)
(* The plugin runs on one event loop, so a step here is the code between   *)
(* two awaits.  pendingTasks and scheduledTasks are the module's maps; a   *)
(* task is in processingTasks while its scheduleManagerCompletion call is  *)
(* between its first and its last await, which is what completion records, *)
(* for each of the places that make the call.                              *)
(*                                                                         *)
(* A task has ended when its state is one of TERMINAL_TASK_STATES.  A push *)
(* carries a state, or none if it announces an artifact.                   *)
(***************************************************************************)
EXTENDS Naturals, Sequences, FiniteSets

CONSTANTS
  Task,         \* tasks the Manager submits
  PushTask,     \* those of agents whose card offers push notifications
  Artifacts,    \* agents announce an artifact before the task ends
  Faulty,       \* calls may fail and pushes may be lost
  MaxRestarts,  \* bound on restarts of the plugin
  MaxWakes      \* bound on the wake-ups of one task

ASSUME PushAssumption ==
  /\ PushTask \subseteq Task
  /\ Artifacts \in BOOLEAN /\ Faulty \in BOOLEAN
  /\ MaxRestarts \in Nat /\ MaxWakes \in Nat

VARIABLES
  send,        \* where the a2a_send call of a task is
  pending,     \* pendingTasks: tasks with a Manager session to wake
  scheduled,   \* scheduledTasks
  completion,  \* the scheduleManagerCompletion call of a task under way
  poll,        \* pollManagerCompletion of a task
  remote,      \* the task at its agent
  subscribed,  \* the agent has a push configuration with the current token
  pushes,      \* notifications under way, in the order they were sent
  wakes,       \* how often the Manager was woken for the task
  restarts,
  doubtful,    \* history: a wake-up was delivered and reported as failed
  failed,      \* history: a call for the task failed, or a push was lost
  dropped      \* history: a push was ignored because a call was under way

pluginVars == <<send, pending, scheduled, completion, poll>>
agentVars == <<remote, subscribed, pushes>>
historyVars == <<wakes, restarts, doubtful, failed, dropped>>
vars == <<pluginVars, agentVars, historyVars>>

Caller == {"send", "push", "poll"}

TypeOK ==
  /\ send \in [Task -> {"new", "submitting", "configuring", "checking", "returned", "failed"}]
  /\ pending \in SUBSET Task /\ scheduled \in SUBSET Task
  /\ completion \in [Task \X Caller ->
       {"none", "asking", "running", "ended", "waking", "woken"}]
  /\ poll \in [Task -> {"off", "on", "stopped"}]
  /\ remote \in [Task -> {"none", "working", "artifact", "ended"}]
  /\ subscribed \in SUBSET PushTask
  /\ pushes \in [Task -> Seq({"artifact", "ended"})]
  /\ wakes \in [Task -> 0 .. MaxWakes]
  /\ restarts \in 0 .. MaxRestarts
  /\ doubtful \in SUBSET Task /\ failed \in SUBSET Task /\ dropped \in SUBSET Task

Init ==
  /\ send = [t \in Task |-> "new"]
  /\ pending = {} /\ scheduled = {}
  /\ completion = [call \in Task \X Caller |-> "none"]
  /\ poll = [t \in Task |-> "off"]
  /\ remote = [t \in Task |-> "none"]
  /\ subscribed = {}
  /\ pushes = [t \in Task |-> <<>>]
  /\ wakes = [t \in Task |-> 0]
  /\ restarts = 0
  /\ doubtful = {} /\ failed = {} /\ dropped = {}

-----------------------------------------------------------------------------
(* The agent.  It pushes every event of a task somebody subscribed to. *)

Push(t, event) ==
  pushes' = IF t \in subscribed THEN [pushes EXCEPT ![t] = Append(@, event)] ELSE pushes

Announce(t) ==
  /\ Artifacts
  /\ remote[t] = "working"
  /\ remote' = [remote EXCEPT ![t] = "artifact"]
  /\ Push(t, "artifact")
  /\ UNCHANGED <<pluginVars, subscribed, historyVars>>

End(t) ==
  /\ remote[t] \in {"working", "artifact"}
  /\ remote' = [remote EXCEPT ![t] = "ended"]
  /\ Push(t, "ended")
  /\ UNCHANGED <<pluginVars, subscribed, historyVars>>

-----------------------------------------------------------------------------
(* scheduleManagerCompletion. *)

Sending(t, place) == send' = [send EXCEPT ![t] = place]

(* The call c[2] made for the task c[1] gets to its next await. *)
Goes(c, place) == completion' = [completion EXCEPT ![c] = place]

Processing(t) == \E by \in Caller : completion[<<t, by>>] # "none"

(* Mutant of Guarded: only the delivered tasks are looked at. *)
GuardedByScheduled(t) == t \in scheduled

(* Somebody else sees to the task: the call returns at once. *)
Guarded(t) == t \in scheduled \/ Processing(t)

(* The agent answers GetTask with the state the task has at that moment. *)
Answer(c) ==
  /\ completion[c] = "asking"
  /\ Goes(c, IF remote[c[1]] = "ended" THEN "ended" ELSE "running")
  /\ UNCHANGED <<send, pending, scheduled, poll, agentVars, historyVars>>

(* a2a_send returns once its call has; the other callers do not wait. *)
CallReturns(c) ==
  IF c[2] = "send" THEN Sending(c[1], "returned") ELSE UNCHANGED send

StillRunning(c) ==
  /\ completion[c] = "running"
  /\ Goes(c, "none")
  /\ CallReturns(c)
  /\ UNCHANGED <<pending, scheduled, poll, agentVars, historyVars>>

HasEnded(c) == completion[c] = "ended"

Schedule(c) ==
  /\ HasEnded(c)
  /\ scheduled' = scheduled \cup {c[1]}
  /\ Goes(c, "waking")
  /\ UNCHANGED <<send, pending, poll, agentVars, historyVars>>

Wake(c) ==
  /\ completion[c] = "waking"
  /\ wakes[c[1]] < MaxWakes
  /\ wakes' = [wakes EXCEPT ![c[1]] = @ + 1]
  /\ Goes(c, "woken")
  /\ UNCHANGED <<send, pending, scheduled, poll, agentVars, restarts, doubtful, failed, dropped>>

(* The Gateway reports the end of the Manager's turn. *)
Delivered(c) ==
  /\ completion[c] = "woken"
  /\ pending' = pending \ {c[1]}
  /\ Goes(c, "none")
  /\ CallReturns(c)
  /\ poll' = [poll EXCEPT ![c[1]] = "off"]
  /\ UNCHANGED <<scheduled, agentVars, historyVars>>

(* Mutant of Forgotten: the session is dropped whoever made the call. *)
ForgottenByAll(c) ==
  /\ pending' = pending \ {c[1]}
  /\ IF c[2] = "send" THEN Sending(c[1], "failed") ELSE UNCHANGED send

(* a2a_send forgets the task and raises, a push is not retried, a poll     *)
(* goes on.                                                                *)
Forgotten(c) ==
  IF c[2] = "send" THEN Sending(c[1], "failed") /\ pending' = pending \ {c[1]}
  ELSE UNCHANGED <<send, pending>>

(* GetTask or the wake-up raises. *)
CompletionFails(c) ==
  /\ Faulty
  /\ completion[c] # "none"
  /\ scheduled' = scheduled \ {c[1]}
  /\ Goes(c, "none")
  /\ Forgotten(c)
  /\ doubtful' = IF completion[c] = "woken" THEN doubtful \cup {c[1]} ELSE doubtful
  /\ failed' = failed \cup {c[1]}
  /\ UNCHANGED <<poll, agentVars, wakes, restarts, dropped>>

-----------------------------------------------------------------------------
(* The tool a2a_send. *)

(* SendMessage reaches the agent. *)
Submit(t) ==
  /\ send[t] = "new"
  /\ Sending(t, "submitting")
  /\ remote' = [remote EXCEPT ![t] = "working"]
  /\ UNCHANGED <<pending, scheduled, completion, poll, subscribed, pushes, historyVars>>

(* The answer shows a task that has ended already. *)
SubmittedEnded(t) ==
  /\ send[t] = "submitting"
  /\ remote[t] = "ended"
  /\ Sending(t, "returned")
  /\ UNCHANGED <<pending, scheduled, completion, poll, agentVars, historyVars>>

(* Mutant of SubmittedRunning: a task that is not pushed is not polled.    *)
RunningUnpolled(t) ==
  /\ send[t] = "submitting"
  /\ pending' = pending \cup {t}
  /\ Sending(t, IF t \in PushTask THEN "configuring" ELSE "returned")
  /\ UNCHANGED <<scheduled, completion, poll, agentVars, historyVars>>

(* The answer shows the task as it was when it was accepted. *)
SubmittedRunning(t) ==
  /\ send[t] = "submitting"
  /\ pending' = pending \cup {t}
  /\ IF t \in PushTask THEN Sending(t, "configuring") /\ UNCHANGED poll
     ELSE Sending(t, "returned") /\ poll' = [poll EXCEPT ![t] = "on"]
  /\ UNCHANGED <<scheduled, completion, agentVars, historyVars>>

(* CreateTaskPushNotificationConfig reaches the agent. *)
Subscribe(t) ==
  /\ send[t] = "configuring"
  /\ t \notin subscribed
  /\ subscribed' = subscribed \cup {t}
  /\ UNCHANGED <<pluginVars, remote, pushes, historyVars>>

(* Mutant of Configured: the task is not looked at. *)
ConfiguredUnchecked(t) ==
  /\ send[t] = "configuring"
  /\ t \in subscribed
  /\ Sending(t, "returned")
  /\ UNCHANGED <<pending, scheduled, completion, poll, agentVars, historyVars>>

(* The configuration is answered: the task may have ended before it, so it *)
(* is looked at once.                                                      *)
Configured(t) ==
  /\ send[t] = "configuring"
  /\ t \in subscribed
  /\ CASE Guarded(t) -> Sending(t, "returned") /\ UNCHANGED completion
       [] ~Guarded(t) /\ t \in pending ->
            Sending(t, "checking") /\ Goes(<<t, "send">>, "asking")
       [] OTHER -> Sending(t, "failed") /\ UNCHANGED completion
  /\ UNCHANGED <<pending, scheduled, poll, agentVars, historyVars>>

SendFails(t) ==
  /\ Faulty
  /\ send[t] \in {"submitting", "configuring"}
  /\ Sending(t, "failed")
  /\ pending' = pending \ {t}
  /\ failed' = failed \cup {t}
  /\ UNCHANGED <<scheduled, completion, poll, agentVars, wakes, restarts, doubtful, dropped>>

-----------------------------------------------------------------------------
(* pollManagerCompletion, handlePushCallback and the process. *)

(* One round of the loop. *)
Poll(t) ==
  /\ poll[t] = "on"
  /\ t \in pending
  /\ ~Guarded(t)
  /\ Goes(<<t, "poll">>, "asking")
  /\ UNCHANGED <<send, pending, scheduled, poll, agentVars, historyVars>>

(* The deadline has passed between two rounds. *)
PollStops(t) ==
  /\ poll[t] = "on"
  /\ ~Processing(t)
  /\ poll' = [poll EXCEPT ![t] = "stopped"]
  /\ UNCHANGED <<send, pending, scheduled, completion, agentVars, historyVars>>

Pushed(t) == pushes' = [pushes EXCEPT ![t] = Tail(@)]

(* A notification is acted upon unless its task is unknown or seen to. *)
Callback(t) ==
  /\ pushes[t] # <<>>
  /\ Pushed(t)
  /\ IF t \in pending /\ ~Guarded(t)
       THEN Goes(<<t, "push">>, "asking") /\ UNCHANGED dropped
       ELSE /\ dropped' = IF t \in pending THEN dropped \cup {t} ELSE dropped
            /\ UNCHANGED completion
  /\ UNCHANGED <<send, pending, scheduled, poll, remote, subscribed,
                 wakes, restarts, doubtful, failed>>

LosePush(t) ==
  /\ Faulty
  /\ pushes[t] # <<>>
  /\ Pushed(t)
  /\ failed' = failed \cup {t}
  /\ UNCHANGED <<pluginVars, remote, subscribed, wakes, restarts, doubtful, dropped>>

(* The maps and the callback token are in memory: what is pending is       *)
(* forgotten, and pushes with the old token are turned away.               *)
Restart ==
  /\ restarts < MaxRestarts
  /\ restarts' = restarts + 1
  /\ send' = [t \in Task |->
       IF send[t] \in {"submitting", "configuring", "checking"} THEN "failed" ELSE send[t]]
  /\ failed' = failed \cup {t \in Task : send[t] # "new"}
  /\ doubtful' = doubtful \cup {t \in Task : \E by \in Caller : completion[<<t, by>>] = "woken"}
  /\ pending' = {} /\ scheduled' = {}
  /\ completion' = [call \in Task \X Caller |-> "none"]
  /\ poll' = [t \in Task |-> "off"]
  /\ subscribed' = {}
  /\ pushes' = [t \in Task |-> <<>>]
  /\ UNCHANGED <<remote, wakes, dropped>>

-----------------------------------------------------------------------------
AgentStep(t) == Announce(t) \/ End(t)

CompletionStep(c) ==
  Answer(c) \/ StillRunning(c) \/ Schedule(c) \/ Wake(c) \/ Delivered(c)

SendStep(t) ==
  SubmittedEnded(t) \/ SubmittedRunning(t) \/ Subscribe(t) \/ Configured(t)

Next ==
  \/ \E t \in Task :
       \/ AgentStep(t) \/ SendStep(t) \/ Submit(t) \/ Poll(t) \/ Callback(t)
       \/ SendFails(t) \/ LosePush(t) \/ PollStops(t)
  \/ \E c \in Task \X Caller : CompletionStep(c) \/ CompletionFails(c)
  \/ Restart

Spec == Init /\ [][Next]_vars

(* Every task ends at its agent, every call and notification arrives, and  *)
(* the poll loop goes round; nothing has to fail, to be lost or to time    *)
(* out.                                                                    *)
Fairness ==
  \A t \in Task :
    /\ WF_vars(End(t))
    /\ \A by \in Caller : WF_vars(CompletionStep(<<t, by>>))
    /\ WF_vars(SendStep(t))
    /\ WF_vars(Callback(t))
    /\ WF_vars(Poll(t))

LiveSpec == Spec /\ Fairness

-----------------------------------------------------------------------------
(* Properties. *)

(* Whatever calls, pushes and polls race, the Manager is woken at most     *)
(* once for a task, unless a wake-up that did arrive was reported as       *)
(* failed.                                                                 *)
WokenOnce == \A t \in Task : t \notin doubtful => wakes[t] <= 1

(* As long as the Manager was not woken for a registered task, the plugin  *)
(* knows the session to wake, whatever failed; only a restart forgets it.  *)
SessionKept ==
  \A t \in Task :
    /\ send[t] = "returned" /\ (t \in subscribed \/ poll[t] # "off")
    /\ wakes[t] = 0 /\ restarts = 0
    => t \in pending

(* index.ts: "Return after registration; the manager is automatically      *)
(* reawakened with the final artifact."  Once a2a_send has returned for a  *)
(* task it registered, the Manager is woken.                               *)
Registered(t) == t \in pending /\ send[t] = "returned"

Reawakened == \A t \in Task : Registered(t) ~> wakes[t] > 0

(* The only ways to miss the end of a task: a failed call, a push that     *)
(* arrived while an answer to GetTask was under way, or a poll that        *)
(* reached its deadline.                                                   *)
Missed(t) == t \in failed \cup dropped \/ poll[t] = "stopped"

ReawakenedUnlessMissed == \A t \in Task : Registered(t) ~> wakes[t] > 0 \/ Missed(t)

(* A call for the task knows that it has ended, or is about to learn it. *)
EndFound(t) ==
  \E by \in Caller :
    \/ completion[<<t, by>>] \in {"ended", "waking", "woken"}
    \/ completion[<<t, by>>] = "asking" /\ remote[t] = "ended"

(* The agent will announce the end, or has announced it and the push is on *)
(* its way.                                                                *)
EndAnnounced(t) ==
  /\ t \in subscribed
  /\ remote[t] # "ended" \/ \E i \in DOMAIN pushes[t] : pushes[t][i] = "ended"

(* Whatever pushes, polls and answers race, at every moment between the    *)
(* registration of a task and its wake-up its end is found, announced or   *)
(* looked for, unless it was missed in one of these ways.                  *)
EndNeverOverlooked ==
  \A t \in Task :
    Registered(t) /\ wakes[t] = 0 /\ ~Missed(t) =>
      EndFound(t) \/ EndAnnounced(t) \/ poll[t] = "on"

-----------------------------------------------------------------------------
(* What these rest on.  One call at a time sees to a task. *)
OneCall ==
  \A t \in Task : \A by, other \in Caller :
    completion[<<t, by>>] # "none" /\ completion[<<t, other>>] # "none" => by = other

(* A task is scheduled by the time the Manager is woken for it, and not    *)
(* while a call still asks for it; a call made by a2a_send is waited for.  *)
CallsMatch ==
  \A t \in Task, by \in Caller :
    /\ completion[<<t, by>>] \in {"asking", "running", "ended"} => t \notin scheduled
    /\ completion[<<t, by>>] \in {"waking", "woken"} => t \in scheduled
    /\ completion[<<t, by>>] = "woken" => wakes[t] > 0
    /\ completion[<<t, "send">>] # "none" => send[t] = "checking"

Unanswered(t) == send[t] \in {"new", "submitting"}

SendsMatch ==
  \A t \in Task :
    /\ Unanswered(t) => t \notin pending \cup subscribed /\ poll[t] = "off" /\ ~Processing(t)
    /\ send[t] = "configuring" => t \in PushTask

(* After a wake-up nothing starts another: the task is scheduled, or there *)
(* is no session to wake.                                                  *)
WakesKept ==
  \A t \in Task : t \notin doubtful /\ wakes[t] > 0 =>
    /\ wakes[t] = 1
    /\ \A by \in Caller : completion[<<t, by>>] \in {"none", "woken"}
    /\ t \in scheduled \/ t \notin pending
    /\ ~Unanswered(t)

(* The session is known from the answer to SendMessage on. *)
Expected(t) ==
  \/ send[t] \in {"configuring", "checking"}
  \/ send[t] = "returned" /\ (t \in subscribed \/ poll[t] # "off")

SessionsHeld ==
  \A t \in Task : Expected(t) /\ wakes[t] = 0 /\ restarts = 0 => t \in pending

IInv == TypeOK /\ OneCall /\ CallsMatch /\ SendsMatch /\ WakesKept /\ SessionsHeld

(* Beyond these, for EndNeverOverlooked: who is scheduled and was not      *)
(* woken for has a call that does it; an agent sends pushes to those who   *)
(* subscribed; before that nothing sees to a task that will be pushed.     *)
ScheduledIsWoken ==
  \A t \in scheduled :
    wakes[t] > 0 \/ \E by \in Caller : completion[<<t, by>>] \in {"waking", "woken"}

PushesWanted == \A t \in Task : pushes[t] # <<>> => t \in subscribed

QuietBefore ==
  \A t \in Task :
    /\ Unanswered(t) => t \notin scheduled
    /\ send[t] = "configuring" => poll[t] = "off" /\ (t \in subscribed \/ ~Guarded(t))

(* The promise holds before a2a_send returns: while it checks the task,    *)
(* and for a subscribed task from the first call on that sees to it, since *)
(* Configured relies on that call.                                         *)
Awaited(t) ==
  /\ t \in pending
  /\ \/ send[t] \in {"checking", "returned"}
     \/ send[t] = "configuring" /\ t \in subscribed /\ Guarded(t)

EndLookedFor ==
  \A t \in Task :
    Awaited(t) /\ wakes[t] = 0 /\ ~Missed(t) =>
      EndFound(t) \/ EndAnnounced(t) \/ poll[t] = "on"

WatchInv == ScheduledIsWoken /\ PushesWanted /\ QuietBefore /\ EndLookedFor
=============================================================================
