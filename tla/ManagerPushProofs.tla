--------------------------- MODULE ManagerPushProofs --------------------------
(***************************************************************************)
(* Proofs about the Manager's A2A plugin (ManagerPush), for any number of  *)
(* tasks, restarts and wake-ups, with and without push notifications and   *)
(* failing calls.                                                          *)
(*                                                                         *)
(* The argument: one call at a time sees to a task; while it asks, the     *)
(* task is not scheduled, and from the wake-up on it is scheduled or has   *)
(* no session, so that no other call gets as far.  A session is dropped    *)
(* only after a wake-up, with the a2a_send call that fails, or by a        *)
(* restart.  And the end of a task is found, announced or polled for at    *)
(* every moment until the wake-up, or a push was dropped meanwhile.        *)
(***************************************************************************)
EXTENDS ManagerPush, TLAPS

Place == {"none", "asking", "running", "ended", "waking", "woken"}
Where == {"new", "submitting", "configuring", "checking", "returned", "failed"}

-----------------------------------------------------------------------------
(* One call and one send at a time move. *)

LEMMA CallMoves ==
  ASSUME TypeOK, NEW t \in Task, NEW by \in Caller, NEW place \in Place, Goes(<<t, by>>, place)
  PROVE  /\ completion' \in [Task \X Caller -> Place]
         /\ completion'[<<t, by>>] = place
         /\ \A u \in Task, other \in Caller :
              u # t \/ other # by => completion'[<<u, other>>] = completion[<<u, other>>]
<1>1. /\ completion \in [Task \X Caller -> Place] /\ <<t, by>> \in Task \X Caller
      /\ completion' = [completion EXCEPT ![<<t, by>>] = place]
  BY DEF TypeOK, Goes, Place
<1>2. ASSUME NEW u \in Task, NEW other \in Caller, u # t \/ other # by
      PROVE  completion'[<<u, other>>] = completion[<<u, other>>]
  <2>1. <<u, other>> \in Task \X Caller /\ <<u, other>> # <<t, by>>
    BY <1>2
  <2>2. QED
    BY <1>1, <2>1
<1>3. QED
  BY <1>1, <1>2

LEMMA SendMoves ==
  ASSUME TypeOK, NEW t \in Task, NEW place \in Where, Sending(t, place)
  PROVE  /\ send' \in [Task -> Where] /\ send'[t] = place
         /\ \A u \in Task : u # t => send'[u] = send[u]
BY DEF TypeOK, Sending, Where

LEMMA PushTypes ==
  ASSUME TypeOK, NEW t \in Task, NEW event \in {"artifact", "ended"}, Push(t, event)
  PROVE  pushes' \in [Task -> Seq({"artifact", "ended"})]
<1>1. CASE t \in subscribed
  <2>1. Append(pushes[t], event) \in Seq({"artifact", "ended"})
    BY DEF TypeOK
  <2>2. QED
    BY <1>1, <2>1 DEF TypeOK, Push
<1>2. CASE t \notin subscribed
  BY <1>2 DEF TypeOK, Push
<1>3. QED
  BY <1>1, <1>2

LEMMA PushedTypes ==
  ASSUME TypeOK, NEW t \in Task, pushes[t] # <<>>, Pushed(t)
  PROVE  pushes' \in [Task -> Seq({"artifact", "ended"})]
<1>1. Tail(pushes[t]) \in Seq({"artifact", "ended"})
  BY DEF TypeOK
<1>2. QED
  BY <1>1 DEF TypeOK, Pushed

-----------------------------------------------------------------------------
(* What is true before the first step and after a restart. *)

LEMMA InitIInv == Init => IInv
<1> SUFFICES ASSUME Init PROVE IInv
  OBVIOUS
<1>1. TypeOK
  <2>1. <<>> \in Seq({"artifact", "ended"})
    OBVIOUS
  <2>2. QED
    BY <2>1, PushAssumption DEF Init, TypeOK
<1>2. \A t \in Task, by \in Caller : completion[<<t, by>>] = "none"
  BY DEF Init
<1>3. OneCall /\ CallsMatch
  BY <1>2 DEF OneCall, CallsMatch, Caller
<1>4. SendsMatch
  BY <1>2 DEF Init, SendsMatch, Processing, Unanswered
<1>5. WakesKept /\ SessionsHeld
  BY DEF Init, WakesKept, SessionsHeld, Expected
<1>6. QED
  BY <1>1, <1>3, <1>4, <1>5 DEF IInv

LEMMA RestartStep ==
  ASSUME IInv, Restart
  PROVE  IInv'
<1>1. TypeOK'
  <2>1. <<>> \in Seq({"artifact", "ended"})
    OBVIOUS
  <2>2. restarts' \in 0 .. MaxRestarts
    BY PushAssumption DEF IInv, TypeOK, Restart
  <2>3. send' \in [Task -> Where]
    BY DEF IInv, TypeOK, Restart, Where
  <2>4. QED
    BY <2>1, <2>2, <2>3 DEF IInv, TypeOK, Restart, Where
<1>2. \A t \in Task, by \in Caller : completion'[<<t, by>>] = "none"
  BY DEF Restart
<1>3. /\ pending' = {} /\ scheduled' = {} /\ subscribed' = {} /\ wakes' = wakes
      /\ doubtful \subseteq doubtful' /\ restarts' > 0
      /\ \A t \in Task : poll'[t] = "off"
  BY PushAssumption DEF IInv, TypeOK, Restart
<1>4. OneCall' /\ CallsMatch'
  BY <1>2 DEF OneCall, CallsMatch, Caller
<1>5. \A t \in Task : /\ send'[t] # "configuring"
                      /\ ~Unanswered(t) => ~(send'[t] \in {"new", "submitting"})
  BY DEF Restart, Unanswered
<1>6. SendsMatch'
  BY <1>2, <1>3, <1>5 DEF SendsMatch, Processing, Unanswered
<1>7. WakesKept'
  BY <1>2, <1>3, <1>5 DEF IInv, WakesKept, Unanswered
<1>8. SessionsHeld'
  BY <1>3 DEF SessionsHeld
<1>9. QED
  BY <1>1, <1>4, <1>6, <1>7, <1>8 DEF IInv

-----------------------------------------------------------------------------
(* The agents and their notifications. *)

LEMMA PluginSame ==
  ASSUME IInv, TypeOK', UNCHANGED <<pluginVars, subscribed, wakes, restarts, doubtful>>
  PROVE  IInv'
BY DEF IInv, pluginVars, OneCall, CallsMatch, SendsMatch, Processing, Unanswered,
       WakesKept, SessionsHeld, Expected

LEMMA AgentStepKeeps ==
  ASSUME IInv, NEW t \in Task, AgentStep(t)
  PROVE  IInv'
<1>1. CASE Announce(t)
  <2>1. TypeOK'
    BY <1>1, PushTypes DEF IInv, TypeOK, Announce, pluginVars, historyVars
  <2>2. QED
    BY <1>1, <2>1, PluginSame DEF Announce, historyVars
<1>2. CASE End(t)
  <2>1. TypeOK'
    BY <1>2, PushTypes DEF IInv, TypeOK, End, pluginVars, historyVars
  <2>2. QED
    BY <1>2, <2>1, PluginSame DEF End, historyVars
<1>3. QED
  BY <1>1, <1>2 DEF AgentStep

LEMMA LosePushStep ==
  ASSUME IInv, NEW t \in Task, LosePush(t)
  PROVE  IInv'
<1>1. TypeOK'
  BY PushedTypes DEF IInv, TypeOK, LosePush, pluginVars
<1>2. QED
  BY <1>1, PluginSame DEF LosePush

-----------------------------------------------------------------------------
(* A call starts: nobody sees to the task, whose session is known. *)

LEMMA CallStarts ==
  ASSUME IInv, TypeOK', NEW t \in Task, NEW by \in Caller,
         t \in pending, ~Guarded(t), Goes(<<t, by>>, "asking"),
         UNCHANGED <<pending, scheduled, poll, subscribed, wakes, restarts, doubtful>>,
         \/ by = "send" /\ send[t] = "configuring" /\ Sending(t, "checking")
         \/ by # "send" /\ UNCHANGED send
  PROVE  IInv'
<1>1. /\ completion'[<<t, by>>] = "asking"
      /\ \A u \in Task, other \in Caller :
           u # t \/ other # by => completion'[<<u, other>>] = completion[<<u, other>>]
  BY CallMoves DEF IInv, Place
<1>2. t \notin scheduled /\ \A other \in Caller : completion[<<t, other>>] = "none"
  BY DEF Guarded, Processing
<1>3. /\ by = "send" => send'[t] = "checking"
      /\ \A u \in Task :
           \/ send'[u] = send[u]
           \/ u = t /\ send[u] = "configuring" /\ send'[u] = "checking"
  BY SendMoves DEF IInv, Where
<1>4. ~Unanswered(t)
  BY DEF IInv, SendsMatch
<1>5. OneCall'
  BY <1>1, <1>2 DEF IInv, OneCall
<1>6. CallsMatch'
  <2> SUFFICES ASSUME NEW u \in Task, NEW other \in Caller
               PROVE  /\ completion'[<<u, other>>] \in {"asking", "running", "ended"} => u \notin scheduled
                      /\ completion'[<<u, other>>] \in {"waking", "woken"} => u \in scheduled
                      /\ completion'[<<u, other>>] = "woken" => wakes[u] > 0
                      /\ completion'[<<u, "send">>] # "none" => send'[u] = "checking"
    BY DEF CallsMatch
  <2>1. "send" \in Caller
    BY DEF Caller
  <2>2. completion'[<<u, "send">>] # "none" => send'[u] = "checking"
    BY <1>1, <1>2, <1>3, <2>1 DEF IInv, CallsMatch
  <2>3. CASE u = t /\ other = by
    BY <1>1, <1>2, <2>2, <2>3
  <2>4. CASE u # t \/ other # by
    BY <1>1, <2>2, <2>4 DEF IInv, CallsMatch
  <2>5. QED
    BY <2>3, <2>4
<1>7. SendsMatch'
  BY <1>1, <1>3, <1>4 DEF IInv, SendsMatch, Processing, Unanswered
<1>8. WakesKept'
  BY <1>1, <1>2, <1>3 DEF IInv, WakesKept, Unanswered
<1>9. SessionsHeld'
  BY <1>3 DEF IInv, SessionsHeld, Expected
<1>10. QED
  BY <1>5, <1>6, <1>7, <1>8, <1>9 DEF IInv

LEMMA PollStep ==
  ASSUME IInv, NEW t \in Task, Poll(t)
  PROVE  IInv'
<1>1. TypeOK'
  BY CallMoves DEF IInv, TypeOK, Poll, agentVars, historyVars, Place, Caller
<1>2. QED
  BY <1>1, CallStarts DEF Poll, agentVars, historyVars, Caller

LEMMA CallbackStep ==
  ASSUME IInv, NEW t \in Task, Callback(t)
  PROVE  IInv'
<1>1. pushes' \in [Task -> Seq({"artifact", "ended"})]
  BY PushedTypes DEF IInv, Callback
<1>2. CASE t \in pending /\ ~Guarded(t)
  <2>1. Goes(<<t, "push">>, "asking") /\ UNCHANGED dropped
    BY <1>2 DEF Callback
  <2>2. TypeOK'
    BY <1>1, <2>1, CallMoves DEF IInv, TypeOK, Callback, Place, Caller
  <2>3. QED
    BY <1>2, <2>1, <2>2, CallStarts DEF Callback, Caller
<1>3. CASE ~(t \in pending /\ ~Guarded(t))
  <2>1. TypeOK'
    BY <1>1, <1>3 DEF IInv, TypeOK, Callback
  <2>2. QED
    BY <1>3, <2>1, PluginSame DEF Callback, pluginVars
<1>4. QED
  BY <1>2, <1>3

-----------------------------------------------------------------------------
(* A call under way moves on. *)

(* What the task of a call under way is like. *)
LEMMA UnderWay ==
  ASSUME IInv, NEW t \in Task, NEW by \in Caller, completion[<<t, by>>] # "none"
  PROVE  /\ ~Unanswered(t)
         /\ \A other \in Caller : other # by => completion[<<t, other>>] = "none"
         /\ by = "send" => send[t] = "checking"
         /\ completion[<<t, by>>] # "woken" => t \in doubtful \/ ~(wakes[t] > 0)
<1>1. ~Unanswered(t)
  BY DEF IInv, SendsMatch, Processing
<1>2. \A other \in Caller : other # by => completion[<<t, other>>] = "none"
  BY DEF IInv, OneCall
<1>3. by = "send" => send[t] = "checking"
  BY DEF IInv, CallsMatch
<1>4. completion[<<t, by>>] # "woken" => t \in doubtful \/ ~(wakes[t] > 0)
  BY DEF IInv, WakesKept
<1>5. QED
  BY <1>1, <1>2, <1>3, <1>4

(* The call gets to its next await. *)
LEMMA CallGoesOn ==
  ASSUME IInv, NEW t \in Task, NEW by \in Caller, NEW place \in Place,
         completion[<<t, by>>] # "none", place # "none", Goes(<<t, by>>, place),
         UNCHANGED <<send, pending, poll, subscribed>>,
         place \in {"asking", "running", "ended"} => t \notin scheduled',
         place \in {"waking", "woken"} => t \in scheduled',
         place = "woken" => wakes'[t] > 0,
         \A u \in Task : u # t => (u \in scheduled' <=> u \in scheduled) /\ wakes'[u] = wakes[u]
  PROVE  /\ completion' \in [Task \X Caller -> Place] /\ completion'[<<t, by>>] = place
         /\ \A u \in Task, other \in Caller :
              u # t \/ other # by => completion'[<<u, other>>] = completion[<<u, other>>]
         /\ OneCall' /\ CallsMatch' /\ SendsMatch'
<1>1. /\ completion' \in [Task \X Caller -> Place] /\ completion'[<<t, by>>] = place
      /\ \A u \in Task, other \in Caller :
           u # t \/ other # by => completion'[<<u, other>>] = completion[<<u, other>>]
  BY CallMoves DEF IInv
<1>2. /\ ~Unanswered(t)
      /\ \A other \in Caller : other # by => completion[<<t, other>>] = "none"
      /\ by = "send" => send[t] = "checking"
  BY UnderWay
<1>3. OneCall'
  BY <1>1, <1>2 DEF IInv, OneCall
<1>4. CallsMatch'
  <2> SUFFICES ASSUME NEW u \in Task, NEW other \in Caller
               PROVE  /\ completion'[<<u, other>>] \in {"asking", "running", "ended"} => u \notin scheduled'
                      /\ completion'[<<u, other>>] \in {"waking", "woken"} => u \in scheduled'
                      /\ completion'[<<u, other>>] = "woken" => wakes'[u] > 0
                      /\ completion'[<<u, "send">>] # "none" => send'[u] = "checking"
    BY DEF CallsMatch
  <2>1. completion'[<<u, "send">>] # "none" => send'[u] = "checking"
    <3>1. "send" \in Caller
      BY DEF Caller
    <3>2. completion'[<<u, "send">>] # "none" => completion[<<u, "send">>] # "none"
      BY <1>1, <3>1
    <3>3. QED
      BY <3>1, <3>2 DEF IInv, CallsMatch
  <2>2. CASE u = t /\ other = by
    BY <1>1, <2>1, <2>2
  <2>3. CASE u = t /\ other # by
    BY <1>1, <1>2, <2>1, <2>3
  <2>4. CASE u # t
    BY <1>1, <2>1, <2>4 DEF IInv, CallsMatch
  <2>5. QED
    BY <2>2, <2>3, <2>4
<1>5. SendsMatch'
  BY <1>1, <1>2 DEF IInv, SendsMatch, Processing, Unanswered
<1>6. QED
  BY <1>1, <1>3, <1>4, <1>5

LEMMA AnswerStep ==
  ASSUME IInv, NEW t \in Task, NEW by \in Caller, Answer(<<t, by>>)
  PROVE  IInv'
<1> DEFINE place == IF remote[t] = "ended" THEN "ended" ELSE "running"
<1>1. /\ place \in {"ended", "running"} /\ completion[<<t, by>>] = "asking"
      /\ Goes(<<t, by>>, place)
      /\ UNCHANGED <<send, pending, scheduled, poll, agentVars, historyVars>>
  BY DEF Answer
<1> HIDE DEF place
<1>2. t \notin scheduled /\ place \in Place /\ place # "none"
  BY <1>1 DEF IInv, CallsMatch, Place
<1>3. /\ completion' \in [Task \X Caller -> Place] /\ completion'[<<t, by>>] = place
      /\ \A u \in Task, other \in Caller :
           u # t \/ other # by => completion'[<<u, other>>] = completion[<<u, other>>]
      /\ OneCall' /\ CallsMatch' /\ SendsMatch'
  BY <1>1, <1>2, CallGoesOn DEF agentVars, historyVars
<1>4. TypeOK'
  BY <1>1, <1>3 DEF IInv, TypeOK, agentVars, historyVars, Place
<1>5. WakesKept'
  BY <1>1, <1>3, UnderWay DEF IInv, WakesKept, Unanswered, historyVars
<1>6. SessionsHeld'
  BY <1>1 DEF IInv, SessionsHeld, Expected, agentVars, historyVars
<1>7. QED
  BY <1>3, <1>4, <1>5, <1>6 DEF IInv

LEMMA ScheduleStep ==
  ASSUME IInv, NEW t \in Task, NEW by \in Caller, Schedule(<<t, by>>)
  PROVE  IInv'
<1>1. /\ completion[<<t, by>>] = "ended" /\ Goes(<<t, by>>, "waking")
      /\ scheduled' = scheduled \cup {t}
      /\ UNCHANGED <<send, pending, poll, agentVars, historyVars>>
  BY DEF Schedule, HasEnded
<1>2. "waking" \in Place
  BY DEF Place
<1>3. /\ completion' \in [Task \X Caller -> Place] /\ completion'[<<t, by>>] = "waking"
      /\ \A u \in Task, other \in Caller :
           u # t \/ other # by => completion'[<<u, other>>] = completion[<<u, other>>]
      /\ OneCall' /\ CallsMatch' /\ SendsMatch'
  BY <1>1, <1>2, CallGoesOn DEF agentVars, historyVars
<1>4. TypeOK'
  BY <1>1, <1>3 DEF IInv, TypeOK, agentVars, historyVars, Place
<1>5. WakesKept'
  BY <1>1, <1>3, UnderWay DEF IInv, WakesKept, Unanswered, historyVars
<1>6. SessionsHeld'
  BY <1>1 DEF IInv, SessionsHeld, Expected, agentVars, historyVars
<1>7. QED
  BY <1>3, <1>4, <1>5, <1>6 DEF IInv

LEMMA WakeStep ==
  ASSUME IInv, NEW t \in Task, NEW by \in Caller, Wake(<<t, by>>)
  PROVE  IInv'
<1>1. /\ completion[<<t, by>>] = "waking" /\ Goes(<<t, by>>, "woken")
      /\ wakes[t] < MaxWakes /\ wakes' = [wakes EXCEPT ![t] = @ + 1]
      /\ UNCHANGED <<send, pending, scheduled, poll, agentVars, restarts, doubtful, failed, dropped>>
  BY DEF Wake
<1>2. /\ wakes' \in [Task -> 0 .. MaxWakes] /\ wakes'[t] = wakes[t] + 1 /\ wakes[t] \in Nat
      /\ wakes'[t] > 0
      /\ \A u \in Task : u # t => wakes'[u] = wakes[u]
  BY <1>1, PushAssumption DEF IInv, TypeOK
<1>3. /\ completion' \in [Task \X Caller -> Place] /\ completion'[<<t, by>>] = "woken"
      /\ \A u \in Task, other \in Caller :
           u # t \/ other # by => completion'[<<u, other>>] = completion[<<u, other>>]
      /\ OneCall' /\ CallsMatch' /\ SendsMatch'
  <2>1. "woken" \in Place
    BY DEF Place
  <2>2. t \in scheduled
    BY <1>1 DEF IInv, CallsMatch
  <2>3. QED
    BY <1>1, <1>2, <2>1, <2>2, CallGoesOn DEF agentVars
<1>4. TypeOK'
  BY <1>1, <1>2, <1>3 DEF IInv, TypeOK, agentVars, Place
<1>5. WakesKept'
  <2> SUFFICES ASSUME NEW u \in Task, u \notin doubtful', wakes'[u] > 0
               PROVE  /\ wakes'[u] = 1
                      /\ \A other \in Caller : completion'[<<u, other>>] \in {"none", "woken"}
                      /\ u \in scheduled' \/ u \notin pending'
                      /\ ~Unanswered(u)'
    BY DEF WakesKept
  <2>1. CASE u = t
    <3>1. wakes[t] = 0 /\ ~Unanswered(t)
      BY <1>1, <1>2, <2>1, UnderWay
    <3>2. t \in scheduled
      BY <1>1 DEF IInv, CallsMatch
    <3>3. \A other \in Caller : other # by => completion'[<<t, other>>] = "none"
      BY <1>1, <1>3, UnderWay
    <3>4. QED
      BY <1>1, <1>2, <1>3, <2>1, <3>1, <3>2, <3>3 DEF Unanswered
  <2>2. CASE u # t
    BY <1>1, <1>2, <1>3, <2>2 DEF IInv, WakesKept, Unanswered
  <2>3. QED
    BY <2>1, <2>2
<1>6. SessionsHeld'
  BY <1>1, <1>2 DEF IInv, SessionsHeld, Expected, agentVars
<1>7. QED
  BY <1>3, <1>4, <1>5, <1>6 DEF IInv

(* The ways a call ends.  What follows holds of all of them.               *)
LEMMA CallEnds ==
  ASSUME IInv, NEW t \in Task, NEW by \in Caller,
         completion[<<t, by>>] # "none", Goes(<<t, by>>, "none"),
         IF by = "send" THEN Sending(t, "returned") \/ Sending(t, "failed") ELSE UNCHANGED send,
         pending' \in SUBSET pending, pending \ {t} \subseteq pending',
         scheduled' \in SUBSET scheduled, scheduled \ {t} \subseteq scheduled',
         \A u \in Task : poll'[u] = poll[u] \/ (u = t /\ poll'[u] = "off"),
         UNCHANGED <<subscribed, wakes, restarts>>,
         doubtful \subseteq doubtful',
         t \in scheduled /\ t \notin scheduled' /\ completion[<<t, by>>] = "woken" => t \in doubtful'
  PROVE  /\ completion' \in [Task \X Caller -> Place] /\ send' \in [Task -> Where]
         /\ OneCall' /\ CallsMatch' /\ SendsMatch' /\ WakesKept'
<1>1. /\ completion' \in [Task \X Caller -> Place] /\ completion'[<<t, by>>] = "none"
      /\ \A u \in Task, other \in Caller :
           u # t \/ other # by => completion'[<<u, other>>] = completion[<<u, other>>]
  BY CallMoves DEF IInv, Place
<1>2. /\ ~Unanswered(t)
      /\ \A other \in Caller : other # by => completion[<<t, other>>] = "none"
      /\ by = "send" => send[t] = "checking"
      /\ completion[<<t, by>>] # "woken" => t \in doubtful \/ ~(wakes[t] > 0)
  BY UnderWay
<1>3. /\ send' \in [Task -> Where]
      /\ \A u \in Task : \/ send'[u] = send[u]
                         \/ u = t /\ by = "send" /\ send'[u] \in {"returned", "failed"}
  <2>1. CASE by = "send"
    BY <2>1, SendMoves DEF IInv, Where
  <2>2. CASE by # "send"
    BY <2>2 DEF IInv, TypeOK, Where
  <2>3. QED
    BY <2>1, <2>2
<1>4. \A other \in Caller : completion'[<<t, other>>] = "none"
  BY <1>1, <1>2
<1>5. OneCall'
  BY <1>1, <1>4 DEF IInv, OneCall
<1>6. CallsMatch'
  <2> SUFFICES ASSUME NEW u \in Task, NEW other \in Caller
               PROVE  /\ completion'[<<u, other>>] \in {"asking", "running", "ended"} => u \notin scheduled'
                      /\ completion'[<<u, other>>] \in {"waking", "woken"} => u \in scheduled'
                      /\ completion'[<<u, other>>] = "woken" => wakes'[u] > 0
                      /\ completion'[<<u, "send">>] # "none" => send'[u] = "checking"
    BY DEF CallsMatch
  <2>1. "send" \in Caller
    BY DEF Caller
  <2>2. CASE u = t
    BY <1>4, <2>1, <2>2
  <2>3. CASE u # t
    BY <1>1, <1>3, <2>1, <2>3 DEF IInv, CallsMatch
  <2>4. QED
    BY <2>2, <2>3
<1>7. SendsMatch'
  <2> SUFFICES ASSUME NEW u \in Task
               PROVE  /\ Unanswered(u)' => /\ u \notin pending' \cup subscribed' /\ poll'[u] = "off"
                                           /\ ~Processing(u)'
                      /\ send'[u] = "configuring" => u \in PushTask
    BY DEF SendsMatch
  <2>1. /\ Unanswered(u)' => Unanswered(u) /\ u # t
        /\ send'[u] = "configuring" => send[u] = "configuring"
    BY <1>2, <1>3 DEF Unanswered
  <2>2. QED
    BY <1>1, <2>1 DEF IInv, SendsMatch, Processing
<1>8. WakesKept'
  <2> SUFFICES ASSUME NEW u \in Task, u \notin doubtful', wakes'[u] > 0
               PROVE  /\ wakes'[u] = 1
                      /\ \A other \in Caller : completion'[<<u, other>>] \in {"none", "woken"}
                      /\ u \in scheduled' \/ u \notin pending'
                      /\ ~Unanswered(u)'
    BY DEF WakesKept
  <2>1. ~Unanswered(u)'
    BY <1>2, <1>3 DEF IInv, WakesKept, Unanswered
  <2>2. CASE u = t
    BY <1>2, <1>4, <2>1, <2>2 DEF IInv, WakesKept
  <2>3. CASE u # t
    BY <1>1, <2>1, <2>3 DEF IInv, WakesKept
  <2>4. QED
    BY <2>2, <2>3
<1>9. QED
  BY <1>1, <1>3, <1>5, <1>6, <1>7, <1>8

LEMMA StillRunningStep ==
  ASSUME IInv, NEW t \in Task, NEW by \in Caller, StillRunning(<<t, by>>)
  PROVE  IInv'
<1>1. /\ completion[<<t, by>>] = "running" /\ Goes(<<t, by>>, "none")
      /\ IF by = "send" THEN Sending(t, "returned") ELSE UNCHANGED send
      /\ UNCHANGED <<pending, scheduled, poll, agentVars, historyVars>>
  BY DEF StillRunning, CallReturns
<1>2. /\ completion' \in [Task \X Caller -> Place] /\ send' \in [Task -> Where]
      /\ OneCall' /\ CallsMatch' /\ SendsMatch' /\ WakesKept'
  BY <1>1, CallEnds DEF agentVars, historyVars
<1>3. TypeOK'
  BY <1>1, <1>2 DEF IInv, TypeOK, agentVars, historyVars, Place, Where
<1>4. SessionsHeld'
  <2>1. \A u \in Task : \/ send'[u] = send[u]
                        \/ u = t /\ send[u] = "checking"
    BY <1>1, SendMoves, UnderWay DEF IInv, Where
  <2>2. QED
    BY <1>1, <2>1 DEF IInv, SessionsHeld, Expected, agentVars, historyVars
<1>5. QED
  BY <1>2, <1>3, <1>4 DEF IInv

LEMMA DeliveredStep ==
  ASSUME IInv, NEW t \in Task, NEW by \in Caller, Delivered(<<t, by>>)
  PROVE  IInv'
<1>1. /\ completion[<<t, by>>] = "woken" /\ Goes(<<t, by>>, "none")
      /\ IF by = "send" THEN Sending(t, "returned") ELSE UNCHANGED send
      /\ pending' = pending \ {t} /\ poll' = [poll EXCEPT ![t] = "off"]
      /\ UNCHANGED <<scheduled, agentVars, historyVars>>
  BY DEF Delivered, CallReturns
<1>2. /\ poll' \in [Task -> {"off", "on", "stopped"}]
      /\ \A u \in Task : poll'[u] = poll[u] \/ (u = t /\ poll'[u] = "off")
  BY <1>1 DEF IInv, TypeOK
<1>3. /\ completion' \in [Task \X Caller -> Place] /\ send' \in [Task -> Where]
      /\ OneCall' /\ CallsMatch' /\ SendsMatch' /\ WakesKept'
  BY <1>1, <1>2, CallEnds DEF agentVars, historyVars
<1>4. TypeOK'
  BY <1>1, <1>2, <1>3 DEF IInv, TypeOK, agentVars, historyVars, Place, Where
<1>5. SessionsHeld'
  <2>1. \A u \in Task : u # t => send'[u] = send[u]
    BY <1>1, SendMoves DEF IInv, Where
  <2>2. wakes'[t] > 0
    BY <1>1 DEF IInv, CallsMatch, historyVars
  <2>3. QED
    BY <1>1, <1>2, <2>1, <2>2 DEF IInv, SessionsHeld, Expected, agentVars, historyVars
<1>6. QED
  BY <1>3, <1>4, <1>5 DEF IInv

LEMMA CompletionFailsStep ==
  ASSUME IInv, NEW t \in Task, NEW by \in Caller, CompletionFails(<<t, by>>)
  PROVE  IInv'
<1>1. /\ completion[<<t, by>>] # "none" /\ Goes(<<t, by>>, "none")
      /\ scheduled' = scheduled \ {t}
      /\ IF by = "send" THEN Sending(t, "failed") /\ pending' = pending \ {t}
         ELSE UNCHANGED <<send, pending>>
      /\ doubtful' = IF completion[<<t, by>>] = "woken" THEN doubtful \cup {t} ELSE doubtful
      /\ failed' = failed \cup {t}
      /\ UNCHANGED <<poll, agentVars, wakes, restarts, dropped>>
  BY DEF CompletionFails, Forgotten
<1>2. /\ completion' \in [Task \X Caller -> Place] /\ send' \in [Task -> Where]
      /\ OneCall' /\ CallsMatch' /\ SendsMatch' /\ WakesKept'
  <2>1. /\ IF by = "send" THEN Sending(t, "returned") \/ Sending(t, "failed") ELSE UNCHANGED send
        /\ pending' \in SUBSET pending /\ pending \ {t} \subseteq pending'
        /\ scheduled' \in SUBSET scheduled /\ scheduled \ {t} \subseteq scheduled'
    BY <1>1
  <2>2. /\ \A u \in Task : poll'[u] = poll[u] \/ (u = t /\ poll'[u] = "off")
        /\ UNCHANGED <<subscribed, wakes, restarts>>
        /\ doubtful \subseteq doubtful'
        /\ t \in scheduled /\ t \notin scheduled' /\ completion[<<t, by>>] = "woken" => t \in doubtful'
    BY <1>1 DEF agentVars
  <2>3. QED
    BY <1>1, <2>1, <2>2, CallEnds
<1>3. TypeOK'
  BY <1>1, <1>2 DEF IInv, TypeOK, agentVars, Place, Where
<1>4. SessionsHeld'
  <2>1. \A u \in Task : \/ send'[u] = send[u] /\ (u \in pending => u \in pending')
                        \/ send'[u] = "failed"
    BY <1>1, SendMoves DEF IInv, Where
  <2>2. QED
    BY <1>1, <2>1 DEF IInv, SessionsHeld, Expected, agentVars
<1>5. QED
  BY <1>2, <1>3, <1>4 DEF IInv

-----------------------------------------------------------------------------
(* a2a_send moves outside its call, and the poll loop stops. *)

LEMMA SendOnly ==
  ASSUME IInv, TypeOK', NEW t \in Task, send' = [send EXCEPT ![t] = send'[t]],
         \A by \in Caller : completion[<<t, by>>] = "none" \/ send'[t] = send[t]
                            \/ by # "send",
         UNCHANGED <<scheduled, completion, wakes, restarts>>,
         doubtful \subseteq doubtful',
         pending' = pending \/ pending' = pending \cup {t} \/ pending' = pending \ {t},
         \A u \in Task : u # t => poll'[u] = poll[u] /\ (u \in subscribed' <=> u \in subscribed),
         (* what the task itself is like afterwards *)
         Unanswered(t)' => Unanswered(t) /\ t \notin pending' \cup subscribed' /\ poll'[t] = "off",
         send'[t] = "configuring" => t \in PushTask,
         Unanswered(t) \/ pending' \subseteq pending,
         Expected(t)' /\ wakes'[t] = 0 /\ restarts' = 0 => t \in pending'
  PROVE  IInv'
<1>1. \A u \in Task : u # t => send'[u] = send[u] /\ (u \in pending' <=> u \in pending)
  BY DEF IInv, TypeOK
<1>2. OneCall'
  BY DEF IInv, OneCall
<1>3. CallsMatch'
  <2> SUFFICES ASSUME NEW u \in Task, NEW other \in Caller
               PROVE  completion'[<<u, "send">>] # "none" => send'[u] = "checking"
    BY DEF IInv, CallsMatch
  <2>1. "send" \in Caller
    BY DEF Caller
  <2>2. QED
    BY <1>1, <2>1 DEF IInv, CallsMatch
<1>4. SendsMatch'
  <2> SUFFICES ASSUME NEW u \in Task
               PROVE  /\ Unanswered(u)' => /\ u \notin pending' \cup subscribed' /\ poll'[u] = "off"
                                           /\ ~Processing(u)'
                      /\ send'[u] = "configuring" => u \in PushTask
    BY DEF SendsMatch
  <2>1. CASE u = t
    BY <2>1 DEF IInv, SendsMatch, Processing
  <2>2. CASE u # t
    BY <1>1, <2>2 DEF IInv, SendsMatch, Processing, Unanswered
  <2>3. QED
    BY <2>1, <2>2
<1>5. WakesKept'
  <2> SUFFICES ASSUME NEW u \in Task, u \notin doubtful', wakes'[u] > 0
               PROVE  /\ wakes'[u] = 1
                      /\ \A other \in Caller : completion'[<<u, other>>] \in {"none", "woken"}
                      /\ u \in scheduled' \/ u \notin pending'
                      /\ ~Unanswered(u)'
    BY DEF WakesKept
  <2>1. CASE u = t
    BY <2>1 DEF IInv, WakesKept
  <2>2. CASE u # t
    BY <1>1, <2>2 DEF IInv, WakesKept, Unanswered
  <2>3. QED
    BY <2>1, <2>2
<1>6. SessionsHeld'
  <2> SUFFICES ASSUME NEW u \in Task, Expected(u)', wakes'[u] = 0, restarts' = 0
               PROVE  u \in pending'
    BY DEF SessionsHeld
  <2>1. CASE u = t
    BY <2>1
  <2>2. CASE u # t
    BY <1>1, <2>2 DEF IInv, SessionsHeld, Expected
  <2>3. QED
    BY <2>1, <2>2
<1>7. QED
  BY <1>2, <1>3, <1>4, <1>5, <1>6 DEF IInv

(* No call of a2a_send is under way where it has none to wait for. *)
LEMMA NoSendCall ==
  ASSUME IInv, NEW t \in Task, send[t] # "checking"
  PROVE  \A by \in Caller : completion[<<t, by>>] = "none" \/ by # "send"
BY DEF IInv, CallsMatch

LEMMA SubmitStep ==
  ASSUME IInv, NEW t \in Task, Submit(t)
  PROVE  IInv'
<1>1. send[t] = "new" /\ Sending(t, "submitting")
      /\ UNCHANGED <<pending, scheduled, completion, poll, subscribed, pushes, historyVars>>
  BY DEF Submit
<1>2. send' \in [Task -> Where] /\ send'[t] = "submitting" /\ send' = [send EXCEPT ![t] = send'[t]]
  BY <1>1, SendMoves DEF IInv, Where, Sending
<1>3. TypeOK'
  BY <1>2 DEF IInv, TypeOK, Submit, historyVars, Where
<1>4. Unanswered(t)' => Unanswered(t) /\ t \notin pending' \cup subscribed' /\ poll'[t] = "off"
  BY <1>1 DEF IInv, SendsMatch, Unanswered
<1>5. ~Expected(t)'
  BY <1>2 DEF Expected
<1>6. QED
  BY <1>1, <1>2, <1>3, <1>4, <1>5, NoSendCall, SendOnly DEF historyVars

LEMMA SubmittedEndedStep ==
  ASSUME IInv, NEW t \in Task, SubmittedEnded(t)
  PROVE  IInv'
<1>1. send[t] = "submitting" /\ Sending(t, "returned")
      /\ UNCHANGED <<pending, scheduled, completion, poll, agentVars, historyVars>>
  BY DEF SubmittedEnded
<1>2. send' \in [Task -> Where] /\ send'[t] = "returned" /\ send' = [send EXCEPT ![t] = send'[t]]
  BY <1>1, SendMoves DEF IInv, Where, Sending
<1>3. TypeOK'
  BY <1>1, <1>2 DEF IInv, TypeOK, agentVars, historyVars, Where
<1>4. ~Unanswered(t)'
  BY <1>2 DEF Unanswered
<1>5. ~Expected(t)'
  BY <1>1, <1>2 DEF IInv, SendsMatch, Unanswered, Expected, agentVars
<1>6. QED
  BY <1>1, <1>2, <1>3, <1>4, <1>5, NoSendCall, SendOnly DEF agentVars, historyVars

LEMMA SubmittedRunningStep ==
  ASSUME IInv, NEW t \in Task, SubmittedRunning(t)
  PROVE  IInv'
<1>1. /\ send[t] = "submitting" /\ pending' = pending \cup {t}
      /\ UNCHANGED <<scheduled, completion, agentVars, historyVars>>
  BY DEF SubmittedRunning
<1>2. /\ send' \in [Task -> Where] /\ send'[t] \in {"configuring", "returned"}
      /\ send' = [send EXCEPT ![t] = send'[t]]
      /\ send'[t] = "configuring" => t \in PushTask
  <2>1. CASE t \in PushTask
    <3>1. Sending(t, "configuring")
      BY <2>1 DEF SubmittedRunning
    <3>2. QED
      BY <2>1, <3>1, SendMoves DEF IInv, Where, Sending
  <2>2. CASE t \notin PushTask
    <3>1. Sending(t, "returned")
      BY <2>2 DEF SubmittedRunning
    <3>2. QED
      BY <3>1, SendMoves DEF IInv, Where, Sending
  <2>3. QED
    BY <2>1, <2>2
<1>3. /\ poll' \in [Task -> {"off", "on", "stopped"}]
      /\ \A u \in Task : u # t => poll'[u] = poll[u]
  BY DEF IInv, TypeOK, SubmittedRunning
<1>4. TypeOK'
  BY <1>1, <1>2, <1>3 DEF IInv, TypeOK, agentVars, historyVars, Where
<1>5. Unanswered(t) /\ ~Unanswered(t)'
  BY <1>1, <1>2 DEF Unanswered
<1>6. QED
  BY <1>1, <1>2, <1>3, <1>4, <1>5, NoSendCall, SendOnly DEF agentVars, historyVars

LEMMA SubscribeStep ==
  ASSUME IInv, NEW t \in Task, Subscribe(t)
  PROVE  IInv'
<1>1. /\ send[t] = "configuring" /\ subscribed' = subscribed \cup {t}
      /\ UNCHANGED <<pluginVars, remote, pushes, historyVars>>
  BY DEF Subscribe
<1>2. t \in PushTask /\ send' = [send EXCEPT ![t] = send'[t]]
  BY <1>1 DEF IInv, SendsMatch, TypeOK, pluginVars
<1>3. TypeOK'
  BY <1>1, <1>2 DEF IInv, TypeOK, pluginVars, historyVars
<1>4. ~Unanswered(t)'
  BY <1>1 DEF Unanswered, pluginVars
<1>5. Expected(t)' /\ wakes'[t] = 0 /\ restarts' = 0 => t \in pending'
  BY <1>1 DEF IInv, SessionsHeld, Expected, pluginVars, historyVars
<1>6. QED
  BY <1>1, <1>2, <1>3, <1>4, <1>5, SendOnly DEF pluginVars, historyVars

LEMMA ConfiguredStep ==
  ASSUME IInv, NEW t \in Task, Configured(t)
  PROVE  IInv'
<1>1. /\ send[t] = "configuring"
      /\ UNCHANGED <<pending, scheduled, poll, agentVars, historyVars>>
  BY DEF Configured
<1>2. CASE ~Guarded(t) /\ t \in pending
  <2>1. Sending(t, "checking") /\ Goes(<<t, "send">>, "asking") /\ "send" \in Caller /\ "asking" \in Place
    BY <1>2 DEF Configured, Caller, Place
  <2>2. send' \in [Task -> Where] /\ completion' \in [Task \X Caller -> Place]
    BY <2>1, CallMoves, SendMoves DEF IInv, Where
  <2>3. TypeOK'
    BY <1>1, <2>2 DEF IInv, TypeOK, agentVars, historyVars, Where, Place
  <2>4. QED
    BY <1>1, <1>2, <2>1, <2>3, CallStarts DEF agentVars, historyVars
<1>3. CASE Guarded(t) \/ t \notin pending
  <2>1. /\ UNCHANGED completion
        /\ Sending(t, "returned") \/ Sending(t, "failed")
    BY <1>3 DEF Configured
  <2>2. /\ send' \in [Task -> Where] /\ send'[t] \in {"returned", "failed"}
        /\ send' = [send EXCEPT ![t] = send'[t]]
    BY <2>1, SendMoves DEF IInv, Where, Sending
  <2>3. TypeOK'
    BY <1>1, <2>1, <2>2 DEF IInv, TypeOK, agentVars, historyVars, Where
  <2>4. ~Unanswered(t)'
    BY <2>2 DEF Unanswered
  <2>5. Expected(t)' /\ wakes'[t] = 0 /\ restarts' = 0 => t \in pending'
    BY <1>1 DEF IInv, SessionsHeld, Expected, historyVars
  <2>6. QED
    BY <1>1, <2>1, <2>2, <2>3, <2>4, <2>5, NoSendCall, SendOnly DEF agentVars, historyVars
<1>4. QED
  BY <1>2, <1>3

LEMMA SendFailsStep ==
  ASSUME IInv, NEW t \in Task, SendFails(t)
  PROVE  IInv'
<1>1. /\ send[t] \in {"submitting", "configuring"} /\ Sending(t, "failed")
      /\ pending' = pending \ {t} /\ failed' = failed \cup {t}
      /\ UNCHANGED <<scheduled, completion, poll, agentVars, wakes, restarts, doubtful, dropped>>
  BY DEF SendFails
<1>2. send' \in [Task -> Where] /\ send'[t] = "failed" /\ send' = [send EXCEPT ![t] = send'[t]]
  BY <1>1, SendMoves DEF IInv, Where, Sending
<1>3. TypeOK'
  BY <1>1, <1>2 DEF IInv, TypeOK, agentVars, Where
<1>4. ~Unanswered(t)' /\ ~Expected(t)'
  BY <1>2 DEF Unanswered, Expected
<1>5. QED
  BY <1>1, <1>2, <1>3, <1>4, NoSendCall, SendOnly DEF agentVars

LEMMA PollStopsStep ==
  ASSUME IInv, NEW t \in Task, PollStops(t)
  PROVE  IInv'
<1>1. /\ poll[t] = "on" /\ poll' = [poll EXCEPT ![t] = "stopped"]
      /\ UNCHANGED <<send, pending, scheduled, completion, agentVars, historyVars>>
  BY DEF PollStops
<1>2. TypeOK'
  BY <1>1 DEF IInv, TypeOK, agentVars, historyVars
<1>3. /\ send' = [send EXCEPT ![t] = send'[t]]
      /\ \A u \in Task : u # t => poll'[u] = poll[u]
  BY <1>1 DEF IInv, TypeOK
<1>4. ~Unanswered(t)' /\ (send'[t] = "configuring" => t \in PushTask)
  BY <1>1 DEF IInv, SendsMatch, Unanswered
<1>5. Expected(t)' /\ wakes'[t] = 0 /\ restarts' = 0 => t \in pending'
  BY <1>1 DEF IInv, SessionsHeld, Expected, agentVars, historyVars
<1>6. QED
  BY <1>1, <1>2, <1>3, <1>4, <1>5, SendOnly DEF agentVars, historyVars

-----------------------------------------------------------------------------
LEMMA StepKeeps ==
  ASSUME IInv, [Next]_vars
  PROVE  IInv'
<1>1. CASE \E t \in Task : \/ AgentStep(t) \/ SendStep(t) \/ Submit(t) \/ Poll(t) \/ Callback(t)
                           \/ SendFails(t) \/ LosePush(t) \/ PollStops(t)
  <2>1. PICK t \in Task : \/ AgentStep(t) \/ SendStep(t) \/ Submit(t) \/ Poll(t) \/ Callback(t)
                          \/ SendFails(t) \/ LosePush(t) \/ PollStops(t)
    BY <1>1
  <2>2. SendStep(t) => IInv'
    BY SubmittedEndedStep, SubmittedRunningStep, SubscribeStep, ConfiguredStep DEF SendStep
  <2>3. QED
    BY <2>1, <2>2, AgentStepKeeps, SubmitStep, PollStep, CallbackStep, SendFailsStep,
       LosePushStep, PollStopsStep
<1>2. CASE \E c \in Task \X Caller : CompletionStep(c) \/ CompletionFails(c)
  <2>1. PICK t \in Task, by \in Caller : CompletionStep(<<t, by>>) \/ CompletionFails(<<t, by>>)
    BY <1>2
  <2>2. QED
    BY <2>1, AnswerStep, StillRunningStep, ScheduleStep, WakeStep, DeliveredStep,
       CompletionFailsStep DEF CompletionStep
<1>3. CASE Restart
  BY <1>3, RestartStep
<1>4. CASE UNCHANGED vars
  <2>1. TypeOK'
    BY <1>4 DEF IInv, TypeOK, vars, pluginVars, agentVars, historyVars
  <2>2. QED
    BY <1>4, <2>1, PluginSame DEF vars, agentVars, historyVars
<1>5. QED
  BY <1>1, <1>2, <1>3, <1>4 DEF Next

(* The inductive invariant: types, one call to a task, calls and sends in  *)
(* step with what is scheduled, wake-ups that leave no second one, and     *)
(* sessions that are held.                                                 *)
THEOREM PushInvariant == Spec => []IInv
<1>1. IInv /\ [Next]_vars => IInv'
  BY StepKeeps
<1>2. QED
  BY InitIInv, <1>1, PTL DEF Spec

(* Places of calls, states of tasks and notifications keep their types;    *)
(* only agents that offer push notifications are asked for them.           *)
THEOREM TypeCorrect == Spec => []TypeOK
<1>1. IInv => TypeOK
  BY DEF IInv
<1>2. QED
  BY PushInvariant, <1>1, PTL

(* However calls, pushes, polls, failures and restarts race, the Manager   *)
(* is woken at most once for a task, unless a wake-up that did arrive was  *)
(* reported as failed.                                                     *)
THEOREM OneWakeUp == Spec => []WokenOnce
<1>1. IInv => WokenOnce
  <2> SUFFICES ASSUME IInv, NEW t \in Task, t \notin doubtful
               PROVE  wakes[t] <= 1
    BY DEF WokenOnce
  <2>1. wakes[t] \in 0 .. MaxWakes
    BY DEF IInv, TypeOK
  <2>2. wakes[t] > 0 => wakes[t] = 1
    BY DEF IInv, WakesKept
  <2>3. QED
    BY <2>1, <2>2, PushAssumption
<1>2. QED
  BY PushInvariant, <1>1, PTL

(* Until the Manager is woken for a registered task, its session is known, *)
(* whatever failed, as long as the plugin does not restart.                *)
THEOREM SessionsAreKept == Spec => []SessionKept
<1>1. IInv => SessionKept
  BY DEF IInv, SessionsHeld, Expected, SessionKept
<1>2. QED
  BY PushInvariant, <1>1, PTL

-----------------------------------------------------------------------------
(* The end of a task is not overlooked.  This is a second invariant on top *)
(* of IInv, looked at task by task: a step touches one task only, unless   *)
(* the plugin restarts.                                                    *)

Watched(t) ==
  /\ t \in scheduled =>
       wakes[t] > 0 \/ \E by \in Caller : completion[<<t, by>>] \in {"waking", "woken"}
  /\ pushes[t] # <<>> => t \in subscribed
  /\ Unanswered(t) => t \notin scheduled
  /\ send[t] = "configuring" => poll[t] = "off" /\ (t \in subscribed \/ ~Guarded(t))
  /\ Awaited(t) /\ wakes[t] = 0 /\ ~Missed(t) =>
       EndFound(t) \/ EndAnnounced(t) \/ poll[t] = "on"

LEMMA WatchedOneByOne ==
  ASSUME TypeOK
  PROVE  WatchInv <=> \A t \in Task : Watched(t)
BY DEF TypeOK, WatchInv, ScheduledIsWoken, PushesWanted, QuietBefore, EndLookedFor, Watched

Untouched(t) ==
  /\ send'[t] = send[t] /\ poll'[t] = poll[t]
  /\ (t \in pending' <=> t \in pending) /\ (t \in scheduled' <=> t \in scheduled)
  /\ \A by \in Caller : completion'[<<t, by>>] = completion[<<t, by>>]
  /\ remote'[t] = remote[t] /\ pushes'[t] = pushes[t]
  /\ (t \in subscribed' <=> t \in subscribed)
  /\ wakes'[t] = wakes[t]
  /\ (t \in failed => t \in failed') /\ (t \in dropped => t \in dropped')

LEMMA UntouchedIsWatched ==
  ASSUME NEW t \in Task, Watched(t), Untouched(t)
  PROVE  Watched(t)'
<1> USE DEF Untouched, Watched
<1>1. /\ Unanswered(t)' <=> Unanswered(t)
      /\ Processing(t)' <=> Processing(t)
      /\ Missed(t) => Missed(t)'
  BY DEF Unanswered, Processing, Missed
<1>2. Guarded(t)' <=> Guarded(t)
  BY <1>1 DEF Guarded
<1>3. /\ Awaited(t)' => Awaited(t)
      /\ EndFound(t) => EndFound(t)'
      /\ EndAnnounced(t) => EndAnnounced(t)'
  BY <1>2 DEF Awaited, EndFound, EndAnnounced
<1>4. QED
  BY <1>1, <1>2, <1>3

OnlyTouches(t) == \A u \in Task : u # t => Untouched(u)

-----------------------------------------------------------------------------
(* The agents and their notifications. *)

LEMMA AgentStepWatched ==
  ASSUME IInv, NEW t \in Task, Watched(t), AgentStep(t)
  PROVE  Watched(t)' /\ OnlyTouches(t)
<1>1. PICK event \in {"artifact", "ended"} :
        /\ remote[t] \in {"working", "artifact"}
        /\ remote' = [remote EXCEPT ![t] = event]
        /\ Push(t, event)
        /\ UNCHANGED <<pluginVars, subscribed, historyVars>>
  BY DEF AgentStep, Announce, End
<1>2. /\ remote'[t] = event /\ remote[t] # "ended"
      /\ \A u \in Task : u # t => remote'[u] = remote[u]
  BY <1>1 DEF IInv, TypeOK
<1>3. /\ \A u \in Task : u # t => pushes'[u] = pushes[u]
      /\ t \notin subscribed => pushes'[t] = pushes[t]
      /\ t \in subscribed => \E i \in DOMAIN pushes'[t] : pushes'[t][i] = event
  <2>1. CASE t \in subscribed
    <3>1. pushes[t] \in Seq({"artifact", "ended"}) /\ pushes'[t] = Append(pushes[t], event)
      BY <1>1, <2>1 DEF IInv, TypeOK, Push
    <3>2. Len(pushes[t]) + 1 \in DOMAIN pushes'[t] /\ pushes'[t][Len(pushes[t]) + 1] = event
      BY <3>1
    <3>3. QED
      BY <1>1, <2>1, <3>2 DEF IInv, TypeOK, Push
  <2>2. CASE t \notin subscribed
    BY <1>1, <2>2 DEF Push
  <2>3. QED
    BY <2>1, <2>2
<1>4. OnlyTouches(t)
  BY <1>1, <1>2, <1>3 DEF OnlyTouches, Untouched, pluginVars, historyVars
<1>5. /\ Awaited(t)' <=> Awaited(t)
      /\ Missed(t)' <=> Missed(t)
      /\ Guarded(t)' <=> Guarded(t)
      /\ Unanswered(t)' <=> Unanswered(t)
  BY <1>1 DEF Awaited, Missed, Guarded, Processing, Unanswered, pluginVars, historyVars
<1>6. EndFound(t) => EndFound(t)'
  BY <1>1, <1>2 DEF EndFound, pluginVars
<1>7. EndAnnounced(t) => EndAnnounced(t)'
  BY <1>1, <1>2, <1>3 DEF EndAnnounced
<1>8. Watched(t)'
  BY <1>1, <1>3, <1>5, <1>6, <1>7 DEF Watched, pluginVars, historyVars
<1>9. QED
  BY <1>4, <1>8

LEMMA LosePushWatched ==
  ASSUME IInv, NEW t \in Task, Watched(t), LosePush(t)
  PROVE  Watched(t)' /\ OnlyTouches(t)
<1>1. /\ pushes[t] # <<>> /\ pushes' = [pushes EXCEPT ![t] = Tail(@)]
      /\ failed' = failed \cup {t}
      /\ UNCHANGED <<pluginVars, remote, subscribed, wakes, restarts, doubtful, dropped>>
  BY DEF LosePush, Pushed
<1>2. OnlyTouches(t)
  BY <1>1 DEF IInv, TypeOK, OnlyTouches, Untouched, pluginVars
<1>3. Missed(t)' /\ (Guarded(t)' <=> Guarded(t)) /\ (Unanswered(t)' <=> Unanswered(t))
  BY <1>1 DEF Missed, Guarded, Processing, Unanswered, pluginVars
<1>4. Watched(t)'
  BY <1>1, <1>3 DEF Watched, pluginVars
<1>5. QED
  BY <1>2, <1>4

LEMMA CallbackWatched ==
  ASSUME IInv, NEW t \in Task, Watched(t), Callback(t)
  PROVE  Watched(t)' /\ OnlyTouches(t)
<1>1. /\ pushes[t] # <<>> /\ pushes' = [pushes EXCEPT ![t] = Tail(@)]
      /\ UNCHANGED <<send, pending, scheduled, poll, remote, subscribed,
                     wakes, restarts, doubtful, failed>>
  BY DEF Callback, Pushed
<1>2. t \in subscribed /\ \A u \in Task : u # t => pushes'[u] = pushes[u]
  BY <1>1 DEF Watched, IInv, TypeOK
<1>3. Unanswered(t)' <=> Unanswered(t)
  BY <1>1 DEF Unanswered
<1>4. CASE t \in pending /\ ~Guarded(t)
  <2>1. Goes(<<t, "push">>, "asking") /\ UNCHANGED dropped
    BY <1>4 DEF Callback
  <2>2. "push" \in Caller /\ "asking" \in Place
    BY DEF Caller, Place
  <2>3. /\ completion'[<<t, "push">>] = "asking"
        /\ \A u \in Task, other \in Caller :
             u # t => completion'[<<u, other>>] = completion[<<u, other>>]
    BY <2>1, <2>2, CallMoves DEF IInv
  <2>4. OnlyTouches(t)
    BY <1>1, <1>2, <2>1, <2>3 DEF OnlyTouches, Untouched
  <2>5. t \notin scheduled
    BY <1>4 DEF Guarded
  <2>6. EndFound(t)' \/ EndAnnounced(t)'
    BY <1>1, <1>2, <2>2, <2>3 DEF EndFound, EndAnnounced
  <2>7. Watched(t)'
    BY <1>1, <1>2, <1>3, <2>5, <2>6 DEF Watched
  <2>8. QED
    BY <2>4, <2>7
<1>5. CASE ~(t \in pending /\ ~Guarded(t))
  <2>1. /\ dropped' = IF t \in pending THEN dropped \cup {t} ELSE dropped
        /\ UNCHANGED completion
    BY <1>5 DEF Callback
  <2>2. OnlyTouches(t)
    BY <1>1, <1>2, <2>1 DEF OnlyTouches, Untouched
  <2>3. Missed(t)' \/ ~Awaited(t)'
    BY <1>1, <2>1 DEF Missed, Awaited
  <2>4. Watched(t)'
    BY <1>1, <1>2, <1>3, <2>1, <2>3 DEF Watched
  <2>5. QED
    BY <2>2, <2>4
<1>6. QED
  BY <1>4, <1>5

-----------------------------------------------------------------------------
(* The calls. *)

(* A task that a call sees to has been subscribed to, or is not about to   *)
(* be; while it waits for its wake-up it is awaited.                       *)
LEMMA CallIsWatched ==
  ASSUME IInv, NEW t \in Task, Watched(t), NEW by \in Caller, completion[<<t, by>>] # "none"
  PROVE  /\ ~Unanswered(t) /\ Guarded(t)
         /\ send[t] = "configuring" => poll[t] = "off" /\ t \in subscribed
         /\ t \in pending /\ send[t] \in {"configuring", "checking", "returned"} => Awaited(t)
         /\ \A other \in Caller : other # by => completion[<<t, other>>] = "none"
         /\ by = "send" => send[t] = "checking"
<1>1. Guarded(t)
  BY DEF Guarded, Processing
<1>2. send[t] = "configuring" => poll[t] = "off" /\ t \in subscribed
  BY <1>1 DEF Watched
<1>3. QED
  BY <1>1, <1>2, UnderWay DEF Awaited

LEMMA AnswerWatched ==
  ASSUME IInv, NEW t \in Task, Watched(t), NEW by \in Caller, Answer(<<t, by>>)
  PROVE  Watched(t)' /\ OnlyTouches(t)
<1> DEFINE place == IF remote[t] = "ended" THEN "ended" ELSE "running"
<1>1. /\ place \in {"ended", "running"} /\ completion[<<t, by>>] = "asking"
      /\ remote[t] = "ended" => place = "ended"
      /\ Goes(<<t, by>>, place)
      /\ UNCHANGED <<send, pending, scheduled, poll, agentVars, historyVars>>
  BY DEF Answer
<1> HIDE DEF place
<1>2. /\ completion'[<<t, by>>] = place
      /\ \A u \in Task, other \in Caller :
           u # t \/ other # by => completion'[<<u, other>>] = completion[<<u, other>>]
  BY <1>1, CallMoves DEF IInv, Place
<1>3. OnlyTouches(t)
  BY <1>1, <1>2 DEF OnlyTouches, Untouched, agentVars, historyVars
<1>4. t \notin scheduled /\ ~Unanswered(t)'
  BY <1>1, CallIsWatched DEF IInv, CallsMatch, Unanswered
<1>5. /\ Awaited(t)' => Awaited(t)
      /\ Missed(t)' <=> Missed(t)
      /\ EndAnnounced(t)' <=> EndAnnounced(t)
  BY <1>1, CallIsWatched DEF Awaited, Missed, EndAnnounced, agentVars, historyVars
<1>6. EndFound(t) => EndFound(t)'
  BY <1>1, <1>2, CallIsWatched DEF EndFound, agentVars
<1>7. Watched(t)'
  BY <1>1, <1>4, <1>5, <1>6, CallIsWatched DEF Watched, agentVars, historyVars
<1>8. QED
  BY <1>3, <1>7

(* The answer was that the task is running: its end is announced later, or *)
(* polled for.                                                             *)
LEMMA StillRunningWatched ==
  ASSUME IInv, NEW t \in Task, Watched(t), NEW by \in Caller, StillRunning(<<t, by>>)
  PROVE  Watched(t)' /\ OnlyTouches(t)
<1>1. /\ completion[<<t, by>>] = "running" /\ Goes(<<t, by>>, "none")
      /\ IF by = "send" THEN Sending(t, "returned") ELSE UNCHANGED send
      /\ UNCHANGED <<pending, scheduled, poll, agentVars, historyVars>>
  BY DEF StillRunning, CallReturns
<1>2. \A u \in Task, other \in Caller :
        u # t => completion'[<<u, other>>] = completion[<<u, other>>]
  BY <1>1, CallMoves DEF IInv, Place
<1>3. /\ \A u \in Task : u # t => send'[u] = send[u]
      /\ send'[t] = send[t] \/ (send[t] = "checking" /\ send'[t] = "returned")
  BY <1>1, SendMoves, CallIsWatched DEF IInv, Where
<1>4. OnlyTouches(t)
  BY <1>1, <1>2, <1>3 DEF OnlyTouches, Untouched, agentVars, historyVars
<1>5. t \notin scheduled /\ ~Unanswered(t)'
  BY <1>1, <1>3, CallIsWatched DEF IInv, CallsMatch, Unanswered
<1>6. ~EndFound(t)
  BY <1>1, CallIsWatched DEF EndFound
<1>7. /\ Awaited(t)' => Awaited(t)
      /\ Missed(t)' <=> Missed(t)
      /\ EndAnnounced(t)' <=> EndAnnounced(t)
  BY <1>1, <1>3, CallIsWatched DEF Awaited, Missed, EndAnnounced, agentVars, historyVars
<1>8. send'[t] = "configuring" => poll[t] = "off" /\ t \in subscribed
  BY <1>1, <1>3, CallIsWatched
<1>9. Watched(t)'
  BY <1>1, <1>5, <1>6, <1>7, <1>8 DEF Watched, agentVars, historyVars
<1>10. QED
  BY <1>4, <1>9

LEMMA ScheduleWatched ==
  ASSUME IInv, NEW t \in Task, Watched(t), NEW by \in Caller, Schedule(<<t, by>>)
  PROVE  Watched(t)' /\ OnlyTouches(t)
<1>1. /\ completion[<<t, by>>] = "ended" /\ Goes(<<t, by>>, "waking")
      /\ scheduled' = scheduled \cup {t}
      /\ UNCHANGED <<send, pending, poll, agentVars, historyVars>>
  BY DEF Schedule, HasEnded
<1>2. /\ completion'[<<t, by>>] = "waking"
      /\ \A u \in Task, other \in Caller :
           u # t => completion'[<<u, other>>] = completion[<<u, other>>]
  BY <1>1, CallMoves DEF IInv, Place
<1>3. OnlyTouches(t)
  BY <1>1, <1>2 DEF OnlyTouches, Untouched, agentVars, historyVars
<1>4. EndFound(t)' /\ ~Unanswered(t)'
  BY <1>1, <1>2, CallIsWatched DEF EndFound, Unanswered
<1>5. Watched(t)'
  BY <1>1, <1>2, <1>4, CallIsWatched DEF Watched, agentVars, historyVars
<1>6. QED
  BY <1>3, <1>5

LEMMA WakeWatched ==
  ASSUME IInv, NEW t \in Task, Watched(t), NEW by \in Caller, Wake(<<t, by>>)
  PROVE  Watched(t)' /\ OnlyTouches(t)
<1>1. /\ completion[<<t, by>>] = "waking" /\ Goes(<<t, by>>, "woken")
      /\ wakes' = [wakes EXCEPT ![t] = @ + 1]
      /\ UNCHANGED <<send, pending, scheduled, poll, agentVars, restarts, doubtful, failed, dropped>>
  BY DEF Wake
<1>2. /\ wakes'[t] > 0 /\ wakes'[t] # 0
      /\ \A u \in Task : u # t => wakes'[u] = wakes[u]
  BY <1>1, PushAssumption DEF IInv, TypeOK
<1>3. \A u \in Task, other \in Caller :
        u # t => completion'[<<u, other>>] = completion[<<u, other>>]
  BY <1>1, CallMoves DEF IInv, Place
<1>4. OnlyTouches(t)
  BY <1>1, <1>2, <1>3 DEF OnlyTouches, Untouched, agentVars
<1>5. ~Unanswered(t)'
  BY <1>1, CallIsWatched DEF Unanswered
<1>6. Watched(t)'
  BY <1>1, <1>2, <1>5, CallIsWatched DEF Watched, agentVars
<1>7. QED
  BY <1>4, <1>6

LEMMA DeliveredWatched ==
  ASSUME IInv, NEW t \in Task, Watched(t), NEW by \in Caller, Delivered(<<t, by>>)
  PROVE  Watched(t)' /\ OnlyTouches(t)
<1>1. /\ completion[<<t, by>>] = "woken" /\ Goes(<<t, by>>, "none")
      /\ IF by = "send" THEN Sending(t, "returned") ELSE UNCHANGED send
      /\ pending' = pending \ {t} /\ poll' = [poll EXCEPT ![t] = "off"]
      /\ UNCHANGED <<scheduled, agentVars, historyVars>>
  BY DEF Delivered, CallReturns
<1>2. \A u \in Task, other \in Caller :
        u # t => completion'[<<u, other>>] = completion[<<u, other>>]
  BY <1>1, CallMoves DEF IInv, Place
<1>3. /\ \A u \in Task : u # t => send'[u] = send[u]
      /\ send'[t] = send[t] \/ send'[t] = "returned"
  BY <1>1, SendMoves DEF IInv, Where
<1>4. OnlyTouches(t)
  BY <1>1, <1>2, <1>3 DEF IInv, TypeOK, OnlyTouches, Untouched, agentVars, historyVars
<1>5. wakes[t] > 0 /\ poll'[t] = "off" /\ ~Awaited(t)' /\ ~Unanswered(t)'
  BY <1>1, <1>3, CallIsWatched DEF IInv, TypeOK, CallsMatch, Awaited, Unanswered
<1>6. send'[t] = "configuring" => t \in subscribed
  BY <1>1, <1>3, CallIsWatched
<1>7. Watched(t)'
  BY <1>1, <1>5, <1>6 DEF Watched, agentVars, historyVars
<1>8. QED
  BY <1>4, <1>7

LEMMA CompletionFailsWatched ==
  ASSUME IInv, NEW t \in Task, Watched(t), NEW by \in Caller, CompletionFails(<<t, by>>)
  PROVE  Watched(t)' /\ OnlyTouches(t)
<1>1. /\ completion[<<t, by>>] # "none" /\ Goes(<<t, by>>, "none")
      /\ scheduled' = scheduled \ {t}
      /\ IF by = "send" THEN Sending(t, "failed") /\ pending' = pending \ {t}
         ELSE UNCHANGED <<send, pending>>
      /\ failed' = failed \cup {t}
      /\ UNCHANGED <<poll, agentVars, wakes, restarts, dropped>>
  BY DEF CompletionFails, Forgotten
<1>2. \A u \in Task, other \in Caller :
        u # t => completion'[<<u, other>>] = completion[<<u, other>>]
  BY <1>1, CallMoves DEF IInv, Place
<1>3. /\ \A u \in Task : u # t => send'[u] = send[u]
      /\ send'[t] = send[t] \/ send'[t] = "failed"
  BY <1>1, SendMoves DEF IInv, Where
<1>4. OnlyTouches(t)
  BY <1>1, <1>2, <1>3 DEF OnlyTouches, Untouched, agentVars
<1>5. Missed(t)'
  BY <1>1 DEF Missed
<1>6. send'[t] = "configuring" => poll[t] = "off" /\ t \in subscribed
  BY <1>1, <1>3, CallIsWatched
<1>7. Watched(t)'
  BY <1>1, <1>5, <1>6 DEF Watched, agentVars
<1>8. QED
  BY <1>4, <1>7

-----------------------------------------------------------------------------
(* a2a_send and the poll loop. *)

LEMMA SubmitWatched ==
  ASSUME IInv, NEW t \in Task, Watched(t), Submit(t)
  PROVE  Watched(t)' /\ OnlyTouches(t)
<1>1. /\ send[t] = "new" /\ Sending(t, "submitting")
      /\ remote' = [remote EXCEPT ![t] = "working"]
      /\ UNCHANGED <<pending, scheduled, completion, poll, subscribed, pushes, historyVars>>
  BY DEF Submit
<1>2. send'[t] = "submitting" /\ \A u \in Task : u # t => send'[u] = send[u]
  BY <1>1, SendMoves DEF IInv, Where
<1>3. OnlyTouches(t)
  BY <1>1, <1>2 DEF IInv, TypeOK, OnlyTouches, Untouched, historyVars
<1>4. Unanswered(t) /\ ~Awaited(t)'
  BY <1>1, <1>2 DEF Unanswered, Awaited
<1>5. Watched(t)'
  BY <1>1, <1>2, <1>4 DEF Watched, historyVars
<1>6. QED
  BY <1>3, <1>5

(* What nothing sees to before the answer to SendMessage. *)
LEMMA UnansweredIsQuiet ==
  ASSUME IInv, NEW t \in Task, Watched(t), Unanswered(t)
  PROVE  /\ t \notin pending /\ t \notin subscribed /\ t \notin scheduled
         /\ poll[t] = "off" /\ ~Processing(t) /\ ~Guarded(t)
BY DEF IInv, SendsMatch, Watched, Guarded

LEMMA SubmittedEndedWatched ==
  ASSUME IInv, NEW t \in Task, Watched(t), SubmittedEnded(t)
  PROVE  Watched(t)' /\ OnlyTouches(t)
<1>1. /\ send[t] = "submitting" /\ Sending(t, "returned")
      /\ UNCHANGED <<pending, scheduled, completion, poll, agentVars, historyVars>>
  BY DEF SubmittedEnded
<1>2. send'[t] = "returned" /\ \A u \in Task : u # t => send'[u] = send[u]
  BY <1>1, SendMoves DEF IInv, Where
<1>3. OnlyTouches(t)
  BY <1>1, <1>2 DEF OnlyTouches, Untouched, agentVars, historyVars
<1>4. ~Awaited(t)' /\ ~Unanswered(t)'
  BY <1>1, <1>2, UnansweredIsQuiet DEF Unanswered, Awaited
<1>5. Watched(t)'
  BY <1>1, <1>2, <1>4 DEF Watched, agentVars, historyVars
<1>6. QED
  BY <1>3, <1>5

LEMMA SubmittedRunningWatched ==
  ASSUME IInv, NEW t \in Task, Watched(t), SubmittedRunning(t)
  PROVE  Watched(t)' /\ OnlyTouches(t)
<1>1. /\ send[t] = "submitting" /\ pending' = pending \cup {t}
      /\ UNCHANGED <<scheduled, completion, agentVars, historyVars>>
  BY DEF SubmittedRunning
<1>2. /\ t \notin subscribed /\ t \notin scheduled
      /\ poll[t] = "off" /\ ~Processing(t) /\ ~Guarded(t)
  BY <1>1, UnansweredIsQuiet DEF Unanswered
<1>3. /\ \A u \in Task : u # t => send'[u] = send[u] /\ poll'[u] = poll[u]
      /\ \/ send'[t] = "configuring" /\ poll'[t] = "off"
         \/ send'[t] = "returned" /\ poll'[t] = "on"
  <2>1. CASE t \in PushTask
    <3>1. Sending(t, "configuring") /\ UNCHANGED poll
      BY <2>1 DEF SubmittedRunning
    <3>2. QED
      BY <1>2, <3>1, SendMoves DEF IInv, Where
  <2>2. CASE t \notin PushTask
    <3>1. Sending(t, "returned") /\ poll' = [poll EXCEPT ![t] = "on"]
      BY <2>2 DEF SubmittedRunning
    <3>2. send'[t] = "returned" /\ \A u \in Task : u # t => send'[u] = send[u]
      BY <3>1, SendMoves DEF IInv, Where
    <3>3. QED
      BY <3>1, <3>2 DEF IInv, TypeOK
  <2>3. QED
    BY <2>1, <2>2
<1>4. OnlyTouches(t)
  BY <1>1, <1>3 DEF OnlyTouches, Untouched, agentVars, historyVars
<1>5. ~Guarded(t)' /\ ~Unanswered(t)'
  BY <1>1, <1>2, <1>3 DEF Guarded, Processing, Unanswered
<1>6. Awaited(t)' => poll'[t] = "on"
  BY <1>3, <1>5 DEF Awaited
<1>7. Watched(t)'
  BY <1>1, <1>2, <1>3, <1>5, <1>6 DEF Watched, agentVars
<1>8. QED
  BY <1>4, <1>7

(* Nothing sees to the task yet, so Configured will look at it. *)
LEMMA SubscribeWatched ==
  ASSUME IInv, NEW t \in Task, Watched(t), Subscribe(t)
  PROVE  Watched(t)' /\ OnlyTouches(t)
<1>1. /\ send[t] = "configuring" /\ t \notin subscribed /\ subscribed' = subscribed \cup {t}
      /\ UNCHANGED <<pluginVars, remote, pushes, historyVars>>
  BY DEF Subscribe
<1>2. OnlyTouches(t)
  BY <1>1 DEF OnlyTouches, Untouched, pluginVars, historyVars
<1>3. poll[t] = "off" /\ ~Guarded(t) /\ ~Guarded(t)' /\ ~Unanswered(t)'
  BY <1>1 DEF Watched, Guarded, Processing, Unanswered, pluginVars
<1>4. ~Awaited(t)'
  BY <1>1, <1>3 DEF Awaited, pluginVars
<1>5. Watched(t)'
  BY <1>1, <1>3, <1>4 DEF Watched, pluginVars, historyVars
<1>6. QED
  BY <1>2, <1>5

(* The task is looked at, or a push has it looked at already. *)
LEMMA ConfiguredWatched ==
  ASSUME IInv, NEW t \in Task, Watched(t), Configured(t)
  PROVE  Watched(t)' /\ OnlyTouches(t)
<1>1. /\ send[t] = "configuring" /\ t \in subscribed
      /\ UNCHANGED <<pending, scheduled, poll, agentVars, historyVars>>
  BY DEF Configured
<1>2. CASE ~Guarded(t) /\ t \in pending
  <2>1. Sending(t, "checking") /\ Goes(<<t, "send">>, "asking") /\ "send" \in Caller /\ "asking" \in Place
    BY <1>2 DEF Configured, Caller, Place
  <2>2. send'[t] = "checking" /\ \A u \in Task : u # t => send'[u] = send[u]
    BY <2>1, SendMoves DEF IInv, Where
  <2>3. /\ completion'[<<t, "send">>] = "asking"
        /\ \A u \in Task, other \in Caller :
             u # t => completion'[<<u, other>>] = completion[<<u, other>>]
    BY <2>1, CallMoves DEF IInv
  <2>4. OnlyTouches(t)
    BY <1>1, <2>2, <2>3 DEF OnlyTouches, Untouched, agentVars, historyVars
  <2>5. t \notin scheduled /\ ~Unanswered(t)'
    BY <1>2, <2>2 DEF Guarded, Unanswered
  <2>6. EndFound(t)' \/ EndAnnounced(t)'
    BY <1>1, <2>1, <2>3 DEF EndFound, EndAnnounced, agentVars
  <2>7. Watched(t)'
    BY <1>1, <2>2, <2>5, <2>6 DEF Watched, agentVars
  <2>8. QED
    BY <2>4, <2>7
<1>3. CASE Guarded(t)
  <2>1. Sending(t, "returned") /\ UNCHANGED completion
    BY <1>3 DEF Configured
  <2>2. send'[t] = "returned" /\ \A u \in Task : u # t => send'[u] = send[u]
    BY <2>1, SendMoves DEF IInv, Where
  <2>3. OnlyTouches(t)
    BY <1>1, <2>1, <2>2 DEF OnlyTouches, Untouched, agentVars, historyVars
  <2>4. /\ Awaited(t)' => Awaited(t)
        /\ Missed(t)' <=> Missed(t)
        /\ EndFound(t)' <=> EndFound(t)
        /\ EndAnnounced(t)' <=> EndAnnounced(t)
        /\ ~Unanswered(t)'
    BY <1>1, <1>3, <2>1, <2>2 DEF Awaited, Missed, EndFound, EndAnnounced, Unanswered,
       agentVars, historyVars
  <2>5. Watched(t)'
    BY <1>1, <2>1, <2>2, <2>4 DEF Watched, agentVars, historyVars
  <2>6. QED
    BY <2>3, <2>5
<1>4. CASE ~Guarded(t) /\ t \notin pending
  <2>1. Sending(t, "failed") /\ UNCHANGED completion
    BY <1>4 DEF Configured
  <2>2. send'[t] = "failed" /\ \A u \in Task : u # t => send'[u] = send[u]
    BY <2>1, SendMoves DEF IInv, Where
  <2>3. OnlyTouches(t)
    BY <1>1, <2>1, <2>2 DEF OnlyTouches, Untouched, agentVars, historyVars
  <2>4. ~Awaited(t)' /\ ~Unanswered(t)'
    BY <2>2 DEF Awaited, Unanswered
  <2>5. Watched(t)'
    BY <1>1, <2>1, <2>2, <2>4 DEF Watched, agentVars, historyVars
  <2>6. QED
    BY <2>3, <2>5
<1>5. QED
  BY <1>2, <1>3, <1>4

LEMMA SendFailsWatched ==
  ASSUME IInv, NEW t \in Task, Watched(t), SendFails(t)
  PROVE  Watched(t)' /\ OnlyTouches(t)
<1>1. /\ send[t] \in {"submitting", "configuring"} /\ Sending(t, "failed")
      /\ pending' = pending \ {t} /\ failed' = failed \cup {t}
      /\ UNCHANGED <<scheduled, completion, poll, agentVars, wakes, restarts, doubtful, dropped>>
  BY DEF SendFails
<1>2. send'[t] = "failed" /\ \A u \in Task : u # t => send'[u] = send[u]
  BY <1>1, SendMoves DEF IInv, Where
<1>3. OnlyTouches(t)
  BY <1>1, <1>2 DEF OnlyTouches, Untouched, agentVars
<1>4. ~Awaited(t)' /\ ~Unanswered(t)'
  BY <1>2 DEF Awaited, Unanswered
<1>5. Watched(t)'
  BY <1>1, <1>2, <1>4 DEF Watched, agentVars
<1>6. QED
  BY <1>3, <1>5

LEMMA PollWatched ==
  ASSUME IInv, NEW t \in Task, Watched(t), Poll(t)
  PROVE  Watched(t)' /\ OnlyTouches(t)
<1>1. /\ poll[t] = "on" /\ ~Guarded(t) /\ Goes(<<t, "poll">>, "asking")
      /\ UNCHANGED <<send, pending, scheduled, poll, agentVars, historyVars>>
  BY DEF Poll
<1>2. \A u \in Task, other \in Caller :
        u # t => completion'[<<u, other>>] = completion[<<u, other>>]
  <2>1. PICK by \in Caller : Goes(<<t, by>>, "asking")
    BY <1>1 DEF Caller
  <2>2. QED
    BY <2>1, CallMoves DEF IInv, Place
<1>3. OnlyTouches(t)
  BY <1>1, <1>2 DEF OnlyTouches, Untouched, agentVars, historyVars
<1>4. t \notin scheduled /\ send[t] # "configuring" /\ (Unanswered(t)' <=> Unanswered(t))
  BY <1>1 DEF Watched, Guarded, Unanswered
<1>5. Watched(t)'
  BY <1>1, <1>4 DEF Watched, agentVars
<1>6. QED
  BY <1>3, <1>5

LEMMA PollStopsWatched ==
  ASSUME IInv, NEW t \in Task, Watched(t), PollStops(t)
  PROVE  Watched(t)' /\ OnlyTouches(t)
<1>1. /\ poll[t] = "on" /\ poll' = [poll EXCEPT ![t] = "stopped"]
      /\ UNCHANGED <<send, pending, scheduled, completion, agentVars, historyVars>>
  BY DEF PollStops
<1>2. OnlyTouches(t)
  BY <1>1 DEF IInv, TypeOK, OnlyTouches, Untouched, agentVars, historyVars
<1>3. Missed(t)' /\ send[t] # "configuring" /\ (Unanswered(t)' <=> Unanswered(t))
  BY <1>1 DEF IInv, TypeOK, Missed, Watched, Unanswered
<1>4. Watched(t)'
  BY <1>1, <1>3 DEF Watched, Awaited, agentVars, historyVars
<1>5. QED
  BY <1>2, <1>4

-----------------------------------------------------------------------------
LEMMA InitWatchInv == Init => WatchInv
BY DEF Init, WatchInv, ScheduledIsWoken, PushesWanted, QuietBefore, EndLookedFor, Awaited

LEMMA RestartWatched ==
  ASSUME Restart
  PROVE  WatchInv'
BY DEF Restart, WatchInv, ScheduledIsWoken, PushesWanted, QuietBefore, EndLookedFor, Awaited

LEMMA StepWatches ==
  ASSUME IInv, IInv', WatchInv, [Next]_vars
  PROVE  WatchInv'
<1>1. \A t \in Task : Watched(t)
  BY WatchedOneByOne DEF IInv
<1>2. ASSUME NEW t \in Task, Watched(t)' /\ OnlyTouches(t) PROVE WatchInv'
  <2>1. \A u \in Task : Watched(u)'
    BY <1>1, <1>2, UntouchedIsWatched DEF OnlyTouches
  <2>2. TypeOK'
    BY DEF IInv
  <2>3. QED
    BY <2>1, <2>2 DEF TypeOK, WatchInv, ScheduledIsWoken, PushesWanted, QuietBefore,
       EndLookedFor, Watched
<1>3. CASE \E t \in Task : \/ AgentStep(t) \/ SendStep(t) \/ Submit(t) \/ Poll(t) \/ Callback(t)
                           \/ SendFails(t) \/ LosePush(t) \/ PollStops(t)
  <2>1. PICK t \in Task : \/ AgentStep(t) \/ SendStep(t) \/ Submit(t) \/ Poll(t) \/ Callback(t)
                          \/ SendFails(t) \/ LosePush(t) \/ PollStops(t)
    BY <1>3
  <2>2. Watched(t)
    BY <1>1
  <2>3. SendStep(t) => Watched(t)' /\ OnlyTouches(t)
    BY <2>2, SubmittedEndedWatched, SubmittedRunningWatched, SubscribeWatched,
       ConfiguredWatched DEF SendStep
  <2>4. Watched(t)' /\ OnlyTouches(t)
    BY <2>1, <2>2, <2>3, AgentStepWatched, SubmitWatched, PollWatched, CallbackWatched,
       SendFailsWatched, LosePushWatched, PollStopsWatched
  <2>5. QED
    BY <1>2, <2>4
<1>4. CASE \E c \in Task \X Caller : CompletionStep(c) \/ CompletionFails(c)
  <2>1. PICK t \in Task, by \in Caller : CompletionStep(<<t, by>>) \/ CompletionFails(<<t, by>>)
    BY <1>4
  <2>2. Watched(t)
    BY <1>1
  <2>3. Watched(t)' /\ OnlyTouches(t)
    BY <2>1, <2>2, AnswerWatched, StillRunningWatched, ScheduleWatched, WakeWatched,
       DeliveredWatched, CompletionFailsWatched DEF CompletionStep
  <2>4. QED
    BY <1>2, <2>3
<1>5. CASE Restart
  BY <1>5, RestartWatched
<1>6. CASE UNCHANGED vars
  <2>1. \A t \in Task : Untouched(t)
    BY <1>6 DEF vars, pluginVars, agentVars, historyVars, Untouched
  <2>2. \A t \in Task : Watched(t)'
    BY <1>1, <2>1, UntouchedIsWatched
  <2>3. QED
    BY <2>2 DEF IInv, TypeOK, WatchInv, ScheduledIsWoken, PushesWanted, QuietBefore,
       EndLookedFor, Watched
<1>7. QED
  BY <1>3, <1>4, <1>5, <1>6 DEF Next

(* At every moment between the registration of a task and its wake-up its  *)
(* end is found, announced or polled for, unless a call failed, a push was *)
(* dropped or the poll reached its deadline: this is what the liveness     *)
(* property rests on, and the one place where it can go wrong is a push    *)
(* dropped by the guard of scheduleManagerCompletion.                      *)
THEOREM EndsAreNotOverlooked == Spec => []EndNeverOverlooked
<1>1. IInv /\ IInv' /\ WatchInv /\ [Next]_vars => WatchInv'
  BY StepWatches
<1>2. WatchInv => EndNeverOverlooked
  BY DEF WatchInv, EndLookedFor, EndNeverOverlooked, Registered, Awaited
<1>3. QED
  BY PushInvariant, InitWatchInv, <1>1, <1>2, PTL DEF Spec
=============================================================================
