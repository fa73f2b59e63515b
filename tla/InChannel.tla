----------------------------- MODULE InChannel ------------------------------
(***************************************************************************)
(* One InChannel and the Timeline it is aligned with (api/inchannel.cc;    *)
(* api/timeline.cc, sync_window): process bodies attach and detach         *)
(* Processes by waitOn, bind, unwaitOn and unbind; an Activation schedules *)
(* one EXEC_ACTIVATE event for each attached Process, and drops the        *)
(* attachments made by waitOn.  An attachment asked for by a body that     *)
(* this InChannel activated is put off by a BIND event.                    *)
(*                                                                         *)
(* All of it happens at one instant of simulation time: the event list     *)
(* holds the events of that instant, in the order of their second key.     *)
(***************************************************************************)
EXTENDS Integers, Sequences, SequencesExt

CONSTANTS
  Processes,     \* the Processes of the Entity
  Later,         \* those with priority 1, the others have priority 0
  MaxAttached,   \* bound: entries of the waiting list
  MaxEvents      \* bound: events of the instant

VARIABLES
  waitingList,    \* __waitingList: ProcessPri entries, by priority
  events,         \* __events at the present time
  running,        \* __this, or NULL
  activeChannel,  \* the Timeline's __activeChannel is this InChannel
  due,            \* history: the Processes attached when the last Activation arrived
  activated       \* history: the Processes it scheduled

vars == <<waitingList, events, running, activeChannel, due, activated>>

NULL == "NULL"
pri(proc) == IF proc \in Later THEN 1 ELSE 0

\* The macro user_pri: 24 bits, the low 8 left to the system.
user_pri(p) == ((p + 1) * 2^8) % 2^24

\* x goes in front of the first element of s with a strictly larger key.
Inserted(s, x) ==
  LET before == SelectSeq(s, LAMBDA y : y.key <= x.key)
  IN InsertAt(s, Len(before) + 1, x)

\* Event::Event; the event number breaks ties between equal keys.
Scheduled(type, key, proc, bound) ==
  Inserted(events, [type |-> type, key |-> key, proc |-> proc, bound |-> bound])

insert_process_pri(proc, b, p) ==
  waitingList' = Inserted(waitingList, [proc |-> proc, bound |-> b, key |-> p])
-----------------------------------------------------------------------------
(* Calls of the running process body.                                      *)

Calling == running # NULL

\* A Process that this InChannel activated must not lengthen the list at once: the
\* insertion becomes an event.
insertion_gateway(proc, b) ==
  /\ Calling
  /\ Len(waitingList) < MaxAttached /\ Len(events) < MaxEvents
  /\ \/ /\ ~activeChannel
        /\ insert_process_pri(proc, b, user_pri(pri(proc)))
        /\ UNCHANGED events
     \/ /\ activeChannel
        /\ events' = Scheduled("BIND", user_pri(pri(proc)), proc, b)
        /\ UNCHANGED waitingList
  /\ UNCHANGED <<running, activeChannel, due, activated>>

waitOn(proc) == insertion_gateway(proc, FALSE)
bind(proc)   == insertion_gateway(proc, TRUE)

\* The first entry of proc of the given kind is removed.
Detached(proc, b) ==
  /\ Calling
  /\ LET found == SelectInSeq(waitingList, LAMBDA e : e.proc = proc /\ e.bound = b)
     IN found # 0 /\ waitingList' = RemoveAt(waitingList, found)
  /\ UNCHANGED <<events, running, activeChannel, due, activated>>

unwaitOn(proc) == Detached(proc, FALSE)
unbind(proc)   == Detached(proc, TRUE)

\* A write to a mapped OutChannel of the same Timeline, without delay.
write ==
  /\ Calling /\ Len(events) < MaxEvents
  /\ events' = Scheduled("ACTIVATE", 0, NULL, FALSE)
  /\ UNCHANGED <<waitingList, running, activeChannel, due, activated>>

\* The body returns to sync_window.
Return ==
  /\ Calling
  /\ running' = NULL /\ activeChannel' = FALSE
  /\ UNCHANGED <<waitingList, events, due, activated>>
-----------------------------------------------------------------------------
(* Events taken by sync_window.                                            *)

Takes(type) == running = NULL /\ events # <<>> /\ Head(events).type = type

\* TIMEOUT: a body runs that no InChannel activated.
Timeout(proc) ==
  /\ running = NULL /\ running' = proc
  /\ UNCHANGED <<waitingList, events, activeChannel, due, activated>>

\* The loop over the list, standing at position k.  Erasing an entry moves the
\* iterator to the next one and the loop steps once more; from the end of a
\* std::list that leads to its beginning.
RECURSIVE Activations(_, _, _)
Activations(list, k, done) ==
  IF k > Len(list) THEN [left |-> list, done |-> done]
  ELSE IF list[k].bound THEN Activations(list, k + 1, Append(done, list[k]))
  ELSE Activations(RemoveAt(list, k), IF k = Len(list) THEN 1 ELSE k + 1, Append(done, list[k]))

\* The key of the EXEC_ACTIVATE event for entry e.
ExecKey(e) == IF e.key > 0 THEN e.key ELSE pri(e.proc)

Activate ==
  /\ Takes("ACTIVATE")
  /\ LET loop == Activations(waitingList, 1, <<>>)
         Exec(s, e) == Inserted(s, [type |-> "EXEC_ACTIVATE", key |-> ExecKey(e),
                                    proc |-> e.proc, bound |-> FALSE])
     IN /\ waitingList' = loop.left
        /\ events' = FoldLeft(Exec, Tail(events), loop.done)
        /\ activated' = [k \in DOMAIN loop.done |-> loop.done[k].proc]
  /\ due' = [k \in DOMAIN waitingList |-> waitingList[k].proc]
  /\ UNCHANGED <<running, activeChannel>>

ExecActivate ==
  /\ Takes("EXEC_ACTIVATE")
  /\ running' = Head(events).proc /\ activeChannel' = TRUE
  /\ events' = Tail(events)
  /\ UNCHANGED <<waitingList, due, activated>>

\* The delayed insertion; the priority was converted when the event was made.
Bind ==
  /\ Takes("BIND")
  /\ insert_process_pri(Head(events).proc, Head(events).bound, user_pri(Head(events).key))
  /\ events' = Tail(events)
  /\ UNCHANGED <<running, activeChannel, due, activated>>
-----------------------------------------------------------------------------
Init ==
  /\ waitingList = <<>> /\ events = <<>>
  /\ running = NULL /\ activeChannel = FALSE
  /\ due = <<>> /\ activated = <<>>

Next ==
  \/ Activate \/ ExecActivate \/ Bind \/ write \/ Return
  \/ \E proc \in Processes :
       Timeout(proc) \/ waitOn(proc) \/ bind(proc) \/ unwaitOn(proc) \/ unbind(proc)

Spec == Init /\ [][Next]_vars
-----------------------------------------------------------------------------
\* "whenever the OutChannel write method is used to send an Activation, Processes
\* that somehow have been attached to the Inchannel are activated" (inchannel.h):
\* no Process attached when an Activation is processed is left out.
AttachedAreActivated == Range(due) \subseteq Range(activated)
=============================================================================
