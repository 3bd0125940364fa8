--------------------------- MODULE MessageNotifications ---------------------------
(***************************************************************************)
(* Message notifications on Android: what is posted for a chat             *)
(* (ActionableMessageNotifier.kt), the reply and mark-read taps on it      *)
(* (MessageNotificationActionReceiver.kt) and what follows from the        *)
(* core's answer (NotificationActionOutcome.kt).                           *)
(*                                                                         *)
(* Every notification of a chat carries the chat's tag.  The app posts     *)
(* under one id of the chat, the upcall of a headless core under another,  *)
(* so a chat may show two messages, and one summary.  Each post and each   *)
(* cancel is one call to the NotificationManager; taps have workers, and   *)
(* posts, taps and workers cross between these calls.  The core, which     *)
(* stores messages and sends replies, is outside the repository.           *)
(***************************************************************************)
EXTENDS Naturals

CONSTANTS
    Chats,     \* chat ids
    Taps       \* workers, each for one tap on an action at a time

VARIABLES
    shade,     \* what is shown of a chat under each id
    task,      \* what each poster and each worker is at
    crossed    \* history: workers in whose chat something was posted after they
               \* listed its notifications

vars == <<shade, task, crossed>>

Posters == {"app", "headless"}
Ids == Posters \union {"summary"}
Free == [do |-> "free"]

Init ==
    /\ shade = [c \in Chats |-> [i \in Ids |-> "nothing"]]
    /\ task = [t \in Posters \union Taps |-> Free]
    /\ crossed = {}

Does(t, what) == task' = [task EXCEPT ![t] = what]

\* nm.notify under the chat's tag: what the id showed before is replaced.
Notify(c, i, shown) ==
    /\ shade' = [shade EXCEPT ![c][i] = shown]
    /\ crossed' = crossed \union {w \in Taps : task[w].do = "clear" /\ task[w].chat = c}

-----------------------------------------------------------------------------
(* Messages                                                                *)

\* showMessageNotification, by the app's command or the upcall showMessage.
Arrives(p, c) ==
    /\ p \in Posters /\ task[p] = Free
    /\ Notify(c, p, "message")
    /\ Does(p, [do |-> "group", chat |-> c])

\* The second notify of showMessageNotification.
Group(t) ==
    /\ task[t].do = "group"
    /\ Notify(task[t].chat, "summary", "summary")
    /\ Does(t, Free)

\* The user swipes a notification away, or opens it (setAutoCancel).
Dismiss(c, i) ==
    /\ shade[c][i] # "nothing"
    /\ shade' = [shade EXCEPT ![c][i] = "nothing"]
    /\ UNCHANGED <<task, crossed>>

-----------------------------------------------------------------------------
(* Actions                                                                 *)

\* onReceive; the notification stays until the worker is done.
Tap(w, c, i) ==
    /\ task[w] = Free
    /\ shade[c][i] \in {"message", "pending", "retry"}
    /\ \E kind \in {"reply", "read"} :
           Does(w, [do |-> "dispatch", kind |-> kind, chat |-> c, id |-> i])
    /\ UNCHANGED <<shade, crossed>>

\* An empty reply is dropped; a missing symbol throws, which the worker logs.
GivesUp(w) ==
    /\ task[w].do = "dispatch"
    /\ Does(w, Free)
    /\ UNCHANGED <<shade, crossed>>

\* decideNotificationOutcome: only a locked core is worth a retry.  A failure
\* made up before the core was reached says it is recoverable too, and is told
\* by its code.
Decide(w) ==
    /\ task[w].do = "dispatch"
    /\ \E answer \in {"ok", "locked", "refused", "synthetic"} :
           Does(w, IF answer = "locked" THEN [task[w] EXCEPT !.do = "present"]
                   ELSE [do |-> "list", chat |-> task[w].chat, id |-> task[w].id])
    /\ UNCHANGED <<shade, crossed>>

\* rePresentNotification, under the id that was tapped: the reply pending with its
\* text, or a mark-read to tap again.
Present(w) ==
    /\ task[w].do = "present"
    /\ Notify(task[w].chat, task[w].id, IF task[w].kind = "reply" THEN "pending" ELSE "retry")
    /\ Does(w, [do |-> "group", chat |-> task[w].chat])

\* cancelChat: the active notifications with the chat's tag...
MutListTapped(w) ==
    /\ task[w].do = "list"
    /\ Does(w, [do |-> "clear", chat |-> task[w].chat, listed |-> {task[w].id}])
    /\ crossed' = crossed \ {w}
    /\ UNCHANGED shade

List(w) ==
    /\ task[w].do = "list"
    /\ Does(w, [do |-> "clear", chat |-> task[w].chat,
                listed |-> {i \in Ids : shade[task[w].chat][i] # "nothing"}])
    /\ crossed' = crossed \ {w}
    /\ UNCHANGED shade

\* ... each cancelled by its tag and id, whatever is shown there by then.
Clear(w) ==
    /\ task[w].do = "clear"
    /\ \/ \E i \in task[w].listed :
              /\ shade' = [shade EXCEPT ![task[w].chat][i] = "nothing"]
              /\ Does(w, [task[w] EXCEPT !.listed = @ \ {i}])
       \/ /\ task[w].listed = {}
          /\ Does(w, Free)
          /\ UNCHANGED shade
    /\ UNCHANGED crossed

-----------------------------------------------------------------------------
Next ==
    \/ \E c \in Chats : \/ \E p \in Posters : Arrives(p, c)
                        \/ \E i \in Ids : Dismiss(c, i) \/ \E w \in Taps : Tap(w, c, i)
    \/ \E t \in Posters \union Taps : Group(t)
    \/ \E w \in Taps : GivesUp(w) \/ Decide(w) \/ Present(w) \/ List(w) \/ Clear(w)

Spec == Init /\ [][Next]_vars

-----------------------------------------------------------------------------
\* An action that is over leaves nothing of its chat on show, whichever of the
\* app and the headless core had posted it, unless something was posted in the
\* meantime or the core has to be asked again (cancelChat).
ClearsChat ==
    [][\A w \in Taps :
           task[w].do = "clear" /\ task'[w] = Free /\ w \notin crossed
           => \A i \in Ids : shade[task[w].chat][i] = "nothing"]_vars
=============================================================================
