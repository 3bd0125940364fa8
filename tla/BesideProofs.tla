----------------------------- MODULE BesideProofs -----------------------------
(***************************************************************************)
(* Proofs about the parts beside the service, each for itself: the socket  *)
(* file, the network watcher, message notifications and the calls of       *)
(* Android and iOS, for any number of daemons, networks, chats, calls and  *)
(* taps.                                                                   *)
(***************************************************************************)
EXTENDS MCBeside, SequenceTheorems, TLAPS

-----------------------------------------------------------------------------
(* The socket file.  What a daemon finds there when it looks, unlinks and  *)
(* binds changes under it only by the hand of another one that runs, and   *)
(* daemons that run together are on record as crossed.                     *)

SocketTypes ==
    /\ daemon \in [Daemons -> {"off", "failed", "probing", "unlinking", "binding",
                               "serving", "draining"}]
    /\ file \in BOOLEAN
    /\ crossed \subseteq Daemons

SocketInv ==
    /\ SocketTypes
    /\ \A d, e \in Daemons : d # e /\ Socket!Runs(d) /\ Socket!Runs(e) => d \in crossed
    /\ \A d \in Daemons :
          \/ daemon[d] = "unlinking" /\ ~file
          \/ daemon[d] = "binding" /\ file
          => d \in crossed
    /\ StaleNeverBlocks

(* A daemon that takes a step on the file while another one waits between  *)
(* two of its own is beside it.                                            *)
LEMMA SocketMove ==
    ASSUME SocketInv, NEW d \in Daemons, Socket!Runs(d), UNCHANGED crossed,
           NEW q \in {"off", "failed", "probing", "unlinking", "binding",
                      "serving", "draining"},
           Socket!Becomes(d, q), file' \in BOOLEAN,
           \/ q = "failed"
           \/ q = "unlinking" /\ ~file'
           \/ q = "binding" /\ file'
           => d \in crossed
    PROVE  SocketInv'
<1> USE DEF SocketInv, SocketTypes, StaleNeverBlocks, Socket!StaleNeverBlocks,
            Socket!Runs, Socket!Becomes
<1>1. /\ daemon'[d] = q
      /\ \A e \in Daemons \ {d} : daemon'[e] = daemon[e]
  OBVIOUS
<1>2. SocketTypes'
  OBVIOUS
<1>3. \A e \in Daemons \ {d} : Socket!Runs(e) => e \in crossed
  OBVIOUS
<1> QED BY <1>1, <1>2, <1>3

LEMMA SocketBoot ==
    ASSUME SocketInv, NEW d \in Daemons, Socket!Boot(d)
    PROVE  SocketInv'
<1> USE DEF SocketInv, SocketTypes, StaleNeverBlocks, Socket!StaleNeverBlocks,
            Socket!Runs, Socket!Becomes
<1> DEFINE beside == {e \in Daemons \ {d} : Socket!Runs(e)}
<1>1. /\ ~Socket!Runs(d) /\ UNCHANGED file
      /\ daemon' = [daemon EXCEPT ![d] = "probing"]
      /\ crossed' = IF beside = {} THEN crossed \ {d} ELSE crossed \union {d} \union beside
  BY DEF Socket!Boot
<1>2. /\ daemon'[d] = "probing"
      /\ \A e \in Daemons \ {d} : daemon'[e] = daemon[e]
  BY <1>1
<1>3. SocketTypes'
  BY <1>1
<1>4. \A e \in Daemons \ {d} : e \in crossed => e \in crossed'
  BY <1>1
<1>5. \A e \in Daemons \ {d} : Socket!Runs(e) => d \in crossed' /\ e \in crossed'
  BY <1>1
<1> QED BY <1>1, <1>2, <1>3, <1>4, <1>5

LEMMA SocketStep ==
    ASSUME SocketInv, [Socket!Next]_Socket!vars
    PROVE  SocketInv'
<1> USE DEF SocketInv, SocketTypes
<1>1. ASSUME NEW d \in Daemons, Socket!Probe(d) \/ Socket!Terminate(d) PROVE SocketInv'
  BY <1>1, SocketMove DEF Socket!Probe, Socket!Terminate, Socket!Runs
<1>2. ASSUME NEW d \in Daemons, Socket!Unlink(d) \/ Socket!Bind(d) PROVE SocketInv'
  BY <1>2, SocketMove DEF Socket!Unlink, Socket!Bind, Socket!Runs
<1>3. ASSUME NEW d \in Daemons,
             Socket!AcceptFails(d) \/ Socket!Exit(d) \/ Socket!Killed(d)
      PROVE  SocketInv'
  BY <1>3, SocketMove
     DEF Socket!AcceptFails, Socket!Exit, Socket!Killed, Socket!Gone, Socket!Runs
<1>4. CASE UNCHANGED Socket!vars
  BY <1>4 DEF Socket!vars, Socket!Runs, StaleNeverBlocks, Socket!StaleNeverBlocks
<1> QED BY <1>1, <1>2, <1>3, <1>4, SocketBoot DEF Socket!Next

(* Whatever a daemon left behind, it keeps none that runs alone from       *)
(* binding (bind in transport_unix.rs).                                    *)
THEOREM StaleFilesHarmless == Socket!Spec => []StaleNeverBlocks
<1>1. Socket!Init => SocketInv
  BY DEF Socket!Init, SocketInv, SocketTypes, Socket!Runs, StaleNeverBlocks,
         Socket!StaleNeverBlocks
<1>2. SocketInv => StaleNeverBlocks
  BY DEF SocketInv
<1> QED BY <1>1, <1>2, SocketStep, PTL DEF Socket!Spec

-----------------------------------------------------------------------------
(* Message notifications.  What a worker listed covers what its chat shows *)
(* until something is posted there.                                        *)

ChatTasks ==
    [do : {"free"}]
    \union [do : {"group"}, chat : Chats]
    \union [do : {"dispatch", "present"}, kind : {"reply", "read"}, chat : Chats,
            id : Message!Ids]
    \union [do : {"list"}, chat : Chats, id : Message!Ids]
    \union [do : {"clear"}, chat : Chats, listed : SUBSET Message!Ids]

ChatTypes ==
    /\ chatShade \in [Chats -> [Message!Ids ->
                         {"nothing", "message", "summary", "pending", "retry"}]]
    /\ chatTask \in [Message!Posters \union ChatTaps -> ChatTasks]

ListCovers ==
    \A w \in ChatTaps :
        chatTask[w].do = "clear" /\ w \notin chatCrossed
        => \A i \in Message!Ids :
              chatShade[chatTask[w].chat][i] # "nothing" => i \in chatTask[w].listed

ChatInv == ChatTypes /\ ListCovers

(* A step that posts nothing in a chat whose list is out, and takes no     *)
(* worker to its list.                                                     *)
LEMMA ChatFrame ==
    ASSUME ChatInv, ChatTypes', UNCHANGED chatCrossed,
           \A c \in Chats, i \in Message!Ids :
              chatShade'[c][i] # "nothing" => chatShade[c][i] # "nothing",
           \A w \in ChatTaps : chatTask'[w].do = "clear" => chatTask'[w] = chatTask[w]
    PROVE  ChatInv'
<1>1. \A w \in ChatTaps : chatTask[w].do = "clear" => chatTask[w].chat \in Chats
  BY DEF ChatInv, ChatTypes, ChatTasks
<1> QED BY <1>1 DEF ChatInv, ListCovers

(* A post puts on record whoever it crosses.                               *)
LEMMA ChatPost ==
    ASSUME ChatInv, NEW t \in Message!Posters \union ChatTaps,
           NEW c \in Chats, NEW i \in Message!Ids,
           NEW shown \in {"message", "summary", "pending", "retry"},
           Message!Notify(c, i, shown),
           NEW q \in ChatTasks, q.do # "clear", chatTask[t].do # "clear",
           Message!Does(t, q)
    PROVE  ChatInv'
<1> USE DEF ChatInv, ChatTypes
<1>1. /\ chatShade' = [chatShade EXCEPT ![c][i] = shown]
      /\ chatCrossed' = chatCrossed \union
            {w \in ChatTaps : chatTask[w].do = "clear" /\ chatTask[w].chat = c}
      /\ chatTask' = [chatTask EXCEPT ![t] = q]
  BY DEF Message!Notify, Message!Does
<1>2. ChatTypes'
  BY <1>1
<1>3. ASSUME NEW w \in ChatTaps, chatTask'[w].do = "clear", w \notin chatCrossed'
      PROVE  \A j \in Message!Ids :
                chatShade'[chatTask'[w].chat][j] # "nothing" => j \in chatTask'[w].listed
  <2>1. w # t /\ chatTask'[w] = chatTask[w]
    BY <1>1, <1>3
  <2>2. chatTask[w].chat # c /\ w \notin chatCrossed
    BY <1>1, <1>3, <2>1
  <2>3. chatTask[w].chat \in Chats
    BY <1>3, <2>1 DEF ChatTasks
  <2>4. chatShade'[chatTask[w].chat] = chatShade[chatTask[w].chat]
    BY <1>1, <2>2, <2>3
  <2> QED BY <1>3, <2>1, <2>2, <2>4 DEF ListCovers
<1> QED BY <1>2, <1>3 DEF ListCovers

LEMMA ChatArrives ==
    ASSUME ChatInv, NEW p \in Message!Posters, NEW c \in Chats, Message!Arrives(p, c)
    PROVE  ChatInv'
<1>1. [do |-> "group", chat |-> c] \in ChatTasks
  BY DEF ChatTasks
<1> QED
  BY <1>1, ChatPost DEF Message!Arrives, Message!Free, Message!Ids

LEMMA ChatGroup ==
    ASSUME ChatInv, NEW t \in Message!Posters \union ChatTaps, Message!Group(t)
    PROVE  ChatInv'
<1>1. chatTask[t].chat \in Chats
  BY DEF Message!Group, ChatInv, ChatTypes, ChatTasks
<1>2. Message!Free \in ChatTasks /\ Message!Free.do # "clear" /\ "summary" \in Message!Ids
  BY DEF ChatTasks, Message!Free, Message!Ids
<1> QED BY <1>1, <1>2, ChatPost DEF Message!Group

LEMMA ChatPresent ==
    ASSUME ChatInv, NEW w \in ChatTaps, Message!Present(w)
    PROVE  ChatInv'
<1>1. chatTask[w].chat \in Chats /\ chatTask[w].id \in Message!Ids
  BY DEF Message!Present, ChatInv, ChatTypes, ChatTasks
<1>2. [do |-> "group", chat |-> chatTask[w].chat] \in ChatTasks
  BY <1>1 DEF ChatTasks
<1> QED BY <1>1, <1>2, ChatPost DEF Message!Present

LEMMA ChatTap ==
    ASSUME ChatInv, NEW w \in ChatTaps, NEW c \in Chats, NEW i \in Message!Ids,
           Message!Tap(w, c, i)
    PROVE  ChatInv'
<1>1. PICK kind \in {"reply", "read"} :
         chatTask' = [chatTask EXCEPT ![w] = [do |-> "dispatch", kind |-> kind,
                                              chat |-> c, id |-> i]]
  BY DEF Message!Tap, Message!Does
<1>2. ChatTypes'
  BY <1>1 DEF Message!Tap, ChatInv, ChatTypes, ChatTasks
<1>3. \A v \in ChatTaps : chatTask'[v].do = "clear" => chatTask'[v] = chatTask[v]
  BY <1>1 DEF ChatInv, ChatTypes
<1> QED BY <1>2, <1>3, ChatFrame DEF Message!Tap

LEMMA ChatDecide ==
    ASSUME ChatInv, NEW w \in ChatTaps, Message!GivesUp(w) \/ Message!Decide(w)
    PROVE  ChatInv'
<1>1. chatTask[w].chat \in Chats /\ chatTask[w].id \in Message!Ids
      /\ chatTask[w] \in [do : {"dispatch"}, kind : {"reply", "read"}, chat : Chats,
                          id : Message!Ids]
  BY DEF Message!GivesUp, Message!Decide, ChatInv, ChatTypes, ChatTasks
<1>2. \E q \in ChatTasks : q.do # "clear" /\ chatTask' = [chatTask EXCEPT ![w] = q]
  <2>1. /\ [chatTask[w] EXCEPT !.do = "present"] \in ChatTasks
        /\ [do |-> "list", chat |-> chatTask[w].chat, id |-> chatTask[w].id] \in ChatTasks
        /\ Message!Free \in ChatTasks
    BY <1>1 DEF ChatTasks, Message!Free
  <2>2. /\ [chatTask[w] EXCEPT !.do = "present"].do # "clear"
        /\ Message!Free.do # "clear"
    BY <1>1 DEF Message!Free
  <2> QED BY <2>1, <2>2 DEF Message!GivesUp, Message!Decide, Message!Does
<1>3. UNCHANGED <<chatShade, chatCrossed>>
  BY DEF Message!GivesUp, Message!Decide
<1>4. ChatTypes'
  BY <1>2, <1>3 DEF ChatInv, ChatTypes
<1>5. \A v \in ChatTaps : chatTask'[v].do = "clear" => chatTask'[v] = chatTask[v]
  BY <1>2 DEF ChatInv, ChatTypes
<1> QED BY <1>3, <1>4, <1>5, ChatFrame

LEMMA ChatList ==
    ASSUME ChatInv, NEW w \in ChatTaps, Message!List(w)
    PROVE  ChatInv'
<1> USE DEF ChatInv, ChatTypes
<1> DEFINE q == [do |-> "clear", chat |-> chatTask[w].chat,
                 listed |-> {i \in Message!Ids :
                                chatShade[chatTask[w].chat][i] # "nothing"}]
<1>1. chatTask[w].chat \in Chats
  BY DEF Message!List, ChatTasks
<1>2. q \in ChatTasks
  BY <1>1 DEF ChatTasks
<1>3. /\ chatTask' = [chatTask EXCEPT ![w] = q]
      /\ chatCrossed' = chatCrossed \ {w} /\ chatShade' = chatShade
  BY DEF Message!List, Message!Does
<1>4. ChatTypes'
  BY <1>2, <1>3
<1>5. /\ chatTask'[w] = q
      /\ \A v \in ChatTaps \ {w} : chatTask'[v] = chatTask[v]
  BY <1>3
<1>6. \A i \in Message!Ids : chatShade[q.chat][i] # "nothing" => i \in q.listed
  OBVIOUS
<1> HIDE DEF q
<1> QED BY <1>3, <1>4, <1>5, <1>6 DEF ListCovers

LEMMA ChatClear ==
    ASSUME ChatInv, NEW w \in ChatTaps, Message!Clear(w)
    PROVE  ChatInv'
<1> USE DEF ChatInv, ChatTypes
<1>1. /\ chatTask[w] \in [do : {"clear"}, chat : Chats, listed : SUBSET Message!Ids]
      /\ chatCrossed' = chatCrossed
  BY DEF Message!Clear, ChatTasks
<1>2. CASE /\ chatTask[w].listed = {} /\ UNCHANGED chatShade
           /\ chatTask' = [chatTask EXCEPT ![w] = Message!Free]
  <2>1. ChatTypes'
    BY <1>2 DEF ChatTasks, Message!Free
  <2>2. \A v \in ChatTaps : chatTask'[v].do = "clear" => chatTask'[v] = chatTask[v]
    BY <1>2 DEF Message!Free
  <2> QED BY <1>1, <1>2, <2>1, <2>2, ChatFrame
<1>3. ASSUME NEW i \in chatTask[w].listed,
             chatShade' = [chatShade EXCEPT ![chatTask[w].chat][i] = "nothing"],
             chatTask' = [chatTask EXCEPT ![w] = [chatTask[w] EXCEPT !.listed = @ \ {i}]]
      PROVE  ChatInv'
  <2> DEFINE q == [chatTask[w] EXCEPT !.listed = @ \ {i}]
  <2>1. /\ q \in [do : {"clear"}, chat : Chats, listed : SUBSET Message!Ids]
        /\ q.chat = chatTask[w].chat /\ q.listed = chatTask[w].listed \ {i}
    BY <1>1
  <2>2. q \in ChatTasks
    BY <2>1 DEF ChatTasks
  <2> HIDE DEF q
  <2>3. /\ chatTask' = [chatTask EXCEPT ![w] = q]
        /\ chatTask'[w] = q
        /\ \A v \in ChatTaps \ {w} : chatTask'[v] = chatTask[v]
    BY <1>3 DEF q
  <2>4. ChatTypes'
    BY <1>1, <1>3, <2>2, <2>3
  <2>5. \A c \in Chats, j \in Message!Ids :
           chatShade'[c][j] # "nothing" => chatShade[c][j] # "nothing"
    BY <1>1, <1>3
  <2>6. chatShade'[q.chat][i] = "nothing"
    BY <1>1, <1>3, <2>1
  <2>7. \A j \in Message!Ids :
           w \notin chatCrossed /\ chatShade'[q.chat][j] # "nothing" => j \in q.listed
    BY <1>1, <2>1, <2>5, <2>6 DEF ListCovers
  <2>8. \A v \in ChatTaps \ {w} : chatTask[v].do = "clear" => chatTask[v].chat \in Chats
    BY DEF ChatTasks
  <2> QED BY <1>1, <2>3, <2>4, <2>5, <2>7, <2>8 DEF ListCovers
<1> QED BY <1>2, <1>3 DEF Message!Clear, Message!Does

LEMMA ChatStep ==
    ASSUME ChatInv, [Message!Next]_Message!vars
    PROVE  ChatInv'
<1>1. ASSUME NEW c \in Chats, NEW i \in Message!Ids, Message!Dismiss(c, i)
      PROVE  ChatInv'
  <2>1. ChatTypes'
    BY <1>1 DEF Message!Dismiss, ChatInv, ChatTypes
  <2>2. \A d \in Chats, j \in Message!Ids :
           chatShade'[d][j] # "nothing" => chatShade[d][j] # "nothing"
    BY <1>1 DEF Message!Dismiss, ChatInv, ChatTypes
  <2> QED BY <1>1, <2>1, <2>2, ChatFrame DEF Message!Dismiss
<1>2. CASE UNCHANGED Message!vars
  BY <1>2 DEF Message!vars, ChatInv, ChatTypes, ListCovers
<1> QED
  BY <1>1, <1>2, ChatArrives, ChatGroup, ChatPresent, ChatTap, ChatDecide, ChatList,
     ChatClear
     DEF Message!Next

(* An action that is over leaves nothing of its chat on show, unless       *)
(* something was posted there meanwhile (cancelChat).                      *)
THEOREM ActionsClear == Message!Spec => ClearsChat
<1>1. Message!Init => ChatInv
  BY DEF Message!Init, ChatInv, ChatTypes, ChatTasks, ListCovers, Message!Free
<1>2. ChatInv /\ [Message!Next]_Message!vars =>
         [\A w \in ChatTaps :
             chatTask[w].do = "clear" /\ chatTask'[w] = Message!Free /\ w \notin chatCrossed
             => \A i \in Message!Ids : chatShade[chatTask[w].chat][i] = "nothing"]_Message!vars
  <2> SUFFICES ASSUME ChatInv, Message!Next, NEW w \in ChatTaps,
                      chatTask[w].do = "clear", chatTask'[w] = Message!Free,
                      w \notin chatCrossed
               PROVE  chatTask[w].listed = {}
    BY DEF ChatInv, ListCovers
  <2>1. /\ chatTask[w].do = "clear" /\ chatTask'[w].do = "free"
        /\ w \in DOMAIN chatTask
    BY DEF Message!Free, ChatInv, ChatTypes
  <2>2. ASSUME NEW t, chatTask[t].do # "clear",
               NEW q, chatTask' = [chatTask EXCEPT ![t] = q]
        PROVE  FALSE
    BY <2>1, <2>2
  <2>3. ASSUME NEW t \in ChatTaps, Message!Clear(t) PROVE chatTask[w].listed = {}
    <3>1. CASE /\ chatTask[t].listed = {}
               /\ chatTask' = [chatTask EXCEPT ![t] = Message!Free]
      BY <2>1, <3>1
    <3>2. ASSUME NEW i \in chatTask[t].listed,
                 chatTask' = [chatTask EXCEPT ![t] = [chatTask[t] EXCEPT !.listed = @ \ {i}]]
          PROVE  FALSE
      <4>1. chatTask[t] \in [do : {"clear"}, chat : Chats, listed : SUBSET Message!Ids]
        BY <2>3 DEF Message!Clear, ChatInv, ChatTypes, ChatTasks
      <4>2. [chatTask[t] EXCEPT !.listed = @ \ {i}].do = "clear"
        BY <4>1
      <4> QED BY <2>1, <3>2, <4>2
    <3> QED BY <2>3, <3>1, <3>2 DEF Message!Clear, Message!Does
  <2>4. chatTask' # chatTask
    BY <2>1
  <2>5. ASSUME NEW t \in ChatTaps, Message!Present(t) PROVE FALSE
    BY <2>2, <2>5 DEF Message!Present, Message!Does
  <2>6. ASSUME NEW t \in ChatTaps, Message!Decide(t) PROVE FALSE
    <3>1. chatTask[t].do # "clear"
      BY <2>6 DEF Message!Decide
    <3> QED BY <2>2, <2>6, <3>1 DEF Message!Decide, Message!Does
  <2>7. ASSUME NEW t, Message!Group(t) \/ Message!GivesUp(t) \/ Message!List(t)
        PROVE  FALSE
    <3>1. chatTask[t].do # "clear"
      BY <2>7 DEF Message!Group, Message!GivesUp, Message!List
    <3> QED
      BY <2>2, <2>7, <3>1 DEF Message!Group, Message!GivesUp, Message!List, Message!Does
  <2>8. ASSUME NEW c, NEW p, Message!Arrives(p, c) PROVE FALSE
    BY <2>2, <2>8 DEF Message!Arrives, Message!Does, Message!Free
  <2>9. ASSUME NEW c, NEW i, Message!Dismiss(c, i) PROVE FALSE
    BY <2>4, <2>9 DEF Message!Dismiss
  <2>10. ASSUME NEW c, NEW i, NEW t, Message!Tap(t, c, i) PROVE FALSE
    BY <2>2, <2>10 DEF Message!Tap, Message!Does, Message!Free
  <2> QED
    BY <2>3, <2>5, <2>6, <2>7, <2>8, <2>9, <2>10 DEF Message!Next
<1> QED
  BY <1>1, <1>2, ChatStep, PTL DEF Message!Spec, ClearsChat, Message!ClearsChat

-----------------------------------------------------------------------------
(* The network watcher.  What is recorded has been fired or waits in the   *)
(* one current trailing runnable, which is due no sooner than Settle after *)
(* the last fire; what is not recorded yet is on its way to the handler.   *)

WatcherTypes ==
    /\ network \in Networks /\ last \in Networks /\ announced \in Networks
    /\ phase \in {"new", "registering", "on", "failed", "off"} /\ posted \in BOOLEAN
    /\ thread \in [pc : {"idle"}] \union [pc : {"read"}, fingerprint : Networks]
                  \union [pc : {"fire"}, kind : {"leading", "trailing"}]
    /\ generation \in Nat
    /\ pending \subseteq [generation : Nat, due : Nat]
    /\ age \in Nat /\ age <= Watcher!Settle

OneCurrent ==
    /\ \A p \in pending : p.generation <= generation
    /\ \A p, q \in pending : p.generation = q.generation => p = q
    /\ \A p \in pending : p.generation = generation => p.due + age >= Watcher!Settle

Recorded ==
    phase = "on" =>
        announced = last \/ \E p \in pending : p.generation = generation

Reported ==
    Watcher!Registered =>
        \/ posted
        \/ thread.pc = "read" /\ thread.fingerprint = network
        \/ phase = "on" /\ thread.pc # "read" /\ last = network

WatcherInv == WatcherTypes /\ OneCurrent /\ Recorded /\ Reported

LEMMA Settles ==
    /\ Watcher!Settle \in Nat /\ Watcher!Horizon = Watcher!Settle
    /\ Debounce \in Nat /\ Debounce <= Watcher!Settle
    /\ Throttle + Slack <= Watcher!Settle
  BY BesideAssumption
     DEF BesideAssumption, Watcher!Settle, Watcher!Horizon, Watcher!Larger

LEMMA WatcherTick ==
    ASSUME WatcherInv, Watcher!Tick
    PROVE  WatcherInv'
<1> USE DEF WatcherInv
<1> DEFINE Aged(p) == [p EXCEPT !.due = IF @ = 0 THEN 0 ELSE @ - 1]
<1>1. /\ age' = Watcher!Smaller(age + 1, Watcher!Settle)
      /\ pending' = {Aged(p) : p \in pending}
      /\ UNCHANGED <<network, phase, posted, thread, last, generation, announced>>
  BY Settles DEF Watcher!Tick, Watcher!threadVars
<1>2. \A p \in pending :
         /\ Aged(p) \in [generation : Nat, due : Nat]
         /\ Aged(p).generation = p.generation
         /\ Aged(p).due >= p.due - 1 /\ Aged(p).due >= 0
  BY DEF WatcherTypes
<1>3. age' \in Nat /\ age' <= Watcher!Settle /\ age' = Watcher!Smaller(age + 1, Watcher!Settle)
  BY <1>1, Settles DEF WatcherTypes, Watcher!Smaller
<1> HIDE DEF Aged
<1>4. WatcherTypes'
  BY <1>1, <1>2, <1>3, Settles DEF WatcherTypes
<1>5. OneCurrent'
  <2>1. \A p \in pending' : p.generation <= generation'
    BY <1>1, <1>2 DEF OneCurrent
  <2>2. \A p, q \in pending' : p.generation = q.generation => p = q
    BY <1>1, <1>2 DEF OneCurrent
  <2>3. ASSUME NEW p \in pending, p.generation = generation
        PROVE  Aged(p).due + age' >= Watcher!Settle
    <3>1. /\ p.due \in Nat /\ Aged(p).due \in Nat /\ age \in Nat /\ age' \in Nat
          /\ Watcher!Settle \in Nat
      BY <1>2, <1>3, Settles DEF WatcherTypes
    <3>2. p.due + age >= Watcher!Settle
      BY <2>3 DEF OneCurrent
    <3>3. age' = Watcher!Settle \/ age' = age + 1
      BY <1>3 DEF Watcher!Smaller
    <3> QED BY <1>2, <3>1, <3>2, <3>3
  <2> QED BY <1>1, <1>2, <2>1, <2>2, <2>3 DEF OneCurrent
<1>6. Recorded' /\ Reported'
  BY <1>1, <1>2 DEF Recorded, Reported, Watcher!Registered
<1> QED BY <1>4, <1>5, <1>6

LEMMA WatcherSuppress ==
    ASSUME WatcherInv, Watcher!Suppress
    PROVE  WatcherInv'
<1> USE DEF WatcherInv
<1> DEFINE next == [generation |-> generation + 1, due |-> Watcher!Settle - age]
<1>1. /\ thread.pc = "read" /\ thread' = [pc |-> "idle"]
      /\ last' = thread.fingerprint /\ generation' = generation + 1
      /\ pending' = IF phase = "on" THEN pending \union {next} ELSE pending
      /\ phase # "registering" /\ thread.fingerprint \in Networks
      /\ UNCHANGED <<network, phase, posted, age, announced>>
  BY DEF Watcher!Suppress, Watcher!Idle, Watcher!Unlocked, WatcherTypes
<1>2. next \in [generation : Nat, due : Nat] /\ next.due + age >= Watcher!Settle
  BY Settles DEF WatcherTypes
<1>3. next.generation = generation + 1
  OBVIOUS
<1>4. generation \in Nat /\ \A p \in pending : p.generation \in Nat
  BY DEF WatcherTypes
<1> HIDE DEF next
<1>5. WatcherTypes'
  BY <1>1, <1>2 DEF WatcherTypes
<1>6. OneCurrent'
  BY <1>1, <1>2, <1>3, <1>4 DEF OneCurrent
<1>7. Recorded' /\ Reported'
  BY <1>1, <1>3 DEF Recorded, Reported, Watcher!Registered, WatcherTypes
<1> QED BY <1>5, <1>6, <1>7

LEMMA WatcherFire ==
    ASSUME WatcherInv,
           Watcher!LeadingFire \/ \E p \in pending : Watcher!TrailingFire(p)
    PROVE  WatcherInv'
<1> USE DEF WatcherInv
<1>1. /\ age' = 0 /\ thread'.pc = "fire"
      /\ thread' \in [pc : {"fire"}, kind : {"leading", "trailing"}]
      /\ announced' = last' /\ last' \in Networks
      /\ pending' \subseteq pending
      /\ UNCHANGED <<network, phase, posted>>
  BY DEF Watcher!LeadingFire, Watcher!TrailingFire, Watcher!Fire, WatcherTypes
<1>2. generation \in Nat /\ \A p \in pending : p.generation \in Nat
  BY DEF WatcherTypes
<1>3. generation' \in Nat /\ generation' >= generation
  BY <1>2 DEF Watcher!LeadingFire, Watcher!TrailingFire
<1>4. \A p \in pending' : p.generation # generation'
  <2>1. CASE Watcher!LeadingFire
    BY <1>2, <2>1 DEF Watcher!LeadingFire, OneCurrent
  <2>2. ASSUME NEW p \in pending, Watcher!TrailingFire(p)
        PROVE  \A q \in pending' : q.generation # generation'
    BY <1>2, <2>2 DEF Watcher!TrailingFire, OneCurrent
  <2> QED BY <2>1, <2>2
<1>5. WatcherTypes'
  BY <1>1, <1>3, Settles DEF WatcherTypes
<1>6. OneCurrent'
  BY <1>1, <1>2, <1>3, <1>4 DEF OneCurrent
<1>7. Recorded' /\ Reported'
  <2>1. \/ /\ thread.pc = "read" /\ phase # "registering"
           /\ last' = thread.fingerprint
        \/ thread.pc = "idle" /\ last' = last
    BY DEF Watcher!LeadingFire, Watcher!TrailingFire, Watcher!Unlocked
  <2> QED BY <1>1, <2>1 DEF Recorded, Reported, Watcher!Registered
<1> QED BY <1>5, <1>6, <1>7

LEMMA WatcherStep ==
    ASSUME WatcherInv, [Watcher!Next]_Watcher!vars
    PROVE  WatcherInv'
<1> USE DEF WatcherInv
<1>1. CASE Watcher!Register \/ Watcher!Baseline
  <2>1. /\ \/ phase' = "registering" /\ UNCHANGED <<last, announced>> /\ posted' = TRUE
           \/ phase' = "failed" /\ UNCHANGED <<last, announced, posted>>
           \/ /\ phase = "registering" /\ phase' = "on" /\ UNCHANGED posted
              /\ last' = network /\ announced' = network
        /\ UNCHANGED <<network, thread, age, generation, pending>>
    BY <1>1 DEF Watcher!Register, Watcher!Baseline, Watcher!fireVars, Watcher!threadVars
  <2>2. WatcherTypes'
    BY <2>1 DEF WatcherTypes
  <2>3. OneCurrent'
    BY <2>1 DEF OneCurrent
  <2> QED BY <2>1, <2>2, <2>3 DEF Recorded, Reported, Watcher!Registered
<1>2. CASE Watcher!Unregister
  <2>1. /\ phase' = "off" /\ generation' = generation + 1 /\ pending' \subseteq pending
        /\ UNCHANGED <<network, posted, thread, last, age, announced>>
    BY <1>2 DEF Watcher!Unregister, Watcher!threadVars
  <2>2. generation \in Nat /\ \A p \in pending : p.generation \in Nat
    BY DEF WatcherTypes
  <2>3. OneCurrent'
    BY <2>1, <2>2 DEF OneCurrent
  <2> QED BY <2>1, <2>3 DEF WatcherTypes, Recorded, Reported, Watcher!Registered
<1>3. CASE \/ Watcher!Read \/ Watcher!SameNetwork \/ Watcher!Nudge
           \/ Watcher!NetworkChanges \/ Watcher!Chatter
  <2>1. UNCHANGED <<phase, last, age, generation, pending, announced>>
    BY <1>3
       DEF Watcher!Read, Watcher!SameNetwork, Watcher!Nudge, Watcher!NetworkChanges,
           Watcher!Chatter, Watcher!fireVars
  <2>2. \/ /\ posted' = FALSE /\ thread' = [pc |-> "read", fingerprint |-> network]
           /\ UNCHANGED network
        \/ /\ thread' = [pc |-> "idle"] /\ UNCHANGED <<posted, network>>
           /\ thread.pc = "read" => thread.fingerprint = last /\ phase # "registering"
        \/ /\ network' \in Networks /\ UNCHANGED thread
           /\ posted' \in BOOLEAN /\ (Watcher!Registered => posted')
           /\ posted => posted'
    <3>1. CASE Watcher!Read \/ Watcher!SameNetwork \/ Watcher!Nudge
      BY <3>1 DEF Watcher!Read, Watcher!SameNetwork, Watcher!Nudge, Watcher!Idle,
                  Watcher!Unlocked
    <3>2. CASE Watcher!NetworkChanges
      <4>1. /\ network' \in Networks /\ UNCHANGED thread
            /\ posted' = (posted \/ Watcher!Registered) /\ posted \in BOOLEAN
        BY <3>2 DEF Watcher!NetworkChanges, WatcherTypes
      <4> QED BY <4>1, Zenon DEF Watcher!Registered
    <3>3. CASE Watcher!Chatter
      BY <3>3 DEF Watcher!Chatter, WatcherTypes
    <3> QED BY <1>3, <3>1, <3>2, <3>3
  <2>3. WatcherTypes'
    <3>1. thread' = thread \/ thread' \in [pc : {"idle"}]
          \/ thread' \in [pc : {"read"}, fingerprint : Networks]
      BY <2>2 DEF WatcherTypes
    <3>2. posted' \in BOOLEAN /\ network' \in Networks
      BY <2>2 DEF WatcherTypes
    <3> QED BY <2>1, <3>1, <3>2 DEF WatcherTypes
  <2>4. OneCurrent' /\ Recorded'
    BY <2>1 DEF OneCurrent, Recorded
  <2>5. Reported'
    BY <2>1, <2>2 DEF Reported, Watcher!Registered
  <2> QED BY <2>3, <2>4, <2>5
<1>4. ASSUME NEW p \in pending, Watcher!Superseded(p) PROVE WatcherInv'
  <2>1. /\ pending' = pending \ {p} /\ p.generation # generation
        /\ UNCHANGED <<network, phase, posted, thread, last, age, generation, announced>>
    BY <1>4 DEF Watcher!Superseded, Watcher!threadVars
  <2> QED BY <2>1 DEF WatcherTypes, OneCurrent, Recorded, Reported, Watcher!Registered
<1>5. CASE UNCHANGED Watcher!vars
  BY <1>5
     DEF Watcher!vars, Watcher!threadVars, Watcher!fireVars, WatcherTypes, OneCurrent,
         Recorded, Reported, Watcher!Registered
<1> QED
  BY <1>1, <1>2, <1>3, <1>4, <1>5, WatcherTick, WatcherSuppress, WatcherFire
     DEF Watcher!Next, Watcher!HandlerStep

LEMMA WatcherAlways == Watcher!Spec => []WatcherInv
<1>1. Watcher!Init => WatcherInv
  <2> SUFFICES ASSUME Watcher!Init PROVE WatcherInv
    OBVIOUS
  <2>1. age \in Nat /\ age <= Watcher!Settle
    BY Settles DEF Watcher!Init
  <2>2. thread \in [pc : {"idle"}]
    BY DEF Watcher!Init, Watcher!Idle
  <2>3. WatcherTypes
    BY <2>1, <2>2 DEF Watcher!Init, WatcherTypes
  <2> QED BY <2>3 DEF Watcher!Init, WatcherInv, OneCurrent, Recorded, Reported, Watcher!Registered
<1> QED BY <1>1, WatcherStep, PTL DEF Watcher!Spec

\* Nothing is left for the handler thread to do.
Quiet ==
    /\ phase = "on" /\ ~posted /\ thread.pc = "idle"
    /\ \A p \in pending : p.generation # generation

(* Whenever nothing is left to do, the network of the moment is one the    *)
(* watcher fired for: no change is forgotten between the callback, the     *)
(* debounce window and the trailing fire (handleNetworkEvent,              *)
(* fireTrailing).  What SettledIsFired adds is that the rest gets done.    *)
THEOREM QuietIsFired == Watcher!Spec => [](Quiet => announced = network)
<1>1. WatcherInv => (Quiet => announced = network)
  BY DEF WatcherInv, Recorded, Reported, Watcher!Registered, Quiet
<1> QED BY <1>1, WatcherAlways, PTL

\* How old the last fire is when the next one comes.
FiresApart ==
    [][thread.pc # "fire" /\ thread'.pc = "fire" =>
          age >= IF thread'.kind = "trailing" THEN Watcher!Settle ELSE Debounce]_Watcher!vars

(* A fire is never closer to the one before it than the debounce window,   *)
(* and a trailing fire never falls into the window in which the core       *)
(* throttles, though several may be pending (TRAILING_SLACK_MS).           *)
THEOREM FiresAreApart == Watcher!Spec => FiresApart
<1>1. WatcherInv /\ [Watcher!Next]_Watcher!vars =>
         [thread.pc # "fire" /\ thread'.pc = "fire" =>
            age >= IF thread'.kind = "trailing" THEN Watcher!Settle ELSE Debounce]_Watcher!vars
  <2> SUFFICES ASSUME WatcherInv, Watcher!Next, thread.pc # "fire", thread'.pc = "fire"
               PROVE  age >= IF thread'.kind = "trailing" THEN Watcher!Settle ELSE Debounce
    OBVIOUS
  <2>1. CASE Watcher!LeadingFire
    BY <2>1 DEF Watcher!LeadingFire, Watcher!Fire
  <2>2. ASSUME NEW p \in pending, Watcher!TrailingFire(p)
        PROVE  age >= IF thread'.kind = "trailing" THEN Watcher!Settle ELSE Debounce
    <3>1. p.due = 0 /\ p.due + age >= Watcher!Settle /\ age \in Nat
      BY <2>2 DEF Watcher!TrailingFire, WatcherInv, WatcherTypes, OneCurrent
    <3> QED BY <2>2, <3>1, Settles DEF Watcher!TrailingFire, Watcher!Fire
  <2>3. thread' # thread
    OBVIOUS
  <2>4. ~(Watcher!Read \/ Watcher!SameNetwork \/ Watcher!Suppress \/ Watcher!Nudge)
    BY DEF Watcher!Read, Watcher!SameNetwork, Watcher!Suppress, Watcher!Nudge, Watcher!Idle
  <2> QED
    BY <2>1, <2>2, <2>3, <2>4
       DEF Watcher!Next, Watcher!HandlerStep, Watcher!Register, Watcher!Baseline,
           Watcher!Unregister,
           Watcher!NetworkChanges, Watcher!Chatter, Watcher!Tick, Watcher!Superseded,
           Watcher!threadVars
<1> QED BY <1>1, WatcherAlways, PTL DEF Watcher!Spec, FiresApart

-----------------------------------------------------------------------------
(* Calls on Android: what each thread may be at, and what Telecom holds.   *)

Resting == [do : {"free", "spent"}]
RingTasks == [do : {"arm", "disarm", "post", "keep"}, call : Calls, ring : Nat]
CancelTasks == [do : {"drop", "invoke", "clear"}, kind : {"cancel"}, call : Calls]
TimeoutTasks ==
    [do : {"fired", "drop", "invoke", "clear"}, kind : {"timeout"}, call : Calls, ring : Nat]
CallbackTasks ==
    [do : {"tell", "activate", "engage", "disconnect"},
     kind : {"onAnswer", "onReject", "onAbort", "onDisconnect"}, conn : Nat]
TapTasks ==
    [do : {"dispatch", "mark", "drop", "invoke", "clear"}, kind : {"answer", "decline"},
     call : Calls]
AnswerTasks ==
    [do : {"activate", "engage", "drop", "invoke", "clear"}, kind : {"answer"}, call : Calls,
     conn : Nat]

CallTasks(t) ==
    CASE t = "core" -> Resting \union RingTasks \union CancelTasks
      [] t = "main" -> Resting \union RingTasks \union CancelTasks \union TimeoutTasks
                       \union CallbackTasks
      [] OTHER      -> Resting \union TapTasks \union AnswerTasks

TaskTypes ==
    /\ DOMAIN task = AndroidCall!Threads
    /\ task = [t \in AndroidCall!Threads |-> task[t]]
    /\ \A t \in AndroidCall!Threads : task[t] \in CallTasks(t)

Connections == [call : Calls, state : {"ringing", "active", "disconnected"}]

TelecomTypes ==
    /\ conns \in Seq(Connections)
    /\ live \in [Calls -> {0} \union DOMAIN conns]
    /\ focus \subseteq DOMAIN conns /\ mode \in {"normal", "communication"}
    /\ raced \in BOOLEAN
    /\ \A t \in AndroidCall!Threads :
          task[t].do \in {"tell", "activate", "engage", "disconnect"}
             => task[t].conn \in DOMAIN conns

RingTypes ==
    /\ rings \in [Calls -> Nat] /\ shade \in [Calls -> Nat] /\ timeouts \in [Calls -> Nat]
    /\ rungBy \in [Calls -> SUBSET {"main", "core"}]
    /\ scheduled \subseteq [call : Calls, ring : Nat]
    /\ held \in [AndroidCall!Threads -> Nat] /\ caught \subseteq Calls

(* A task changes only by the step of its own thread.                      *)
LEMMA TaskSet ==
    ASSUME TaskTypes, NEW t \in AndroidCall!Threads, NEW q \in CallTasks(t),
           task' = [task EXCEPT ![t] = q]
    PROVE  /\ TaskTypes' /\ task'[t] = q
           /\ \A u \in AndroidCall!Threads : u # t => task'[u] = task[u]
  BY DEF TaskTypes

LEMMA ThreadKinds ==
    /\ "main" \in AndroidCall!Threads /\ "core" \in AndroidCall!Threads
    /\ \A w \in CallTaps : w \in AndroidCall!Threads /\ w # "main" /\ w # "core"
    /\ CallTasks("core") = Resting \union RingTasks \union CancelTasks
    /\ CallTasks("main") = Resting \union RingTasks \union CancelTasks \union TimeoutTasks
                           \union CallbackTasks
    /\ \A w \in CallTaps : CallTasks(w) = Resting \union TapTasks \union AnswerTasks
  BY BesideAssumption DEF BesideAssumption, AndroidCall!Threads, CallTasks

(* Audio is held for an active connection, and a thread about to engage it *)
(* has one, until a disconnect falls between the halves of setActive.      *)
AudioInv ==
    raced \/
    /\ \A t \in AndroidCall!Threads :
          task[t].do = "engage" => conns[task[t].conn].state = "active"
    /\ \A k \in focus : conns[k].state = "active"
    /\ mode = "communication" => \E k \in DOMAIN conns : conns[k].state = "active"

(* The main thread shows a ring of the call and arms its timeout, or runs  *)
(* one that has expired.                                                   *)
Ringing(c) ==
    task["main"].do \in {"arm", "disarm", "post", "keep"} /\ task["main"].call = c
Expiring(c) ==
    /\ task["main"].do \in {"fired", "drop", "invoke", "clear"}
    /\ task["main"].kind = "timeout" /\ task["main"].call = c

(* A scheduled timeout is the one kept in ringTimeouts, or about to be; it *)
(* is that of the ring on show, unless a newer one is about to replace it. *)
InMap(s) ==
    /\ s.ring = IF Ringing(s.call) /\ task["main"].do = "keep" THEN task["main"].ring
                ELSE timeouts[s.call]
    /\ shade[s.call] \in {0, s.ring} \/ (Ringing(s.call) /\ task["main"].do = "arm")
    /\ Ringing(s.call) => task["main"].do \in {"arm", "keep"}
    /\ Expiring(s.call) => task["main"].do # "fired"

(* Of a call rung by the main thread alone, no timeout of which ran while  *)
(* its canceler was held, every scheduled timeout is kept or in the hands  *)
(* of the thread that is about to cancel it.                               *)
Alone(c) == "core" \notin rungBy[c] /\ c \notin caught

RingOf(c) ==
    /\ \A s \in scheduled : s.call = c => AndroidCall!InHand(s) \/ InMap(s)
    /\ Ringing(c) \/ Expiring(c) => shade[c] \in {0, task["main"].ring}

RingInv ==
    /\ task["core"].do \in {"arm", "disarm", "post", "keep"}
          => "core" \in rungBy[task["core"].call]
    /\ \A c \in Calls : Alone(c) => RingOf(c)

CallInv == TaskTypes /\ TelecomTypes /\ RingTypes /\ AudioInv /\ RingInv

(* A step that leaves the connections and the audio alone.                 *)
LEMMA AudioFrame ==
    ASSUME CallInv, NEW t \in AndroidCall!Threads,
           \A u \in AndroidCall!Threads : u # t => task'[u] = task[u],
           task'[t].do \in {"tell", "activate", "engage", "disconnect"}
              => task'[t].conn \in DOMAIN conns,
           task'[t].do = "engage" => raced \/ conns[task'[t].conn].state = "active",
           UNCHANGED <<conns, live, focus, mode, raced>>
    PROVE  TelecomTypes' /\ AudioInv'
<1>1. TelecomTypes'
  BY DEF CallInv, TelecomTypes
<1>2. AudioInv'
  BY DEF CallInv, AudioInv
<1> QED BY <1>1, <1>2

(* What a step leaves of the rings of a call it has no hand in.            *)
LEMMA RingElsewhere ==
    ASSUME NEW t \in AndroidCall!Threads, NEW d \in Calls, RingOf(d),
           \A u \in AndroidCall!Threads : u # t => task'[u] = task[u] /\ held'[u] = held[u],
           task[t].do \in {"disarm", "invoke"} => task[t].call # d,
           Ringing(d) \/ Ringing(d)' \/ Expiring(d)' => task'["main"] = task["main"],
           shade'[d] \in {0, shade[d]}, timeouts'[d] = timeouts[d],
           \A s \in scheduled' : s.call = d => s \in scheduled
    PROVE  RingOf(d)'
<1>1. /\ Ringing(d)' <=> Ringing(d)
      /\ Expiring(d)' => Expiring(d)
  BY DEF Ringing, Expiring
<1>2. ASSUME NEW s \in scheduled', s.call = d
      PROVE  AndroidCall!InHand(s)' \/ InMap(s)'
  <2>1. s \in scheduled /\ (AndroidCall!InHand(s) \/ InMap(s))
    BY <1>2 DEF RingOf
  <2>2. CASE AndroidCall!InHand(s)
    BY <1>2, <2>2 DEF AndroidCall!InHand
  <2>3. CASE InMap(s)
    BY <1>1, <1>2, <2>3 DEF InMap
  <2> QED BY <2>1, <2>2, <2>3
<1>3. Ringing(d)' \/ Expiring(d)' => shade'[d] \in {0, task'["main"].ring}
  BY <1>1 DEF RingOf
<1> QED BY <1>2, <1>3 DEF RingOf

LEMMA RingStill ==
    ASSUME RingInv, UNCHANGED <<rings, rungBy, shade, timeouts, scheduled, held, caught, task>>
    PROVE  RingInv'
<1>1. \A s : (AndroidCall!InHand(s)' <=> AndroidCall!InHand(s)) /\ (InMap(s)' <=> InMap(s))
  BY DEF AndroidCall!InHand, InMap, Ringing, Expiring
<1>2. \A c : (RingOf(c)' <=> RingOf(c)) /\ (Alone(c)' <=> Alone(c))
  BY <1>1 DEF RingOf, Alone, Ringing, Expiring
<1> QED BY <1>2 DEF RingInv

(* A step that leaves the rings alone and is not part of one.              *)
LEMMA RingFrame ==
    ASSUME CallInv, NEW t \in AndroidCall!Threads,
           \A u \in AndroidCall!Threads : u # t => task'[u] = task[u],
           task[t].do \notin {"disarm", "invoke"},
           t = "main" => /\ task[t].do \notin {"arm", "post", "keep"}
                         /\ task'[t].do \notin {"arm", "disarm", "post", "keep", "fired",
                                                "drop", "invoke", "clear"},
           t = "core" => task'[t].do \notin {"arm", "disarm", "post", "keep"},
           UNCHANGED <<rings, rungBy, shade, timeouts, scheduled, held, caught>>
    PROVE  RingTypes' /\ RingInv'
<1> USE ThreadKinds
<1>1. RingTypes'
  BY DEF CallInv, RingTypes
<1>2. task'["core"].do \in {"arm", "disarm", "post", "keep"} => task'["core"] = task["core"]
  OBVIOUS
<1>3. \A d \in Calls :
         Ringing(d) \/ Ringing(d)' \/ Expiring(d)' => task'["main"] = task["main"]
  BY DEF Ringing, Expiring
<1>4. ASSUME NEW d \in Calls, Alone(d)' PROVE RingOf(d)'
  <2>1. Alone(d) /\ RingOf(d)
    BY <1>4 DEF Alone, CallInv, RingInv
  <2> QED BY <1>3, <2>1, RingElsewhere
<1>5. RingInv'
  BY <1>2, <1>4 DEF CallInv, RingInv
<1> QED BY <1>1, <1>5

(* Who can be at what.                                                     *)
LEMMA Whose ==
    ASSUME TaskTypes, NEW t \in AndroidCall!Threads
    PROVE  /\ task[t].do \in {"arm", "disarm", "post", "keep"} =>
                 t \in {"main", "core"} /\ task[t] \in RingTasks
           /\ task[t].do \in {"drop", "invoke", "clear"} =>
                 \/ t \in {"main", "core"} /\ task[t] \in CancelTasks
                 \/ t = "main" /\ task[t] \in TimeoutTasks
                 \/ t \in CallTaps /\ task[t] \in TapTasks \union AnswerTasks
           /\ task[t].do \in {"arm", "disarm", "post", "keep", "fired", "drop", "invoke",
                              "clear"} => task[t].call \in Calls
           /\ task[t].do = "fired" => t = "main" /\ task[t] \in TimeoutTasks
           /\ task[t].do \in {"tell", "disconnect"} => t = "main"
           /\ task[t].do \in {"activate", "engage"} =>
                 \/ t = "main" /\ task[t] \in CallbackTasks
                 \/ t \in CallTaps /\ task[t] \in AnswerTasks
           /\ task[t].do \in {"dispatch", "mark"} =>
                 t \in CallTaps /\ task[t] \in TapTasks
           /\ task[t].do \in {"tell", "activate", "engage", "disconnect"} => t # "core"
<1>1. t = "main" \/ t = "core" \/ t \in CallTaps
  BY DEF AndroidCall!Threads
<1>2. task[t] \in CallTasks(t)
  BY DEF TaskTypes
<1>3. CASE t = "core"
  BY <1>2, <1>3, ThreadKinds DEF Resting, RingTasks, CancelTasks
<1>4. CASE t = "main"
  BY <1>2, <1>4, ThreadKinds DEF Resting, RingTasks, CancelTasks, TimeoutTasks, CallbackTasks
<1>5. CASE t \in CallTaps
  BY <1>2, <1>5, ThreadKinds DEF Resting, TapTasks, AnswerTasks
<1> QED BY <1>1, <1>3, <1>4, <1>5

LEMMA Ended ==
    ASSUME TaskTypes, NEW t \in AndroidCall!Threads, AndroidCall!Ends(t)
    PROVE  /\ TaskTypes' /\ task'[t].do \in {"free", "spent"}
           /\ \A u \in AndroidCall!Threads : u # t => task'[u] = task[u]
<1> DEFINE q == IF t \in CallTaps THEN AndroidCall!Spent ELSE AndroidCall!Free
<1>1. q \in Resting /\ q.do \in {"free", "spent"}
  BY DEF AndroidCall!Spent, AndroidCall!Free, Resting
<1>2. q \in CallTasks(t)
  BY <1>1 DEF CallTasks
<1>3. task' = [task EXCEPT ![t] = q]
  BY DEF AndroidCall!Ends
<1> HIDE DEF q
<1> QED BY <1>1, <1>2, <1>3, TaskSet

(* A thread goes on with the ring it is at, the rest of its task as it was.*)
LEMMA GoesOn ==
    ASSUME TaskTypes, NEW t \in AndroidCall!Threads, NEW do, AndroidCall!Goes(t, do),
           \/ /\ task[t].do \in {"arm", "disarm", "post"}
              /\ do \in {"disarm", "post", "keep"}
           \/ /\ task[t].do \in {"fired", "drop", "invoke"}
              /\ do \in {"drop", "invoke", "clear"}
    PROVE  /\ TaskTypes' /\ task'[t].do = do /\ task'[t].call = task[t].call
           /\ \A u \in AndroidCall!Threads : u # t => task'[u] = task[u]
           /\ \A c : /\ Ringing(c)' <=> Ringing(c)
                     /\ Expiring(c)' <=> Expiring(c)
                     /\ Ringing(c) \/ Expiring(c) => task'["main"].ring = task["main"].ring
           /\ task'["core"].do \in {"arm", "disarm", "post", "keep"}
                 => /\ task["core"].do \in {"arm", "disarm", "post", "keep"}
                    /\ task'["core"].call = task["core"].call
<1> DEFINE q == [task[t] EXCEPT !.do = do]
<1>1. task' = [task EXCEPT ![t] = q]
  BY DEF AndroidCall!Goes
<1>2. CASE task[t] \in RingTasks /\ t \in {"main", "core"}
  <2>1. /\ task[t].do \in {"arm", "disarm", "post"} /\ do \in {"disarm", "post", "keep"}
        /\ q \in RingTasks /\ q.do = do /\ q.call = task[t].call /\ q.ring = task[t].ring
    BY <1>2 DEF RingTasks
  <2>2. q \in CallTasks(t)
    BY <1>2, <2>1, ThreadKinds
  <2> HIDE DEF q
  <2>3. /\ TaskTypes' /\ task'[t] = q
        /\ \A u \in AndroidCall!Threads : u # t => task'[u] = task[u]
    BY <1>1, <2>2, TaskSet
  <2> QED BY <1>2, <2>1, <2>3, ThreadKinds DEF Ringing, Expiring
<1>3. CASE task[t] \in CancelTasks /\ t \in {"main", "core"}
  <2>1. /\ task[t].do \in {"drop", "invoke"} /\ do \in {"drop", "invoke", "clear"}
        /\ task[t].kind # "timeout"
        /\ q \in CancelTasks /\ q.do = do /\ q.call = task[t].call /\ q.kind # "timeout"
    BY <1>3 DEF CancelTasks
  <2>2. q \in CallTasks(t)
    BY <1>3, <2>1, ThreadKinds
  <2> HIDE DEF q
  <2>3. /\ TaskTypes' /\ task'[t] = q
        /\ \A u \in AndroidCall!Threads : u # t => task'[u] = task[u]
    BY <1>1, <2>2, TaskSet
  <2> QED BY <1>3, <2>1, <2>3, ThreadKinds DEF Ringing, Expiring
<1>4. CASE task[t] \in TimeoutTasks /\ t = "main"
  <2>1. /\ task[t].do \in {"fired", "drop", "invoke"} /\ do \in {"drop", "invoke", "clear"}
        /\ task[t].kind = "timeout"
        /\ q \in TimeoutTasks /\ q.do = do /\ q.call = task[t].call /\ q.kind = "timeout"
        /\ q.ring = task[t].ring
    BY <1>4 DEF TimeoutTasks
  <2>2. q \in CallTasks(t)
    BY <1>4, <2>1, ThreadKinds
  <2> HIDE DEF q
  <2>3. /\ TaskTypes' /\ task'[t] = q
        /\ \A u \in AndroidCall!Threads : u # t => task'[u] = task[u]
    BY <1>1, <2>2, TaskSet
  <2> QED BY <1>4, <2>1, <2>3, ThreadKinds DEF Ringing, Expiring
<1>5. CASE task[t] \in TapTasks \union AnswerTasks /\ t \in CallTaps
  <2>1. /\ do \in {"drop", "invoke", "clear"} \/ do \in {"disarm", "post", "keep"}
        /\ task[t].do \notin {"arm", "disarm", "post"}
        /\ do \in {"drop", "invoke", "clear"} =>
              /\ q \in TapTasks \union AnswerTasks
              /\ q.do = do /\ q.call = task[t].call
    BY <1>5 DEF TapTasks, AnswerTasks
  <2>2. q \in CallTasks(t) /\ q.do = do /\ q.call = task[t].call
    BY <1>5, <2>1, ThreadKinds
  <2> HIDE DEF q
  <2>3. /\ TaskTypes' /\ task'[t] = q
        /\ \A u \in AndroidCall!Threads : u # t => task'[u] = task[u]
    BY <1>1, <2>2, TaskSet
  <2> QED BY <1>5, <2>2, <2>3, ThreadKinds DEF Ringing, Expiring
<1> QED BY <1>2, <1>3, <1>4, <1>5, Whose

(* The ring.                                                               *)

LEMMA CallShow ==
    ASSUME CallInv, NEW t \in {"main", "core"}, NEW c \in Calls, AndroidCall!Show(t, c)
    PROVE  CallInv'
<1> USE DEF CallInv
<1> DEFINE r == rings[c] + 1
           q == [do |-> "arm", call |-> c, ring |-> r]
<1>1. r \in Nat /\ t \in AndroidCall!Threads /\ t \notin CallTaps
  BY ThreadKinds DEF RingTypes
<1>2. rings' = [rings EXCEPT ![c] = r]
  BY DEF AndroidCall!Show
<1>3. rings'[c] = r
  BY <1>2 DEF RingTypes
<1>4. /\ task[t].do = "free" /\ task' = [task EXCEPT ![t] = q]
      /\ shade' = [shade EXCEPT ![c] = r]
      /\ rungBy' = [rungBy EXCEPT ![c] = @ \union {t}]
      /\ UNCHANGED <<timeouts, scheduled, held, caught, conns, live, focus, mode, raced>>
  <2>1. task[t].do = "free"
    BY DEF AndroidCall!Show, AndroidCall!Free
  <2>2. /\ task' = [task EXCEPT ![t] = [do |-> "arm", call |-> c, ring |-> rings'[c]]]
        /\ shade' = [shade EXCEPT ![c] = rings'[c]]
        /\ rungBy' = [rungBy EXCEPT ![c] = @ \union {t}]
    BY DEF AndroidCall!Show
  <2>3. UNCHANGED <<timeouts, scheduled, held, caught, conns, live, focus, mode, raced>>
    BY DEF AndroidCall!Show, AndroidCall!telecomVars, AndroidCall!audioVars
  <2> QED BY <1>3, <2>1, <2>2, <2>3
<1>5. q \in CallTasks(t) /\ q.do = "arm" /\ q.call = c /\ q.ring = r
  BY <1>1, ThreadKinds DEF RingTasks
<1> HIDE DEF q
<1>6. /\ TaskTypes' /\ task'[t] = q
      /\ \A u \in AndroidCall!Threads : u # t => task'[u] = task[u]
  BY <1>1, <1>4, <1>5, TaskSet
<1>7. TelecomTypes' /\ AudioInv'
  BY <1>1, <1>4, <1>5, <1>6, AudioFrame
<1>8. RingTypes'
  BY <1>1, <1>2, <1>4 DEF RingTypes
<1> HIDE DEF r
<1>9. /\ shade'[c] = r /\ rungBy'[c] = rungBy[c] \union {t}
      /\ \A d \in Calls : d # c => shade'[d] = shade[d] /\ rungBy'[d] = rungBy[d]
  BY <1>4 DEF RingTypes
<1>10. ASSUME NEW d \in Calls, Alone(d)' PROVE Alone(d) /\ RingOf(d)
  BY <1>4, <1>9, <1>10 DEF Alone, RingInv
<1>11. \A d \in Calls : d # c =>
          (Ringing(d) \/ Ringing(d)' \/ Expiring(d)' => task'["main"] = task["main"])
  BY <1>4, <1>5, <1>6, ThreadKinds DEF Ringing, Expiring
<1>12. ASSUME NEW d \in Calls, d # c, Alone(d)' PROVE RingOf(d)'
  BY <1>1, <1>4, <1>6, <1>9, <1>10, <1>11, <1>12, RingElsewhere
<1>13. ASSUME Alone(c)' PROVE RingOf(c)'
  <2>1. t = "main"
    BY <1>9, <1>13 DEF Alone
  <2>2. /\ Ringing(c)' /\ task'["main"].do = "arm" /\ ~Expiring(c)'
        /\ task["main"].do = "free" /\ ~Ringing(c)
    BY <1>4, <1>5, <1>6, <2>1 DEF Ringing, Expiring
  <2>3. ASSUME NEW s \in scheduled', s.call = c
        PROVE  AndroidCall!InHand(s)' \/ InMap(s)'
    <3>1. s \in scheduled /\ (AndroidCall!InHand(s) \/ InMap(s))
      BY <1>4, <1>10, <1>13, <2>3 DEF RingOf
    <3>2. CASE AndroidCall!InHand(s)
      BY <1>4, <1>6, <2>1, <2>2, <3>2 DEF AndroidCall!InHand
    <3>3. CASE InMap(s)
      BY <1>4, <2>2, <2>3, <3>3 DEF InMap
    <3> QED BY <3>1, <3>2, <3>3
  <2> QED BY <1>5, <1>6, <1>9, <2>1, <2>3 DEF RingOf
<1>14. task'["core"].do \in {"arm", "disarm", "post", "keep"}
          => "core" \in rungBy'[task'["core"].call]
  <2>1. CASE t = "core"
    BY <1>5, <1>6, <1>9, <2>1
  <2>2. CASE t = "main"
    BY <1>6, <1>9, <2>2, ThreadKinds, Whose DEF RingInv
  <2> QED BY <2>1, <2>2
<1>15. RingInv'
  BY <1>12, <1>13, <1>14 DEF RingInv
<1> QED BY <1>6, <1>7, <1>8, <1>15

LEMMA CallTakes ==
    ASSUME CallInv, NEW t \in AndroidCall!Threads, AndroidCall!Arm(t) \/ AndroidCall!Drop(t)
    PROVE  CallInv'
<1> USE DEF CallInv
<1>1. PICK do \in {"disarm", "invoke"} :
         /\ task[t].do \in {"arm", "drop"}
         /\ do = IF task[t].do = "arm" THEN "disarm" ELSE "invoke"
         /\ AndroidCall!Goes(t, do)
  BY DEF AndroidCall!Arm, AndroidCall!Drop
<1>2. PICK c \in Calls : c = task[t].call
  BY <1>1, Whose
<1>3. /\ held' = [held EXCEPT ![t] = timeouts[c]] /\ timeouts' = [timeouts EXCEPT ![c] = 0]
      /\ UNCHANGED <<rings, rungBy, shade, scheduled, caught, conns, live, focus, mode, raced>>
  BY <1>2 DEF AndroidCall!Arm, AndroidCall!Drop, AndroidCall!Takes, AndroidCall!telecomVars,
         AndroidCall!audioVars
<1>4. /\ TaskTypes' /\ task'[t].do = do /\ task'[t].call = c
      /\ \A u \in AndroidCall!Threads : u # t => task'[u] = task[u]
      /\ \A d : /\ Ringing(d)' <=> Ringing(d)
                /\ Expiring(d)' <=> Expiring(d)
                /\ Ringing(d) \/ Expiring(d) => task'["main"].ring = task["main"].ring
      /\ task'["core"].do \in {"arm", "disarm", "post", "keep"}
            => /\ task["core"].do \in {"arm", "disarm", "post", "keep"}
               /\ task'["core"].call = task["core"].call
  BY <1>1, <1>2, GoesOn
<1>5. TelecomTypes' /\ AudioInv'
  BY <1>1, <1>3, <1>4, AudioFrame
<1>6. RingTypes'
  BY <1>2, <1>3 DEF RingTypes
<1>7. /\ held'[t] = timeouts[c]
      /\ \A u \in AndroidCall!Threads : u # t => held'[u] = held[u]
      /\ \A d \in Calls : d # c => timeouts'[d] = timeouts[d]
  BY <1>3 DEF RingTypes
<1>8. ASSUME NEW d \in Calls, Alone(d)' PROVE RingOf(d)
  BY <1>3, <1>8 DEF Alone, RingInv
<1>9. ASSUME NEW d \in Calls, d # c, Alone(d)' PROVE RingOf(d)'
  <2>1. Ringing(d) \/ Ringing(d)' \/ Expiring(d)' => task'["main"] = task["main"]
    BY <1>2, <1>4, <1>9, ThreadKinds DEF Ringing, Expiring
  <2> QED BY <1>1, <1>2, <1>3, <1>4, <1>7, <1>8, <1>9, <2>1, RingElsewhere
<1>10. ASSUME Alone(c)' PROVE RingOf(c)'
  <2>1. ASSUME NEW s \in scheduled', s.call = c
        PROVE  AndroidCall!InHand(s)' \/ InMap(s)'
    <3>1. s \in scheduled /\ (AndroidCall!InHand(s) \/ InMap(s))
      BY <1>2, <1>3, <1>8, <1>10, <2>1 DEF RingOf
    <3>2. CASE AndroidCall!InHand(s)
      BY <1>1, <1>4, <1>7, <3>2 DEF AndroidCall!InHand
    <3>3. CASE InMap(s) /\ s.ring = timeouts[c]
      BY <1>1, <1>4, <1>7, <2>1, <3>3 DEF AndroidCall!InHand
    <3>4. CASE InMap(s) /\ Ringing(c) /\ task["main"].do = "keep"
      <4>1. t # "main" /\ task'["main"] = task["main"]
        BY <1>1, <1>4, <3>4, ThreadKinds
      <4> QED BY <1>3, <1>4, <2>1, <3>4, <4>1 DEF InMap
    <3> QED BY <2>1, <3>1, <3>2, <3>3, <3>4 DEF InMap
  <2> QED BY <1>2, <1>3, <1>4, <1>8, <1>10, <2>1 DEF RingOf
<1>11. RingInv'
  BY <1>3, <1>4, <1>9, <1>10 DEF RingInv
<1> QED BY <1>4, <1>5, <1>6, <1>11

LEMMA CallInvoke ==
    ASSUME CallInv, NEW t \in AndroidCall!Threads, AndroidCall!Invoke(t)
    PROVE  CallInv'
<1> USE DEF CallInv
<1>1. PICK do \in {"post", "clear"} :
         /\ task[t].do \in {"disarm", "invoke"}
         /\ do = IF task[t].do = "disarm" THEN "post" ELSE "clear"
         /\ AndroidCall!Goes(t, do)
  BY DEF AndroidCall!Invoke
<1>2. PICK c \in Calls : c = task[t].call
  BY <1>1, Whose
<1> DEFINE x == [call |-> c, ring |-> held[t]]
<1>3. /\ scheduled' = scheduled \ {x} /\ held' = [held EXCEPT ![t] = 0]
      /\ UNCHANGED <<rings, rungBy, shade, timeouts, caught, conns, live, focus, mode, raced>>
  BY <1>2 DEF AndroidCall!Invoke, AndroidCall!telecomVars, AndroidCall!audioVars
<1>4. /\ TaskTypes' /\ task'[t].do = do /\ task'[t].call = c
      /\ \A u \in AndroidCall!Threads : u # t => task'[u] = task[u]
      /\ \A d : /\ Ringing(d)' <=> Ringing(d)
                /\ Expiring(d)' <=> Expiring(d)
                /\ Ringing(d) \/ Expiring(d) => task'["main"].ring = task["main"].ring
      /\ task'["core"].do \in {"arm", "disarm", "post", "keep"}
            => /\ task["core"].do \in {"arm", "disarm", "post", "keep"}
               /\ task'["core"].call = task["core"].call
  BY <1>1, <1>2, GoesOn
<1>5. /\ \A s \in scheduled' : s \in scheduled
      /\ \A s \in scheduled' : s.call = c => s.ring # held[t]
  BY <1>3 DEF RingTypes
<1> HIDE DEF x
<1>6. TelecomTypes' /\ AudioInv'
  BY <1>1, <1>3, <1>4, AudioFrame
<1>7. RingTypes'
  BY <1>2, <1>3 DEF RingTypes
<1>8. \A u \in AndroidCall!Threads : u # t => held'[u] = held[u]
  BY <1>3 DEF RingTypes
<1>9. ASSUME NEW d \in Calls, Alone(d)' PROVE RingOf(d)
  BY <1>3, <1>9 DEF Alone, RingInv
<1>10. ASSUME NEW d \in Calls, d # c, Alone(d)' PROVE RingOf(d)'
  <2>1. Ringing(d) \/ Ringing(d)' \/ Expiring(d)' => task'["main"] = task["main"]
    BY <1>2, <1>4, <1>10, ThreadKinds DEF Ringing, Expiring
  <2>2. task[t].call # d
    BY <1>2, <1>10
  <2> QED BY <1>3, <1>4, <1>5, <1>8, <1>9, <1>10, <2>1, <2>2, RingElsewhere
<1>11. ASSUME Alone(c)' PROVE RingOf(c)'
  <2>1. ASSUME NEW s \in scheduled', s.call = c
        PROVE  AndroidCall!InHand(s)' \/ InMap(s)'
    <3>1. s \in scheduled /\ s.ring # held[t] /\ (AndroidCall!InHand(s) \/ InMap(s))
      BY <1>2, <1>5, <1>9, <1>11, <2>1 DEF RingOf
    <3>2. CASE AndroidCall!InHand(s)
      BY <1>4, <1>8, <3>1, <3>2 DEF AndroidCall!InHand
    <3>3. CASE InMap(s)
      <4>1. CASE t = "main"
        <5>1. task["main"].do = "invoke" /\ task'["main"].do = "clear"
          BY <1>1, <1>2, <1>4, <2>1, <3>3, <4>1 DEF InMap, Ringing
        <5> QED BY <1>3, <2>1, <3>3, <5>1 DEF InMap, Ringing, Expiring
      <4>2. CASE t # "main"
        <5>1. task'["main"] = task["main"]
          BY <1>4, <4>2, ThreadKinds
        <5> QED BY <1>3, <1>4, <2>1, <3>3, <5>1 DEF InMap
      <4> QED BY <4>1, <4>2
    <3> QED BY <3>1, <3>2, <3>3
  <2> QED BY <1>2, <1>3, <1>4, <1>9, <1>11, <2>1 DEF RingOf
<1>12. RingInv'
  BY <1>3, <1>4, <1>10, <1>11 DEF RingInv
<1> QED BY <1>4, <1>6, <1>7, <1>12

LEMMA CallPost ==
    ASSUME CallInv, NEW t \in AndroidCall!Threads, AndroidCall!Post(t)
    PROVE  CallInv'
<1> USE DEF CallInv
<1>1. task[t].do = "post" /\ AndroidCall!Goes(t, "keep")
  BY DEF AndroidCall!Post
<1>2. PICK c \in Calls : c = task[t].call
  BY <1>1, Whose
<1> DEFINE x == [call |-> c, ring |-> task[t].ring]
<1>3. /\ scheduled' = scheduled \union {x}
      /\ UNCHANGED <<rings, rungBy, shade, timeouts, held, caught, conns, live, focus, mode,
                     raced>>
  BY <1>2 DEF AndroidCall!Post, AndroidCall!telecomVars, AndroidCall!audioVars
<1>4. /\ t \in {"main", "core"} /\ x \in [call : Calls, ring : Nat]
      /\ x.call = c /\ x.ring = task[t].ring
  BY <1>1, <1>2, Whose DEF RingTasks
<1>5. /\ TaskTypes' /\ task'[t].do = "keep" /\ task'[t].call = c
      /\ \A u \in AndroidCall!Threads : u # t => task'[u] = task[u]
      /\ \A d : /\ Ringing(d)' <=> Ringing(d)
                /\ Expiring(d)' <=> Expiring(d)
                /\ Ringing(d) \/ Expiring(d) => task'["main"].ring = task["main"].ring
      /\ task'["core"].do \in {"arm", "disarm", "post", "keep"}
            => /\ task["core"].do \in {"arm", "disarm", "post", "keep"}
               /\ task'["core"].call = task["core"].call
  BY <1>1, <1>2, GoesOn
<1>6. t = "main" => Ringing(c)
  BY <1>1, <1>2 DEF Ringing
<1> HIDE DEF x
<1>7. TelecomTypes' /\ AudioInv'
  BY <1>3, <1>5, AudioFrame
<1>8. RingTypes'
  BY <1>3, <1>4 DEF RingTypes
<1>9. ASSUME NEW d \in Calls, Alone(d)' PROVE Alone(d) /\ RingOf(d)
  BY <1>3, <1>9 DEF Alone, RingInv
<1>10. ASSUME NEW d \in Calls, d # c, Alone(d)' PROVE RingOf(d)'
  <2>1. Ringing(d) \/ Ringing(d)' \/ Expiring(d)' => task'["main"] = task["main"]
    BY <1>2, <1>5, <1>10, ThreadKinds DEF Ringing, Expiring
  <2> QED BY <1>1, <1>2, <1>3, <1>4, <1>5, <1>9, <1>10, <2>1, RingElsewhere
<1>11. ASSUME Alone(c)' PROVE RingOf(c)'
  <2>1. t = "main"
    BY <1>1, <1>2, <1>4, <1>9, <1>11 DEF Alone, RingInv
  <2>2. /\ Ringing(c) /\ Ringing(c)' /\ task'["main"].do = "keep" /\ ~Expiring(c)'
        /\ task'["main"].ring = task["main"].ring /\ shade'[c] \in {0, task["main"].ring}
    BY <1>3, <1>4, <1>5, <1>6, <1>9, <1>11, <2>1 DEF RingOf, Expiring
  <2>3. ASSUME NEW s \in scheduled', s.call = c
        PROVE  AndroidCall!InHand(s)' \/ InMap(s)'
    <3>1. CASE s = x
      BY <1>4, <2>1, <2>2, <3>1 DEF InMap
    <3>2. CASE s \in scheduled
      <4>1. AndroidCall!InHand(s)
        BY <1>1, <1>4, <1>9, <1>11, <2>1, <2>2, <2>3, <3>2 DEF RingOf, InMap
      <4> QED BY <1>1, <1>3, <1>5, <4>1 DEF AndroidCall!InHand
    <3> QED BY <1>3, <3>1, <3>2
  <2> QED BY <2>2, <2>3 DEF RingOf
<1>12. RingInv'
  BY <1>3, <1>5, <1>10, <1>11 DEF RingInv
<1> QED BY <1>5, <1>7, <1>8, <1>12

LEMMA CallKeep ==
    ASSUME CallInv, NEW t \in AndroidCall!Threads, AndroidCall!Keep(t)
    PROVE  CallInv'
<1> USE DEF CallInv
<1>1. task[t].do = "keep" /\ AndroidCall!Ends(t)
  BY DEF AndroidCall!Keep
<1>2. PICK c \in Calls : c = task[t].call
  BY <1>1, Whose
<1>3. /\ timeouts' = [timeouts EXCEPT ![c] = task[t].ring]
      /\ UNCHANGED <<rings, rungBy, shade, scheduled, held, caught, conns, live, focus, mode,
                     raced>>
  BY <1>2 DEF AndroidCall!Keep, AndroidCall!audioVars
<1>4. t \in {"main", "core"} /\ task[t].ring \in Nat
  BY <1>1, Whose DEF RingTasks
<1>5. /\ TaskTypes' /\ task'[t].do \in {"free", "spent"}
      /\ \A u \in AndroidCall!Threads : u # t => task'[u] = task[u]
  BY <1>1, Ended
<1>6. TelecomTypes' /\ AudioInv'
  BY <1>3, <1>5, AudioFrame
<1>7. RingTypes'
  BY <1>2, <1>3, <1>4 DEF RingTypes
<1>8. timeouts'[c] = task[t].ring /\ \A d \in Calls : d # c => timeouts'[d] = timeouts[d]
  BY <1>2, <1>3, <1>4 DEF RingTypes
<1>9. ASSUME NEW d \in Calls, Alone(d)' PROVE Alone(d) /\ RingOf(d)
  BY <1>3, <1>9 DEF Alone, RingInv
<1>10. ASSUME NEW d \in Calls, d # c, Alone(d)' PROVE RingOf(d)'
  <2>1. Ringing(d) \/ Ringing(d)' \/ Expiring(d)' => task'["main"] = task["main"]
    BY <1>2, <1>5, <1>10, ThreadKinds DEF Ringing, Expiring
  <2> QED BY <1>1, <1>2, <1>3, <1>5, <1>8, <1>9, <1>10, <2>1, RingElsewhere
<1>11. ASSUME Alone(c)' PROVE RingOf(c)'
  <2>1. t = "main"
    BY <1>1, <1>2, <1>4, <1>9, <1>11 DEF Alone, RingInv
  <2>2. /\ Ringing(c) /\ task["main"].do = "keep" /\ ~Ringing(c)' /\ ~Expiring(c)'
    BY <1>1, <1>2, <1>5, <2>1 DEF Ringing, Expiring
  <2>3. ASSUME NEW s \in scheduled', s.call = c
        PROVE  AndroidCall!InHand(s)' \/ InMap(s)'
    <3>1. s \in scheduled /\ (AndroidCall!InHand(s) \/ InMap(s))
      BY <1>2, <1>3, <1>4, <1>9, <1>11, <2>3 DEF RingOf
    <3>2. CASE AndroidCall!InHand(s)
      BY <1>1, <1>3, <1>5, <3>2 DEF AndroidCall!InHand
    <3>3. CASE InMap(s)
      BY <1>2, <1>3, <1>8, <2>1, <2>2, <2>3, <3>3 DEF InMap
    <3> QED BY <3>1, <3>2, <3>3
  <2> QED BY <2>2, <2>3 DEF RingOf
<1>12. task'["core"].do \in {"arm", "disarm", "post", "keep"} => task'["core"] = task["core"]
  BY <1>5, ThreadKinds
<1>13. RingInv'
  BY <1>3, <1>10, <1>11, <1>12 DEF RingInv
<1> QED BY <1>5, <1>6, <1>7, <1>13

LEMMA CallCancel ==
    ASSUME CallInv, NEW t \in {"main", "core"}, NEW c \in Calls, AndroidCall!Cancel(t, c)
    PROVE  CallInv'
<1> USE DEF CallInv
<1> DEFINE q == [do |-> "drop", kind |-> "cancel", call |-> c]
<1>1. t \in AndroidCall!Threads /\ task[t].do = "free" /\ task' = [task EXCEPT ![t] = q]
  BY ThreadKinds DEF AndroidCall!Cancel, AndroidCall!Free
<1>2. UNCHANGED <<rings, rungBy, shade, timeouts, scheduled, held, caught, conns, live, focus,
                  mode, raced>>
  BY DEF AndroidCall!Cancel, AndroidCall!ringVars, AndroidCall!telecomVars,
         AndroidCall!audioVars
<1>3. q \in CallTasks(t) /\ q.do = "drop" /\ q.kind = "cancel"
  BY ThreadKinds DEF CancelTasks
<1> HIDE DEF q
<1>4. /\ TaskTypes' /\ task'[t] = q
      /\ \A u \in AndroidCall!Threads : u # t => task'[u] = task[u]
  BY <1>1, <1>3, TaskSet
<1>5. TelecomTypes' /\ AudioInv'
  BY <1>1, <1>2, <1>3, <1>4, AudioFrame
<1>6. RingTypes'
  BY <1>2 DEF RingTypes
<1>7. \A d \in Calls :
         Ringing(d) \/ Ringing(d)' \/ Expiring(d)' => task'["main"] = task["main"]
  BY <1>1, <1>3, <1>4, ThreadKinds DEF Ringing, Expiring
<1>8. ASSUME NEW d \in Calls, Alone(d)' PROVE RingOf(d)'
  <2>1. RingOf(d)
    BY <1>2, <1>8 DEF Alone, RingInv
  <2> QED BY <1>1, <1>2, <1>4, <1>7, <2>1, RingElsewhere
<1>9. task'["core"].do \in {"arm", "disarm", "post", "keep"} => task'["core"] = task["core"]
  BY <1>3, <1>4, ThreadKinds
<1>10. RingInv'
  BY <1>2, <1>8, <1>9 DEF RingInv
<1> QED BY <1>4, <1>5, <1>6, <1>10

LEMMA CallClear ==
    ASSUME CallInv, NEW t \in AndroidCall!Threads, AndroidCall!Clear(t)
    PROVE  CallInv'
<1> USE DEF CallInv
<1> DEFINE c == task[t].call
<1>1. task[t].do = "clear" /\ c \in Calls
  BY Whose DEF AndroidCall!Clear
<1>2. /\ shade' = [shade EXCEPT ![c] = 0]
      /\ AndroidCall!Ends(t)
      /\ UNCHANGED <<rings, rungBy, timeouts, scheduled, held, caught, conns, live, focus,
                     mode, raced>>
  BY DEF AndroidCall!Clear, AndroidCall!telecomVars, AndroidCall!audioVars
<1>3. /\ TaskTypes' /\ task'[t].do \in {"free", "spent"}
      /\ \A u \in AndroidCall!Threads : u # t => task'[u] = task[u]
  BY <1>2, Ended
<1>4. TelecomTypes' /\ AudioInv'
  BY <1>2, <1>3, AudioFrame
<1>5. RingTypes' /\ \A d \in Calls : shade'[d] \in {0, shade[d]}
  BY <1>2 DEF RingTypes
<1>6. \A d \in Calls :
         Ringing(d) \/ Ringing(d)' \/ Expiring(d)' => task'["main"] = task["main"]
  BY <1>1, <1>3, ThreadKinds DEF Ringing, Expiring
<1>7. ASSUME NEW d \in Calls, Alone(d)' PROVE RingOf(d)'
  <2>1. RingOf(d)
    BY <1>2, <1>7 DEF Alone, RingInv
  <2> QED BY <1>1, <1>2, <1>3, <1>5, <1>6, <2>1, RingElsewhere
<1>8. task'["core"].do \in {"arm", "disarm", "post", "keep"} => task'["core"] = task["core"]
  BY <1>3, ThreadKinds
<1>9. RingInv'
  BY <1>2, <1>7, <1>8 DEF RingInv
<1> QED BY <1>3, <1>4, <1>5, <1>9

LEMMA CallTimeoutRuns ==
    ASSUME CallInv, NEW s \in scheduled, AndroidCall!TimeoutRuns(s)
    PROVE  CallInv'
<1> USE DEF CallInv
<1> DEFINE q == [do |-> "fired", kind |-> "timeout", call |-> s.call, ring |-> s.ring]
           more == IF AndroidCall!InHand(s) THEN {s.call} ELSE {}
<1>1. /\ task["main"].do = "free" /\ task' = [task EXCEPT !["main"] = q]
      /\ scheduled' = scheduled \ {s} /\ caught' = caught \union more
      /\ UNCHANGED <<rings, rungBy, shade, timeouts, held, conns, live, focus, mode, raced>>
  BY DEF AndroidCall!TimeoutRuns, AndroidCall!Free, AndroidCall!telecomVars,
         AndroidCall!audioVars
<1>2. s \in [call : Calls, ring : Nat]
  BY DEF RingTypes
<1>3. /\ q \in TimeoutTasks /\ q.do = "fired" /\ q.call = s.call /\ q.ring = s.ring
      /\ more \subseteq Calls /\ (s.call \notin more => ~AndroidCall!InHand(s))
  BY <1>2 DEF TimeoutTasks
<1> HIDE DEF q, more
<1>4. /\ TaskTypes' /\ task'["main"] = q
      /\ \A u \in AndroidCall!Threads : u # "main" => task'[u] = task[u]
  BY <1>1, <1>3, TaskSet, ThreadKinds
<1>5. TelecomTypes' /\ AudioInv'
  BY <1>1, <1>3, <1>4, AudioFrame, ThreadKinds
<1>6. RingTypes'
  BY <1>1, <1>3 DEF RingTypes
<1>7. ASSUME NEW d \in Calls, Alone(d)' PROVE RingOf(d)
  BY <1>1, <1>7 DEF Alone, RingInv
<1>8. ASSUME NEW d \in Calls, d # s.call, Alone(d)' PROVE RingOf(d)'
  <2>1. ~Ringing(d) /\ ~Ringing(d)' /\ ~Expiring(d)'
    BY <1>1, <1>3, <1>4, <1>8 DEF Ringing, Expiring
  <2> QED BY <1>1, <1>4, <1>7, <1>8, <2>1, RingElsewhere, ThreadKinds
<1>9. ASSUME Alone(s.call)' PROVE RingOf(s.call)'
  <2>1. ~AndroidCall!InHand(s)
    BY <1>1, <1>3, <1>9 DEF Alone
  <2>2. ~Ringing(s.call)
    BY <1>1 DEF Ringing
  <2>3. s.ring = timeouts[s.call] /\ shade[s.call] \in {0, s.ring}
    BY <1>2, <1>7, <1>9, <2>1, <2>2 DEF RingOf, InMap
  <2>4. ASSUME NEW x \in scheduled', x.call = s.call
        PROVE  AndroidCall!InHand(x)'
    <3>1. x \in scheduled /\ x # s /\ x \in [call : Calls, ring : Nat]
      BY <1>1 DEF RingTypes
    <3>2. x.ring # s.ring
      BY <1>2, <2>4, <3>1
    <3>3. AndroidCall!InHand(x)
      BY <1>2, <1>7, <1>9, <2>2, <2>3, <2>4, <3>1, <3>2 DEF RingOf, InMap
    <3> QED BY <1>1, <1>4, <3>3 DEF AndroidCall!InHand
  <2> QED BY <1>1, <1>3, <1>4, <2>3, <2>4 DEF RingOf
<1>10. task'["core"] = task["core"]
  BY <1>4, ThreadKinds
<1>11. RingInv'
  BY <1>1, <1>2, <1>8, <1>9, <1>10 DEF RingInv
<1> QED BY <1>4, <1>5, <1>6, <1>11

LEMMA CallTimeoutForgets ==
    ASSUME CallInv, AndroidCall!TimeoutForgets
    PROVE  CallInv'
<1> USE DEF CallInv
<1>1. PICK c \in Calls : c = task["main"].call /\ task["main"].do = "fired"
  BY Whose, ThreadKinds DEF AndroidCall!TimeoutForgets
<1>2. /\ AndroidCall!Goes("main", "drop")
      /\ timeouts' = [timeouts EXCEPT ![c] = 0]
      /\ UNCHANGED <<rings, rungBy, shade, scheduled, held, caught, conns, live, focus, mode,
                     raced>>
  BY <1>1 DEF AndroidCall!TimeoutForgets, AndroidCall!telecomVars, AndroidCall!audioVars
<1>3. task["main"] \in TimeoutTasks /\ Expiring(c)
  BY <1>1, <1>2, Whose, ThreadKinds DEF TimeoutTasks, Expiring
<1>4. /\ TaskTypes' /\ task'["main"].do = "drop" /\ task'["main"].call = c
      /\ \A u \in AndroidCall!Threads : u # "main" => task'[u] = task[u]
      /\ \A d : /\ Ringing(d)' <=> Ringing(d)
                /\ Expiring(d)' <=> Expiring(d)
                /\ Ringing(d) \/ Expiring(d) => task'["main"].ring = task["main"].ring
  BY <1>1, <1>2, GoesOn, ThreadKinds
<1>5. TelecomTypes' /\ AudioInv'
  BY <1>1, <1>2, <1>4, AudioFrame, ThreadKinds
<1>6. RingTypes' /\ \A d \in Calls : d # c => timeouts'[d] = timeouts[d]
  BY <1>1, <1>2 DEF RingTypes
<1>7. ASSUME NEW d \in Calls, Alone(d)' PROVE RingOf(d)
  BY <1>1, <1>2, <1>7 DEF Alone, RingInv
<1>8. ASSUME NEW d \in Calls, d # c, Alone(d)' PROVE RingOf(d)'
  <2>1. ~Ringing(d) /\ ~Ringing(d)' /\ ~Expiring(d)'
    BY <1>4, <1>8 DEF Ringing, Expiring
  <2> QED BY <1>1, <1>2, <1>4, <1>6, <1>7, <1>8, <2>1, RingElsewhere, ThreadKinds
<1>9. ASSUME Alone(c)' PROVE RingOf(c)'
  <2>1. ASSUME NEW x \in scheduled', x.call = c
        PROVE  AndroidCall!InHand(x)'
    <3>1. AndroidCall!InHand(x)
      BY <1>1, <1>2, <1>3, <1>7, <1>9, <2>1 DEF RingOf, InMap
    <3> QED BY <1>1, <1>2, <1>4, <3>1 DEF AndroidCall!InHand
  <2> QED BY <1>1, <1>2, <1>3, <1>4, <1>7, <1>9, <2>1 DEF RingOf
<1>10. task'["core"] = task["core"]
  BY <1>4, ThreadKinds
<1>11. RingInv'
  BY <1>1, <1>2, <1>8, <1>9, <1>10 DEF RingInv
<1> QED BY <1>4, <1>5, <1>6, <1>11

(* Taps.                                                                   *)

LEMMA CallTap ==
    ASSUME CallInv, NEW w \in CallTaps,
           \/ \E c \in Calls : AndroidCall!Tap(w, c)
           \/ AndroidCall!TapFails(w) \/ AndroidCall!TapReachesCore(w)
    PROVE  CallInv'
<1> USE DEF CallInv
<1>1. UNCHANGED <<rings, rungBy, shade, timeouts, scheduled, held, caught, conns, live, focus, mode, raced>>
  BY DEF AndroidCall!Tap, AndroidCall!TapFails, AndroidCall!TapReachesCore,
         AndroidCall!ringVars, AndroidCall!telecomVars, AndroidCall!audioVars
<1>2. /\ w \in AndroidCall!Threads /\ w # "main" /\ w # "core"
      /\ task[w].do \in {"free", "dispatch"}
  BY ThreadKinds
     DEF AndroidCall!Tap, AndroidCall!TapFails, AndroidCall!TapReachesCore, AndroidCall!Free
<1>3. /\ TaskTypes' /\ task'[w].do \notin {"tell", "activate", "engage", "disconnect"}
      /\ \A u \in AndroidCall!Threads : u # w => task'[u] = task[u]
  <2>1. CASE AndroidCall!TapFails(w)
    BY <1>2, <2>1, Ended DEF AndroidCall!TapFails
  <2>2. ASSUME NEW c \in Calls, AndroidCall!Tap(w, c)
        PROVE  \E q \in TapTasks :
                  q.do = "dispatch" /\ task' = [task EXCEPT ![w] = q]
    BY <2>2 DEF AndroidCall!Tap, TapTasks
  <2>3. ASSUME AndroidCall!TapReachesCore(w)
        PROVE  \E q \in TapTasks :
                  q.do \in {"mark", "drop"} /\ task' = [task EXCEPT ![w] = q]
    <3>1. task[w] \in TapTasks
      BY <1>2, <2>3, Whose DEF AndroidCall!TapReachesCore
    <3> DEFINE do == IF task[w].kind = "answer" THEN "mark" ELSE "drop"
    <3>2. do \in {"mark", "drop"} /\ AndroidCall!Goes(w, do)
      BY <2>3 DEF AndroidCall!TapReachesCore
    <3> HIDE DEF do
    <3> DEFINE q == [task[w] EXCEPT !.do = do]
    <3>3. task' = [task EXCEPT ![w] = q]
      BY <3>2 DEF AndroidCall!Goes
    <3>4. q \in TapTasks /\ q.do = do
      BY <3>1, <3>2 DEF TapTasks
    <3> HIDE DEF q
    <3> QED BY <3>2, <3>3, <3>4
  <2>4. ASSUME NEW q \in TapTasks, q.do \in {"dispatch", "mark", "drop"},
               task' = [task EXCEPT ![w] = q]
        PROVE  /\ TaskTypes' /\ task'[w].do \in {"dispatch", "mark", "drop"}
               /\ \A u \in AndroidCall!Threads : u # w => task'[u] = task[u]
    BY <1>2, <2>4, TaskSet, ThreadKinds
  <2> QED BY <2>1, <2>2, <2>3, <2>4
<1>4. TelecomTypes' /\ AudioInv'
  BY <1>1, <1>2, <1>3, AudioFrame
<1>5. RingTypes' /\ RingInv'
  BY <1>1, <1>2, <1>3, RingFrame
<1> QED BY <1>3, <1>4, <1>5

LEMMA CallMark ==
    ASSUME CallInv, NEW w \in CallTaps, AndroidCall!Mark(w)
    PROVE  CallInv'
<1> USE DEF CallInv
<1> DEFINE k == live[task[w].call]
           q == IF k = 0 THEN [task[w] EXCEPT !.do = "drop"]
                ELSE [do |-> "activate", kind |-> "answer", call |-> task[w].call,
                      conn |-> k]
<1>1. /\ task[w].do = "mark" /\ task' = [task EXCEPT ![w] = q]
      /\ UNCHANGED <<rings, rungBy, shade, timeouts, scheduled, held, caught, conns, live, focus, mode,
                     raced>>
  BY DEF AndroidCall!Mark, AndroidCall!ringVars, AndroidCall!telecomVars,
         AndroidCall!audioVars
<1>2. w \in AndroidCall!Threads /\ w # "main" /\ w # "core"
  BY ThreadKinds
<1>3. task[w] \in TapTasks /\ task[w].call \in Calls
  BY <1>1, <1>2, Whose DEF TapTasks
<1>4. k = 0 \/ (k \in DOMAIN conns /\ k \in Nat)
  BY <1>3 DEF TelecomTypes
<1>5. /\ q \in TapTasks \union AnswerTasks
      /\ q.do # "engage"
      /\ q.do \in {"tell", "activate", "disconnect"} => q.conn \in DOMAIN conns
  <2> HIDE DEF k
  <2>1. CASE k = 0
    <3>1. q = [task[w] EXCEPT !.do = "drop"]
      BY <2>1
    <3> HIDE DEF q
    <3>2. q \in TapTasks /\ q.do = "drop"
      BY <1>3, <3>1 DEF TapTasks
    <3> QED BY <3>2
  <2>2. CASE k # 0
    <3>1. q = [do |-> "activate", kind |-> "answer", call |-> task[w].call, conn |-> k]
      BY <2>2
    <3> HIDE DEF q
    <3>2. q \in AnswerTasks /\ q.do = "activate" /\ q.conn = k
      BY <1>3, <1>4, <2>2, <3>1 DEF AnswerTasks
    <3> QED BY <1>4, <2>2, <3>2
  <2> QED BY <2>1, <2>2
<1> HIDE DEF q, k
<1>6. /\ TaskTypes' /\ task'[w] = q
      /\ \A u \in AndroidCall!Threads : u # w => task'[u] = task[u]
  BY <1>1, <1>2, <1>5, TaskSet, ThreadKinds
<1>7. TelecomTypes' /\ AudioInv'
  BY <1>1, <1>2, <1>5, <1>6, AudioFrame
<1>8. RingTypes' /\ RingInv'
  BY <1>1, <1>2, <1>6, RingFrame
<1> QED BY <1>6, <1>7, <1>8

(* Connections.                                                            *)

LEMMA Reconnected ==
    ASSUME conns \in Seq(Connections), NEW k \in DOMAIN conns,
           NEW state \in {"active", "disconnected"},
           conns' = [conns EXCEPT ![k].state = state]
    PROVE  /\ conns' \in Seq(Connections) /\ DOMAIN conns' = DOMAIN conns
           /\ conns'[k].state = state
           /\ \A j \in DOMAIN conns : j # k => conns'[j] = conns[j]
<1>1. conns[k] \in Connections /\ conns \in [1 .. Len(conns) -> Connections]
  OBVIOUS
<1> DEFINE x == [conns[k] EXCEPT !.state = state]
<1>2. x \in Connections /\ x.state = state
  BY <1>1 DEF Connections
<1>3. conns' = [conns EXCEPT ![k] = x]
  OBVIOUS
<1> HIDE DEF x
<1>4. conns' \in [1 .. Len(conns) -> Connections]
  BY <1>1, <1>2, <1>3
<1>5. Len(conns) \in Nat
  OBVIOUS
<1>6. conns' \in Seq(Connections)
  BY <1>4, <1>5
<1> QED BY <1>1, <1>2, <1>3, <1>4, <1>6

LEMMA CallCreate ==
    ASSUME CallInv, NEW c \in Calls, AndroidCall!Create(c)
    PROVE  CallInv'
<1> USE DEF CallInv
<1> DEFINE x == [call |-> c, state |-> "ringing"]
<1>1. /\ conns' = Append(conns, x)
      /\ live' = [live EXCEPT ![c] = Len(conns')]
      /\ UNCHANGED <<rings, rungBy, shade, timeouts, scheduled, held, caught, focus, mode, raced, task>>
  BY DEF AndroidCall!Create, AndroidCall!ringVars, AndroidCall!audioVars
<1>2. conns \in Seq(Connections) /\ x \in Connections
  BY DEF TelecomTypes, Connections
<1> HIDE DEF x
<1>3. conns' \in Seq(Connections) /\ Len(conns') \in DOMAIN conns'
  BY <1>1, <1>2
<1>4. /\ DOMAIN conns \subseteq DOMAIN conns'
      /\ \A k \in DOMAIN conns : conns'[k] = conns[k]
  BY <1>1, <1>2
<1>5. live' \in [Calls -> {0} \union DOMAIN conns']
  BY <1>1, <1>3, <1>4 DEF TelecomTypes
<1>6. TaskTypes' /\ RingTypes' /\ RingInv'
  <2>1. TaskTypes'
    BY <1>1 DEF TaskTypes
  <2>2. RingTypes'
    BY <1>1 DEF RingTypes
  <2>3. RingInv'
    BY <1>1, RingStill
  <2> QED BY <2>1, <2>2, <2>3
<1>7. TelecomTypes'
  BY <1>1, <1>3, <1>4, <1>5 DEF TelecomTypes
<1>8. AudioInv'
  BY <1>1, <1>4 DEF TelecomTypes, AudioInv
<1> QED BY <1>6, <1>7, <1>8

LEMMA CallCallback ==
    ASSUME CallInv, NEW k \in DOMAIN conns, AndroidCall!Callback(k)
    PROVE  CallInv'
<1> USE DEF CallInv
<1>1. PICK kind \in {"onAnswer", "onReject", "onAbort", "onDisconnect"} :
         task' = [task EXCEPT !["main"] = [do |-> "tell", kind |-> kind, conn |-> k]]
  BY DEF AndroidCall!Callback
<1>2. /\ task["main"].do = "free"
      /\ UNCHANGED <<rings, rungBy, shade, timeouts, scheduled, held, caught, conns, live, focus, mode,
                     raced>>
  BY DEF AndroidCall!Callback, AndroidCall!Free, AndroidCall!ringVars,
         AndroidCall!audioVars
<1>3. k \in Nat
  BY DEF TelecomTypes
<1> DEFINE q == [do |-> "tell", kind |-> kind, conn |-> k]
<1>4. q \in CallbackTasks /\ q.do = "tell" /\ q.conn = k
  BY <1>3 DEF CallbackTasks
<1>5. task' = [task EXCEPT !["main"] = q]
  BY <1>1
<1> HIDE DEF q
<1>6. /\ TaskTypes' /\ task'["main"] = q
      /\ \A u \in AndroidCall!Threads : u # "main" => task'[u] = task[u]
  BY <1>4, <1>5, TaskSet, ThreadKinds
<1>7. TelecomTypes' /\ AudioInv'
  BY <1>2, <1>4, <1>6, AudioFrame, ThreadKinds
<1>8. RingTypes' /\ RingInv'
  BY <1>2, <1>4, <1>6, RingFrame, ThreadKinds
<1> QED BY <1>6, <1>7, <1>8

LEMMA CallTell ==
    ASSUME CallInv, AndroidCall!Tell
    PROVE  CallInv'
<1> USE DEF CallInv
<1>1. /\ task["main"].do = "tell"
      /\ UNCHANGED <<rings, rungBy, shade, timeouts, scheduled, held, caught, conns, live, focus, mode,
                     raced>>
  BY DEF AndroidCall!Tell, AndroidCall!ringVars, AndroidCall!telecomVars,
         AndroidCall!audioVars
<1>2. task["main"] \in CallbackTasks /\ task["main"].conn \in DOMAIN conns
  <2>1. task["main"] \in CallTasks("main")
    BY ThreadKinds DEF TaskTypes
  <2>2. task["main"] \in CallbackTasks
    BY <1>1, <2>1, ThreadKinds DEF Resting, RingTasks, CancelTasks, TimeoutTasks
  <2> QED BY <1>1, <2>2, ThreadKinds DEF TelecomTypes
<1>3. \E q \in Resting \union CallbackTasks :
         /\ q.do \in {"free", "activate", "disconnect"}
         /\ q.do # "free" => q.conn = task["main"].conn
         /\ task' = [task EXCEPT !["main"] = q]
  <2>1. CASE task["main"].kind = "onReject"
    BY <2>1 DEF AndroidCall!Tell, AndroidCall!Free, Resting
  <2>2. ASSUME NEW do \in {"activate", "disconnect"},
               task' = [task EXCEPT !["main"] = [task["main"] EXCEPT !.do = do]]
        PROVE  <1>3
    <3> DEFINE q == [task["main"] EXCEPT !.do = do]
    <3>1. q \in CallbackTasks /\ q.do = do /\ q.conn = task["main"].conn
      BY <1>2, <2>2 DEF CallbackTasks
    <3>2. task' = [task EXCEPT !["main"] = q]
      BY <2>2
    <3> HIDE DEF q
    <3> QED BY <3>1, <3>2
  <2>3. \/ task["main"].kind = "onReject"
        \/ task' = [task EXCEPT !["main"] = [task["main"] EXCEPT !.do = "activate"]]
        \/ task' = [task EXCEPT !["main"] = [task["main"] EXCEPT !.do = "disconnect"]]
    BY DEF AndroidCall!Tell
  <2> QED BY <2>1, <2>2, <2>3
<1>4. PICK q \in Resting \union CallbackTasks :
         /\ q.do \in {"free", "activate", "disconnect"}
         /\ q.do # "free" => q.conn = task["main"].conn
         /\ task' = [task EXCEPT !["main"] = q]
  BY <1>3
<1>5. /\ TaskTypes' /\ task'["main"] = q
      /\ \A u \in AndroidCall!Threads : u # "main" => task'[u] = task[u]
  BY <1>4, TaskSet, ThreadKinds
<1>6. TelecomTypes' /\ AudioInv'
  BY <1>1, <1>2, <1>4, <1>5, AudioFrame, ThreadKinds
<1>7. RingTypes' /\ RingInv'
  BY <1>1, <1>4, <1>5, RingFrame, ThreadKinds
<1> QED BY <1>5, <1>6, <1>7


(* What a thread does after setActive, and between its halves.             *)
LEMMA AfterSetActive ==
    ASSUME CallInv, NEW t \in AndroidCall!Threads, task[t].do \in {"activate", "engage"},
           \/ AndroidCall!AfterActive(t)
           \/ task[t].do = "activate" /\ AndroidCall!Goes(t, "engage")
    PROVE  /\ TaskTypes'
           /\ task'[t].do \in {"free", "spent", "drop", "engage"}
           /\ t = "main" => task'[t].do # "drop"
           /\ AndroidCall!AfterActive(t) => task'[t].do # "engage"
           /\ task'[t].do = "engage" => task'[t].conn = task[t].conn
           /\ \A u \in AndroidCall!Threads : u # t => task'[u] = task[u]
<1> USE DEF CallInv
<1>1. \/ t = "main" /\ t \notin CallTaps /\ task[t] \in CallbackTasks
      \/ t \in CallTaps /\ t # "main" /\ task[t] \in AnswerTasks
  BY Whose, ThreadKinds
<1>2. CASE AndroidCall!Ends(t)
  BY <1>2, Ended
<1>3. ASSUME NEW do \in {"drop", "engage"}, AndroidCall!Goes(t, do),
             do = "drop" => t \in CallTaps
      PROVE  /\ TaskTypes' /\ task'[t].do = do /\ task'[t].conn = task[t].conn
             /\ \A u \in AndroidCall!Threads : u # t => task'[u] = task[u]
  <2> DEFINE q == [task[t] EXCEPT !.do = do]
  <2>1. task' = [task EXCEPT ![t] = q]
    BY <1>3 DEF AndroidCall!Goes
  <2>2. q \in CallTasks(t) /\ q.do = do /\ q.conn = task[t].conn
    <3>1. CASE t = "main"
      BY <1>1, <1>3, <3>1, ThreadKinds DEF CallbackTasks
    <3>2. CASE t \in CallTaps
      BY <1>1, <1>3, <3>2, ThreadKinds DEF AnswerTasks
    <3> QED BY <1>1, <3>1, <3>2
  <2> HIDE DEF q
  <2> QED BY <2>1, <2>2, TaskSet
<1>4. CASE t \in CallTaps /\ AndroidCall!Goes(t, "drop")
  BY <1>1, <1>3, <1>4
<1>5. CASE task[t].do = "activate" /\ AndroidCall!Goes(t, "engage")
  <2>1. /\ TaskTypes' /\ task'[t].do = "engage" /\ task'[t].conn = task[t].conn
        /\ \A u \in AndroidCall!Threads : u # t => task'[u] = task[u]
    BY <1>3, <1>5
  <2>2. ~AndroidCall!AfterActive(t)
    <3>1. ASSUME AndroidCall!Ends(t) PROVE FALSE
      BY <2>1, <3>1, Ended
    <3>2. ASSUME t \in CallTaps, AndroidCall!Goes(t, "drop") PROVE FALSE
      BY <1>3, <2>1, <3>2
    <3> QED BY <3>1, <3>2 DEF AndroidCall!AfterActive
  <2> QED BY <2>1, <2>2
<1> QED BY <1>2, <1>4, <1>5 DEF AndroidCall!AfterActive

LEMMA CallActivate ==
    ASSUME CallInv, NEW t \in AndroidCall!Threads, AndroidCall!Activate(t)
    PROVE  CallInv'
<1> USE DEF CallInv
<1> DEFINE k == task[t].conn
<1>1. /\ task[t].do = "activate"
      /\ UNCHANGED <<rings, rungBy, shade, timeouts, scheduled, held, caught, live, focus, mode, raced>>
      /\ \/ /\ conns' = [conns EXCEPT ![k].state = "active"]
            /\ AndroidCall!Goes(t, "engage")
         \/ conns' = conns /\ AndroidCall!AfterActive(t)
  BY DEF AndroidCall!Activate, AndroidCall!ringVars, AndroidCall!audioVars
<1>2. /\ TaskTypes'
      /\ task'[t].do \in {"free", "spent", "drop", "engage"}
      /\ t = "main" => task'[t].do # "drop"
      /\ AndroidCall!AfterActive(t) => task'[t].do # "engage"
      /\ task'[t].do = "engage" => task'[t].conn = k
      /\ \A u \in AndroidCall!Threads : u # t => task'[u] = task[u]
  BY <1>1, AfterSetActive
<1>3. k \in DOMAIN conns
  BY <1>1 DEF TelecomTypes
<1> HIDE DEF k
<1>4. RingTypes' /\ RingInv'
  BY <1>1, <1>2, RingFrame
<1>5. CASE conns' = conns /\ AndroidCall!AfterActive(t)
  BY <1>1, <1>2, <1>4, <1>5, AudioFrame
<1>6. CASE conns' = [conns EXCEPT ![k].state = "active"]
  <2>1. /\ conns' \in Seq(Connections) /\ DOMAIN conns' = DOMAIN conns
        /\ conns'[k].state = "active"
        /\ \A j \in DOMAIN conns : j # k => conns'[j] = conns[j]
    BY <1>3, <1>6, Reconnected DEF TelecomTypes
  <2>2. TelecomTypes'
    BY <1>1, <1>2, <1>3, <2>1 DEF TelecomTypes
  <2>3. \A j \in DOMAIN conns : conns[j].state = "active" => conns'[j].state = "active"
    BY <2>1
  <2>4. AudioInv'
    BY <1>1, <1>2, <1>3, <2>1, <2>3 DEF AudioInv, TelecomTypes
  <2> QED BY <1>2, <1>4, <2>2, <2>4
<1> QED BY <1>1, <1>5, <1>6

LEMMA CallEngage ==
    ASSUME CallInv, NEW t \in AndroidCall!Threads, AndroidCall!Engage(t)
    PROVE  CallInv'
<1> USE DEF CallInv
<1> DEFINE k == task[t].conn
<1>1. /\ task[t].do = "engage" /\ focus' = focus \union {k} /\ mode' = "communication"
      /\ AndroidCall!AfterActive(t)
      /\ UNCHANGED <<rings, rungBy, shade, timeouts, scheduled, held, caught, conns, live, raced>>
  BY DEF AndroidCall!Engage, AndroidCall!ringVars, AndroidCall!telecomVars
<1>2. /\ TaskTypes'
      /\ task'[t].do \in {"free", "spent", "drop"}
      /\ t = "main" => task'[t].do # "drop"
      /\ \A u \in AndroidCall!Threads : u # t => task'[u] = task[u]
  BY <1>1, AfterSetActive
<1>3. /\ k \in DOMAIN conns
      /\ raced \/ conns[k].state = "active"
  BY <1>1 DEF TelecomTypes, AudioInv
<1> HIDE DEF k
<1>4. RingTypes' /\ RingInv'
  BY <1>1, <1>2, RingFrame
<1>5. TelecomTypes'
  BY <1>1, <1>2, <1>3 DEF TelecomTypes
<1>6. AudioInv'
  BY <1>1, <1>2, <1>3 DEF AudioInv
<1> QED BY <1>2, <1>4, <1>5, <1>6

LEMMA CallDisconnect ==
    ASSUME CallInv, AndroidCall!Disconnect
    PROVE  CallInv'
<1> USE DEF CallInv
<1> DEFINE k == task["main"].conn
<1>1. /\ task["main"].do = "disconnect" /\ AndroidCall!Ends("main")
      /\ conns' = [conns EXCEPT ![k].state = "disconnected"]
      /\ live' = [live EXCEPT ![conns[k].call] = 0]
      /\ focus' = focus \ {k} /\ mode' = "normal"
      /\ raced' = (raced \/ \E w \in CallTaps : task[w].do = "engage" /\ task[w].conn = k)
      /\ UNCHANGED <<rings, rungBy, shade, timeouts, scheduled, held, caught>>
  BY DEF AndroidCall!Disconnect, AndroidCall!ringVars
<1>2. /\ TaskTypes' /\ task'["main"].do \in {"free", "spent"}
      /\ \A u \in AndroidCall!Threads : u # "main" => task'[u] = task[u]
  BY <1>1, Ended, ThreadKinds
<1>3. k \in DOMAIN conns
  BY <1>1, ThreadKinds DEF TelecomTypes
<1> HIDE DEF k
<1>4. RingTypes' /\ RingInv'
  BY <1>1, <1>2, RingFrame, ThreadKinds
<1>5. /\ conns' \in Seq(Connections) /\ DOMAIN conns' = DOMAIN conns
      /\ \A j \in DOMAIN conns : j # k => conns'[j] = conns[j]
  BY <1>1, <1>3, Reconnected DEF TelecomTypes
<1>6. live' \in [Calls -> {0} \union DOMAIN conns'] /\ raced' \in BOOLEAN
  BY <1>1, <1>5 DEF TelecomTypes
<1>7. TelecomTypes'
  BY <1>1, <1>2, <1>5, <1>6 DEF TelecomTypes
<1>8. ASSUME ~raced', NEW t \in AndroidCall!Threads, task'[t].do = "engage"
      PROVE  conns'[task'[t].conn].state = "active"
  <2>1. t # "main" /\ task'[t] = task[t] /\ t \in CallTaps
    BY <1>2, <1>8, Whose DEF AndroidCall!Threads
  <2>2. task[t].conn # k /\ conns[task[t].conn].state = "active"
        /\ task[t].conn \in DOMAIN conns
    BY <1>1, <1>8, <2>1 DEF AudioInv, TelecomTypes
  <2> QED BY <1>5, <2>1, <2>2
<1>9. AudioInv'
  BY <1>1, <1>5, <1>8 DEF AudioInv, TelecomTypes
<1> QED BY <1>2, <1>4, <1>7, <1>9

LEMMA CallStep ==
    ASSUME CallInv, [AndroidCall!Next]_AndroidCall!vars
    PROVE  CallInv'
<1>1. ASSUME UNCHANGED <<AndroidCall!ringVars, task, conns, live, focus, mode, raced>>
      PROVE  CallInv'
  <2>1. TaskTypes' /\ TelecomTypes'
    BY <1>1 DEF CallInv, TaskTypes, TelecomTypes
  <2>2. RingTypes'
    BY <1>1 DEF AndroidCall!ringVars, CallInv, RingTypes
  <2>3. RingInv'
    BY <1>1, RingStill DEF AndroidCall!ringVars, CallInv
  <2>4. AudioInv'
    BY <1>1 DEF CallInv, AudioInv
  <2> QED BY <2>1, <2>2, <2>3, <2>4 DEF CallInv
<1>2. ASSUME NEW c \in Calls, AndroidCall!Offered(c) \/ AndroidCall!EndedElsewhere(c)
      PROVE  CallInv'
  BY <1>1, <1>2
     DEF AndroidCall!Offered, AndroidCall!EndedElsewhere, AndroidCall!telecomVars,
         AndroidCall!audioVars
<1>3. CASE UNCHANGED AndroidCall!vars
  BY <1>1, <1>3
     DEF AndroidCall!vars, AndroidCall!telecomVars, AndroidCall!audioVars
<1>4. ASSUME NEW t \in AndroidCall!Threads, AndroidCall!ThreadStep(t) PROVE CallInv'
  BY <1>4, CallTakes, CallInvoke, CallPost, CallKeep, CallClear, CallActivate, CallEngage, CallTimeoutForgets,
     CallTell, CallDisconnect, CallTap, CallMark
     DEF AndroidCall!ThreadStep
<1> QED
  BY <1>2, <1>3, <1>4, CallCreate, CallShow, CallCancel, CallTap, CallTimeoutRuns,
     CallCallback
     DEF AndroidCall!Next

LEMMA CallAlways == AndroidCall!Spec => []CallInv
<1> SUFFICES ASSUME AndroidCall!Init PROVE CallInv
  BY CallStep, PTL DEF AndroidCall!Spec
<1>1. \A t \in AndroidCall!Threads : task[t] = AndroidCall!Free /\ task[t].do = "free"
  BY DEF AndroidCall!Init, AndroidCall!Free
<1>2. TaskTypes
  <2>1. AndroidCall!Free \in Resting
    BY DEF AndroidCall!Free, Resting
  <2>2. \A t \in AndroidCall!Threads : AndroidCall!Free \in CallTasks(t)
    BY <2>1 DEF CallTasks
  <2> QED BY <1>1, <2>2 DEF AndroidCall!Init, TaskTypes
<1>3. TelecomTypes
  <2>1. conns = <<>> /\ DOMAIN conns = {} /\ conns \in Seq(Connections)
    BY DEF AndroidCall!Init
  <2>2. live \in [Calls -> {0} \union DOMAIN conns] /\ focus \subseteq DOMAIN conns
    BY <2>1 DEF AndroidCall!Init
  <2> QED BY <1>1, <2>1, <2>2 DEF AndroidCall!Init, TelecomTypes
<1>4. RingTypes
  BY DEF AndroidCall!Init, RingTypes
<1>5. AudioInv
  BY <1>1 DEF AndroidCall!Init, AudioInv
<1>6. RingInv
  BY <1>1, ThreadKinds DEF AndroidCall!Init, RingInv, RingOf, Ringing, Expiring
<1> QED BY <1>2, <1>3, <1>4, <1>5, <1>6 DEF CallInv

(* When every call is over the audio is as it was before, unless a worker  *)
(* was halfway through setActive when its connection went                  *)
(* (onStateChanged).                                                       *)
THEOREM AudioIsRestored == AndroidCall!Spec => []AudioRestored
<1>1. CallInv => AudioRestored
  BY DEF CallInv, AudioInv, TelecomTypes, AudioRestored, AndroidCall!AudioRestored,
         AndroidCall!CallsOver
<1> QED BY <1>1, CallAlways, PTL

(* The timeout of an old ring takes down no newer one, as long as the main *)
(* thread alone rings the call and no timeout of it runs between the two   *)
(* halves of ringTimeouts.remove(callId)?.invoke() of another thread.      *)
THEOREM TimeoutsSpareFresh == AndroidCall!Spec => TimeoutSparesFresh
<1>1. CallInv =>
         [\A c \in Calls :
             AndroidCall!TimeoutClears(c) /\ rungBy[c] = {"main"} /\ c \notin caught
             => shade[c] \in {0, task["main"].ring}]_AndroidCall!vars
  BY DEF CallInv, RingInv, RingOf, Alone, Expiring, AndroidCall!TimeoutClears
<1> QED
  BY <1>1, CallAlways, PTL DEF AndroidCall!Spec, TimeoutSparesFresh,
                               AndroidCall!TimeoutSparesFresh

-----------------------------------------------------------------------------
(* The calls of iOS.  A call rung once is new to CallKit at most once, so  *)
(* its way there is none, ringing, answering, live, ending, gone with      *)
(* shortcuts forward only, and one action of the user on it is under way   *)
(* at a time.  What the core may still hear depends on that action, and on *)
(* whether the plugin noted the answer or forgot the call altogether.      *)

PhoneReports == [call : PhoneCalls, is : {"new", "ended"}]
PhoneCallbacks == [call : PhoneCalls, is : {"answer", "end"}] \union [is : {"reset"}]
PhoneStands == {"none", "ringing", "answering", "live", "ending", "gone"}

PhoneTypes ==
    /\ phoneRings \in [PhoneCalls -> Nat]
    /\ reports \in Seq(PhoneReports)
    /\ callbacks \in Seq(PhoneCallbacks)
    /\ system \in [PhoneCalls -> PhoneStands]
    /\ heard \in [PhoneCalls -> Seq({"answer", "reject", "end"})]

\* Where a call waits to be taken as new, and where the actions on it wait.
NewAt(c) == {i \in DOMAIN reports : reports[i].is = "new" /\ reports[i].call = c}
ActsAt(c) == {i \in DOMAIN callbacks : callbacks[i].is # "reset" /\ callbacks[i].call = c}

\* The core has heard nothing, or of an answer that is noted unless forgotten.
Unheard(c) == heard[c] = <<>> /\ c \notin answered
Answered(c) == heard[c] = <<"answer">> /\ (c \in answered \/ c \notin callIds)

AnswerWaits(c, i) ==
    callbacks[i].is = "answer" /\ system[c] \in {"answering", "gone"} /\ Unheard(c)
EndWaits(c, i) ==
    /\ callbacks[i].is = "end" /\ system[c] \in {"ending", "gone"}
    /\ Unheard(c) \/ Answered(c)

RungOnce(c) ==
    /\ \A i, j \in NewAt(c) : i = j
    /\ NewAt(c) # {} => system[c] = "none"
    /\ NewAt(c) # {} \/ system[c] # "none" => phoneRings[c] # 0
    /\ \A i, j \in ActsAt(c) : i = j
    /\ system[c] \in {"none", "ringing", "live"} => ActsAt(c) = {}
    /\ system[c] \in {"none", "ringing"} => Unheard(c)
    /\ system[c] = "live" => Answered(c)
    /\ \A i \in ActsAt(c) : AnswerWaits(c, i) \/ EndWaits(c, i)
    /\ heard[c] \in Phone!Said

PhoneInv ==
    /\ PhoneTypes
    /\ \A c \in PhoneCalls : phoneRings[c] \in {0, 1} => RungOnce(c)

\* A step that does no more to a call than to forget it, to end it in CallKit
\* or to move what waits on it up a queue.
NewMove(c) == \E k \in {0, 1} : \A i \in NewAt(c)' : i + k \in NewAt(c)
ActsMove(c) ==
    \E k \in {0, 1} : \A i \in ActsAt(c)' :
        i + k \in ActsAt(c) /\ callbacks'[i] = callbacks[i + k]
NotesKept(c) ==
    /\ heard'[c] = heard[c]
    /\ c \in answered' => c \in answered
    /\ c \in callIds' => c \in callIds /\ (c \in answered => c \in answered')
PhoneRests(c) ==
    /\ phoneRings'[c] = phoneRings[c]
    /\ NewMove(c) /\ ActsMove(c) /\ NotesKept(c)
    /\ system'[c] = system[c] \/ (system[c] # "none" /\ system'[c] = "gone")

LEMMA PhoneFrame ==
    ASSUME NEW c \in PhoneCalls, reports' \in Seq(PhoneReports),
           callbacks' \in Seq(PhoneCallbacks), PhoneRests(c), RungOnce(c)
    PROVE  RungOnce(c)'
<1>1. /\ Unheard(c) => Unheard(c)'
      /\ Answered(c) => Answered(c)'
      /\ heard[c] \in Phone!Said => heard'[c] \in Phone!Said
  BY DEF PhoneRests, NotesKept, Unheard, Answered
<1>2. /\ \A i, j \in NewAt(c)' : i = j
      /\ NewAt(c)' # {} => NewAt(c) # {}
  <2>1. PICK k \in {0, 1} : \A i \in NewAt(c)' : i + k \in NewAt(c)
    BY DEF PhoneRests, NewMove
  <2>2. \A i \in NewAt(c)' : i \in Nat
    BY DEF NewAt
  <2> QED BY <2>1, <2>2 DEF RungOnce
<1>3. /\ \A i, j \in ActsAt(c)' : i = j
      /\ ActsAt(c)' # {} => ActsAt(c) # {}
      /\ \A i \in ActsAt(c)' : (AnswerWaits(c, i) \/ EndWaits(c, i))'
  <2>1. PICK k \in {0, 1} : \A i \in ActsAt(c)' :
                i + k \in ActsAt(c) /\ callbacks'[i] = callbacks[i + k]
    BY DEF PhoneRests, ActsMove
  <2>2. \A i \in ActsAt(c)' : i \in Nat
    BY DEF ActsAt
  <2>3. ASSUME NEW i \in ActsAt(c)' PROVE (AnswerWaits(c, i) \/ EndWaits(c, i))'
    <3>1. AnswerWaits(c, i + k) \/ EndWaits(c, i + k)
      BY <2>1, <2>3 DEF RungOnce
    <3>2. callbacks'[i].is = callbacks[i + k].is
      BY <2>1, <2>3
    <3>3. system'[c] = system[c] \/ system'[c] = "gone"
      BY DEF PhoneRests
    <3>4. CASE AnswerWaits(c, i + k)
      BY <1>1, <3>2, <3>3, <3>4 DEF AnswerWaits
    <3>5. CASE EndWaits(c, i + k)
      BY <1>1, <3>2, <3>3, <3>5 DEF EndWaits
    <3> QED BY <3>1, <3>4, <3>5
  <2> QED BY <2>1, <2>2, <2>3 DEF RungOnce
<1> QED BY <1>1, <1>2, <1>3 DEF RungOnce, PhoneRests

(* What joins or leaves a queue moves the rest as one.                     *)
LEMMA PhoneQueues ==
    ASSUME PhoneTypes, NEW c \in PhoneCalls
    PROVE  /\ UNCHANGED reports => NewMove(c)
           /\ UNCHANGED callbacks => ActsMove(c)
           /\ reports # <<>> /\ reports' = Tail(reports) => NewMove(c)
           /\ callbacks # <<>> /\ callbacks' = Tail(callbacks) => ActsMove(c)
           /\ \A m \in PhoneReports :
                 reports' = Append(reports, m) /\ (m.is # "new" \/ m.call # c) => NewMove(c)
           /\ \A m \in PhoneCallbacks :
                 /\ callbacks' = Append(callbacks, m)
                 /\ m.is = "reset" \/ m.call # c
                 => ActsMove(c)
<1>1. UNCHANGED reports => NewMove(c)
  BY DEF NewMove, NewAt, PhoneTypes
<1>2. UNCHANGED callbacks => ActsMove(c)
  BY DEF ActsMove, ActsAt, PhoneTypes
<1>3. ASSUME reports # <<>>, reports' = Tail(reports) PROVE NewMove(c)
  <2>1. \A i \in DOMAIN reports' : i + 1 \in DOMAIN reports /\ reports'[i] = reports[i + 1]
    BY <1>3 DEF PhoneTypes
  <2> QED BY <2>1 DEF NewMove, NewAt
<1>4. ASSUME callbacks # <<>>, callbacks' = Tail(callbacks) PROVE ActsMove(c)
  <2>1. \A i \in DOMAIN callbacks' :
            i + 1 \in DOMAIN callbacks /\ callbacks'[i] = callbacks[i + 1]
    BY <1>4 DEF PhoneTypes
  <2> QED BY <2>1 DEF ActsMove, ActsAt
<1>5. ASSUME NEW m \in PhoneReports, reports' = Append(reports, m),
             m.is # "new" \/ m.call # c
      PROVE  NewMove(c)
  <2>1. \A i \in DOMAIN reports' :
            /\ i \in Nat
            /\ (i \in DOMAIN reports /\ reports'[i] = reports[i]) \/ reports'[i] = m
    BY <1>5 DEF PhoneTypes
  <2> QED BY <1>5, <2>1 DEF NewMove, NewAt
<1>6. ASSUME NEW m \in PhoneCallbacks, callbacks' = Append(callbacks, m),
             m.is = "reset" \/ m.call # c
      PROVE  ActsMove(c)
  <2>1. \A i \in DOMAIN callbacks' :
            /\ i \in Nat
            /\ (i \in DOMAIN callbacks /\ callbacks'[i] = callbacks[i]) \/ callbacks'[i] = m
    BY <1>6 DEF PhoneTypes
  <2> QED BY <1>6, <2>1 DEF ActsMove, ActsAt
<1> QED BY <1>1, <1>2, <1>3, <1>4, <1>5, <1>6

(* The commands: a call rung for the first time joins the queue of new     *)
(* calls, if it does; nothing else was said of it before.                  *)
LEMMA PhoneShow ==
    ASSUME PhoneInv, NEW d \in PhoneCalls, Phone!ShowIncomingCall(d)
    PROVE  PhoneInv'
<1>0. /\ phoneRings' = [phoneRings EXCEPT ![d] = @ + 1]
      /\ callIds' \in {callIds, callIds \union {d}}
      /\ UNCHANGED <<answered, system, callbacks, heard>>
  BY DEF Phone!ShowIncomingCall
<1> DEFINE new == [call |-> d, is |-> "new"]
<1>1. new \in PhoneReports /\ new.call = d
  BY DEF PhoneReports
<1> HIDE DEF new
<1>2. reports' = reports \/ reports' = Append(reports, new)
  BY DEF new, Phone!ShowIncomingCall
<1>3. PhoneTypes'
  <2>1. phoneRings' \in [PhoneCalls -> Nat]
    BY <1>0 DEF PhoneInv, PhoneTypes
  <2>2. reports' \in Seq(PhoneReports)
    <3>1. reports \in Seq(PhoneReports)
      BY DEF PhoneInv, PhoneTypes
    <3>2. CASE reports' = Append(reports, new)
      BY <1>1, <3>1, <3>2
    <3> QED BY <1>2, <3>1, <3>2
  <2> QED BY <1>0, <2>1, <2>2 DEF PhoneInv, PhoneTypes
<1>4. ASSUME NEW c \in PhoneCalls, c # d, RungOnce(c) PROVE RungOnce(c)'
  <2>1. NewMove(c) /\ ActsMove(c)
    BY <1>0, <1>1, <1>2, <1>4, PhoneQueues DEF PhoneInv
  <2>2. NotesKept(c)
    BY <1>0, <1>4 DEF NotesKept
  <2>3. PhoneRests(c)
    BY <1>0, <1>4, <2>1, <2>2 DEF PhoneRests, PhoneInv, PhoneTypes
  <2> QED BY <1>3, <1>4, <2>3, PhoneFrame DEF PhoneTypes
<1>5. ASSUME phoneRings'[d] \in {0, 1} PROVE RungOnce(d)'
  <2>1. phoneRings[d] = 0 /\ phoneRings'[d] = 1
    BY <1>0, <1>5 DEF PhoneInv, PhoneTypes
  <2>2. RungOnce(d)
    BY <2>1 DEF PhoneInv
  <2>3. NewAt(d) = {} /\ system[d] = "none" /\ ActsAt(d) = {} /\ Unheard(d)
    BY <2>1, <2>2 DEF RungOnce
  <2>4. \A i \in NewAt(d)' : i = Len(reports) + 1
    <3>1. \A i \in DOMAIN reports' :
              (i \in DOMAIN reports /\ reports'[i] = reports[i]) \/ i = Len(reports) + 1
      <4>1. reports \in Seq(PhoneReports)
        BY DEF PhoneInv, PhoneTypes
      <4>2. CASE reports' = Append(reports, new)
        BY <1>1, <4>1, <4>2
      <4> QED BY <1>2, <4>1, <4>2
    <3> QED BY <2>3, <3>1 DEF NewAt
  <2>5. ActsAt(d)' = {} /\ Unheard(d)'
    BY <1>0, <2>3 DEF ActsAt, Unheard
  <2> QED BY <1>0, <2>1, <2>3, <2>4, <2>5 DEF RungOnce, Unheard, Phone!Said
<1>6. \A c \in PhoneCalls : c # d => phoneRings'[c] = phoneRings[c]
  BY <1>0 DEF PhoneInv, PhoneTypes
<1> QED BY <1>3, <1>4, <1>5, <1>6 DEF PhoneInv

(* Steps that leave the rings alone: every call rests, or changes as it    *)
(* may.                                                                    *)
LEMMA PhoneOthers ==
    ASSUME PhoneInv, PhoneTypes', UNCHANGED phoneRings,
           \A c \in PhoneCalls : PhoneRests(c) \/ (RungOnce(c) => RungOnce(c)')
    PROVE  PhoneInv'
  BY PhoneFrame DEF PhoneInv, PhoneTypes

LEMMA PhoneCancel ==
    ASSUME PhoneInv, NEW d \in PhoneCalls, Phone!CancelIncomingCall(d)
    PROVE  PhoneInv'
<1> USE DEF Phone!CancelIncomingCall
<1> DEFINE gone == [call |-> d, is |-> "ended"]
<1>1. gone \in PhoneReports /\ gone.is # "new"
  BY DEF PhoneReports
<1> HIDE DEF gone
<1>2. reports' = Append(reports, gone)
  BY DEF gone
<1>3. PhoneTypes'
  <2>1. reports' \in Seq(PhoneReports)
    BY <1>1, <1>2 DEF PhoneInv, PhoneTypes
  <2> QED BY <2>1 DEF PhoneInv, PhoneTypes
<1>4. ASSUME NEW c \in PhoneCalls PROVE PhoneRests(c)
  <2>1. NewMove(c) /\ ActsMove(c)
    BY <1>1, <1>2, PhoneQueues DEF PhoneInv
  <2>2. NotesKept(c)
    BY DEF NotesKept, Phone!ForgetCall
  <2> QED BY <2>1, <2>2 DEF PhoneRests
<1> QED BY <1>3, <1>4, PhoneOthers

(* CallKit takes what it was told: a call new to it may ring.              *)
LEMMA PhoneTakeReport ==
    ASSUME PhoneInv, Phone!TakeReport
    PROVE  PhoneInv'
<1>0. UNCHANGED <<phoneRings, callIds, answered, callbacks, heard>>
  BY DEF Phone!TakeReport, Phone!coreVars, Phone!noteVars
<1>1. /\ reports # <<>> /\ 1 \in DOMAIN reports /\ Head(reports) = reports[1]
      /\ Head(reports) \in PhoneReports
      /\ reports' = Tail(reports) /\ reports' \in Seq(PhoneReports)
  BY DEF Phone!TakeReport, PhoneInv, PhoneTypes
<1>2. PICK d \in PhoneCalls : d = Head(reports).call
  BY <1>1 DEF PhoneReports
<1>3. \/ UNCHANGED system
      \/ Phone!IsGone(d)
      \/ /\ reports[1].is = "new"
         /\ system' = [system EXCEPT ![d] = "ringing"]
  BY <1>1, <1>2 DEF Phone!TakeReport, PhoneReports
<1>4. PhoneTypes'
  <2>1. system' \in [PhoneCalls -> PhoneStands]
    BY <1>2, <1>3 DEF PhoneInv, PhoneTypes, PhoneStands, Phone!IsGone
  <2> QED BY <1>0, <1>1, <2>1 DEF PhoneInv, PhoneTypes
<1>5. ASSUME NEW c \in PhoneCalls
      PROVE  /\ phoneRings'[c] = phoneRings[c]
             /\ NewMove(c) /\ ActsMove(c) /\ NotesKept(c)
  BY <1>0, <1>1, PhoneQueues DEF PhoneInv, NotesKept
<1>6. CASE UNCHANGED system
  BY <1>0, <1>4, <1>5, <1>6, PhoneOthers DEF PhoneRests
<1>7. CASE Phone!IsGone(d)
  <2>1. \A c \in PhoneCalls : PhoneRests(c)
    BY <1>2, <1>5, <1>7 DEF PhoneRests, Phone!IsGone, Phone!Up, PhoneInv, PhoneTypes
  <2> QED BY <1>0, <1>4, <2>1, PhoneOthers
<1>8. CASE reports[1].is = "new" /\ system' = [system EXCEPT ![d] = "ringing"]
  <2>1. ASSUME NEW c \in PhoneCalls, c # d PROVE PhoneRests(c)
    BY <1>2, <1>5, <1>8, <2>1 DEF PhoneRests, PhoneInv, PhoneTypes
  <2>2. ASSUME RungOnce(d) PROVE RungOnce(d)'
    <3>1. 1 \in NewAt(d)
      BY <1>1, <1>2, <1>8 DEF NewAt
    <3>2. /\ \A i \in NewAt(d) : i = 1
          /\ system[d] = "none" /\ ActsAt(d) = {} /\ Unheard(d) /\ phoneRings[d] # 0
      BY <2>2, <3>1 DEF RungOnce
    <3>3. NewAt(d)' = {}
      <4>1. \A i \in DOMAIN reports' :
                i \in Nat \ {0} /\ i + 1 \in DOMAIN reports /\ reports'[i] = reports[i + 1]
        BY <1>1 DEF PhoneInv, PhoneTypes
      <4> QED BY <3>2, <4>1 DEF NewAt
    <3>4. ActsAt(d)' = {} /\ Unheard(d)' /\ system'[d] = "ringing"
      BY <1>0, <1>2, <1>8, <3>2 DEF ActsAt, Unheard, PhoneInv, PhoneTypes
    <3> QED BY <1>0, <3>2, <3>3, <3>4 DEF RungOnce, Unheard, Phone!Said
  <2> QED BY <1>0, <1>4, <2>1, <2>2, PhoneOthers
<1> QED BY <1>3, <1>6, <1>7, <1>8

(* The user answers a ringing call or ends one that is up; no action on it *)
(* waits yet.                                                              *)
LEMMA PhoneUserActs ==
    ASSUME PhoneInv, NEW d \in PhoneCalls, Phone!UserActs(d)
    PROVE  PhoneInv'
<1>0. UNCHANGED <<phoneRings, callIds, answered, reports, heard>>
  BY DEF Phone!UserActs, Phone!coreVars, Phone!noteVars
<1>1. PICK m \in [call : PhoneCalls, is : {"answer", "end"}],
           q \in {"answering", "ending"} :
         /\ m.call = d
         /\ callbacks' = Append(callbacks, m)
         /\ system' = [system EXCEPT ![d] = q]
         /\ system[d] \in {"ringing", "live"}
         /\ q = "answering" => system[d] = "ringing"
         /\ q = "answering" <=> m.is = "answer"
  BY DEF Phone!UserActs
<1>2. m \in PhoneCallbacks /\ m.is # "reset" /\ m.is \in {"answer", "end"}
  BY DEF PhoneCallbacks
<1>3. callbacks' \in Seq(PhoneCallbacks)
  BY <1>1, <1>2 DEF PhoneInv, PhoneTypes
<1>4. PhoneTypes'
  <2>1. system' \in [PhoneCalls -> PhoneStands]
    BY <1>1 DEF PhoneInv, PhoneTypes, PhoneStands
  <2> QED BY <1>0, <1>3, <2>1 DEF PhoneInv, PhoneTypes
<1>5. ASSUME NEW c \in PhoneCalls, c # d PROVE PhoneRests(c)
  <2>1. NewMove(c) /\ ActsMove(c)
    BY <1>0, <1>1, <1>2, <1>5, PhoneQueues DEF PhoneInv
  <2>2. NotesKept(c)
    BY <1>0 DEF NotesKept
  <2> QED BY <1>0, <1>1, <1>5, <2>1, <2>2 DEF PhoneRests, PhoneInv, PhoneTypes
<1>6. ASSUME RungOnce(d) PROVE RungOnce(d)'
  <2>1. /\ ActsAt(d) = {} /\ NewAt(d) = {} /\ phoneRings[d] # 0
        /\ heard[d] \in Phone!Said
        /\ q = "answering" => Unheard(d)
        /\ Unheard(d) \/ Answered(d)
    BY <1>1, <1>6 DEF RungOnce
  <2>2. \A i \in ActsAt(d)' : i = Len(callbacks) + 1 /\ callbacks'[i] = m
    <3>1. \A i \in DOMAIN callbacks' :
              \/ i \in DOMAIN callbacks /\ callbacks'[i] = callbacks[i]
              \/ i = Len(callbacks) + 1 /\ callbacks'[i] = m
      BY <1>1, <1>2 DEF PhoneInv, PhoneTypes
    <3> QED BY <2>1, <3>1 DEF ActsAt
  <2>3. /\ NewAt(d)' = {} /\ system'[d] = q /\ heard'[d] = heard[d]
        /\ Unheard(d)' <=> Unheard(d)
        /\ Answered(d)' <=> Answered(d)
    BY <1>0, <1>1, <2>1 DEF NewAt, Unheard, Answered, PhoneInv, PhoneTypes
  <2>4. \A i \in ActsAt(d)' : (AnswerWaits(d, i) \/ EndWaits(d, i))'
    BY <1>1, <1>2, <2>1, <2>2, <2>3 DEF AnswerWaits, EndWaits
  <2> QED BY <1>0, <2>1, <2>2, <2>3, <2>4 DEF RungOnce
<1> QED BY <1>0, <1>4, <1>5, <1>6, PhoneOthers

LEMMA PhoneResets ==
    ASSUME PhoneInv, Phone!Resets
    PROVE  PhoneInv'
<1>0. UNCHANGED <<phoneRings, callIds, answered, reports, heard>>
  BY DEF Phone!Resets, Phone!coreVars, Phone!noteVars
<1>1. PICK m \in [is : {"reset"}] :
         callbacks' = Append(callbacks, m) /\ m.is = "reset" /\ m \in PhoneCallbacks
  BY DEF Phone!Resets, PhoneCallbacks
<1>2. system' = [c \in PhoneCalls |->
                   IF system[c] \in Phone!Up THEN "gone" ELSE system[c]]
  BY DEF Phone!Resets
<1>3. PhoneTypes'
  <2>1. callbacks' \in Seq(PhoneCallbacks)
    BY <1>1 DEF PhoneInv, PhoneTypes
  <2>2. system' \in [PhoneCalls -> PhoneStands]
    BY <1>2 DEF PhoneInv, PhoneTypes, PhoneStands
  <2> QED BY <1>0, <2>1, <2>2 DEF PhoneInv, PhoneTypes
<1>4. ASSUME NEW c \in PhoneCalls PROVE PhoneRests(c)
  <2>1. NewMove(c) /\ ActsMove(c)
    BY <1>0, <1>1, PhoneQueues DEF PhoneInv
  <2>2. NotesKept(c)
    BY <1>0 DEF NotesKept
  <2> QED BY <1>0, <1>2, <2>1, <2>2 DEF PhoneRests, Phone!Up
<1> QED BY <1>0, <1>3, <1>4, PhoneOthers

(* A callback that runs for a call was the only one waiting on it.         *)
LEMMA PhoneHead ==
    ASSUME PhoneInv, NEW is \in {"answer", "end"}, Phone!Runs(is)
    PROVE  /\ UNCHANGED <<phoneRings, reports>>
           /\ callbacks # <<>> /\ callbacks' = Tail(callbacks)
           /\ callbacks' \in Seq(PhoneCallbacks)
           /\ Head(callbacks).call \in PhoneCalls
           /\ \A c \in PhoneCalls : NewMove(c) /\ ActsMove(c)
           /\ \A d \in PhoneCalls :
                 d = Head(callbacks).call /\ RungOnce(d)
                 => /\ AnswerWaits(d, 1) \/ EndWaits(d, 1)
                    /\ callbacks[1].is = is
                    /\ system[d] # "none" /\ NewAt(d)' = {} /\ ActsAt(d)' = {}
<1>1. /\ UNCHANGED <<phoneRings, reports>>
      /\ callbacks # <<>> /\ callbacks' = Tail(callbacks) /\ Head(callbacks).is = is
  BY DEF Phone!Runs, Phone!coreVars
<1>2. /\ callbacks' \in Seq(PhoneCallbacks)
      /\ 1 \in DOMAIN callbacks /\ Head(callbacks) = callbacks[1]
      /\ callbacks[1] \in PhoneCallbacks
      /\ \A i \in DOMAIN callbacks' :
            /\ i \in Nat \ {0} /\ i + 1 \in DOMAIN callbacks
            /\ callbacks'[i] = callbacks[i + 1]
  BY <1>1 DEF PhoneInv, PhoneTypes
<1>3. callbacks[1].call \in PhoneCalls
  BY <1>1, <1>2 DEF PhoneCallbacks
<1>4. \A c \in PhoneCalls : NewMove(c) /\ ActsMove(c)
  BY <1>1, PhoneQueues DEF PhoneInv
<1>5. ASSUME NEW d \in PhoneCalls, d = callbacks[1].call, RungOnce(d)
      PROVE  /\ AnswerWaits(d, 1) \/ EndWaits(d, 1)
             /\ system[d] # "none" /\ NewAt(d)' = {} /\ ActsAt(d)' = {}
  <2>1. 1 \in ActsAt(d)
    BY <1>1, <1>2, <1>5 DEF ActsAt
  <2>2. /\ AnswerWaits(d, 1) \/ EndWaits(d, 1)
        /\ \A i \in ActsAt(d) : i = 1
        /\ system[d] # "none" /\ NewAt(d) = {}
    BY <1>5, <2>1 DEF RungOnce
  <2>3. ActsAt(d)' = {}
    BY <1>2, <2>2 DEF ActsAt
  <2>4. NewAt(d)' = {}
    BY <1>1, <2>2 DEF NewAt
  <2> QED BY <2>2, <2>3, <2>4
<1> QED BY <1>1, <1>2, <1>3, <1>4, <1>5

(* A refused action ends the call in CallKit and tells the core nothing.   *)
LEMMA PhoneFailAction ==
    ASSUME PhoneInv, NEW is \in {"answer", "end"}, Phone!FailAction(is)
    PROVE  PhoneInv'
<1>1. PICK d \in PhoneCalls : d = Head(callbacks).call
  BY PhoneHead DEF Phone!FailAction
<1>2. /\ Phone!Runs(is) /\ Phone!IsGone(d)
      /\ UNCHANGED <<callIds, answered, heard>>
  BY <1>1 DEF Phone!FailAction, Phone!noteVars
<1>3. /\ UNCHANGED <<phoneRings, reports>> /\ callbacks' \in Seq(PhoneCallbacks)
      /\ \A c \in PhoneCalls : NewMove(c) /\ ActsMove(c)
  BY <1>2, PhoneHead
<1>4. PhoneTypes'
  <2>1. system' \in [PhoneCalls -> PhoneStands]
    BY <1>1, <1>2 DEF PhoneInv, PhoneTypes, PhoneStands, Phone!IsGone
  <2> QED BY <1>2, <1>3, <2>1 DEF PhoneInv, PhoneTypes
<1>5. \A c \in PhoneCalls : PhoneRests(c)
  BY <1>1, <1>2, <1>3
     DEF PhoneRests, NotesKept, Phone!IsGone, Phone!Up, PhoneInv, PhoneTypes
<1> QED BY <1>3, <1>4, <1>5, PhoneOthers

(* The plugin notes the answer and passes it on, its first word to the     *)
(* core about the call.                                                    *)
LEMMA PhonePerformAnswer ==
    ASSUME PhoneInv, Phone!PerformAnswer
    PROVE  PhoneInv'
<1>1. Phone!Runs("answer")
  BY DEF Phone!PerformAnswer
<1>2. PICK d \in PhoneCalls : d = Head(callbacks).call
  BY <1>1, PhoneHead
<1>3. /\ callIds' = callIds /\ answered' = answered \union {d}
      /\ system' = [system EXCEPT ![d] = IF @ = "answering" THEN "live" ELSE @]
      /\ heard' = [heard EXCEPT ![d] = Append(@, "answer")]
  BY <1>2 DEF Phone!PerformAnswer, Phone!PassOn
<1>4. /\ UNCHANGED <<phoneRings, reports>> /\ callbacks' \in Seq(PhoneCallbacks)
      /\ \A c \in PhoneCalls : NewMove(c) /\ ActsMove(c)
  BY <1>1, PhoneHead
<1>5. PhoneTypes'
  <2>1. system' \in [PhoneCalls -> PhoneStands]
    BY <1>2, <1>3 DEF PhoneInv, PhoneTypes, PhoneStands
  <2>2. heard' \in [PhoneCalls -> Seq({"answer", "reject", "end"})]
    BY <1>2, <1>3 DEF PhoneInv, PhoneTypes
  <2> QED BY <1>4, <2>1, <2>2 DEF PhoneInv, PhoneTypes
<1>6. ASSUME NEW c \in PhoneCalls, c # d PROVE PhoneRests(c)
  BY <1>3, <1>4, <1>6 DEF PhoneRests, NotesKept, PhoneInv, PhoneTypes
<1>7. ASSUME RungOnce(d) PROVE RungOnce(d)'
  <2>1. /\ callbacks[1].is = "answer"
        /\ AnswerWaits(d, 1) \/ EndWaits(d, 1)
        /\ NewAt(d)' = {} /\ ActsAt(d)' = {} /\ phoneRings[d] # 0
    BY <1>1, <1>2, <1>7, PhoneHead DEF RungOnce
  <2>2. system[d] \in {"answering", "gone"} /\ Unheard(d)
    BY <2>1 DEF AnswerWaits, EndWaits
  <2>3. heard'[d] = <<"answer">>
    BY <1>3, <2>2 DEF Unheard, PhoneInv, PhoneTypes
  <2>4. Answered(d)'
    BY <1>3, <2>3 DEF Answered
  <2>5. system'[d] \in {"live", "gone"}
    BY <1>3, <2>2 DEF PhoneInv, PhoneTypes
  <2> QED BY <1>4, <2>1, <2>3, <2>4, <2>5 DEF RungOnce, Phone!Said
<1> QED BY <1>4, <1>5, <1>6, <1>7, PhoneOthers

LEMMA HangUp == Append(<<"answer">>, "end") = <<"answer", "end">>
<1> DEFINE both == <<"answer", "end">>
           more == Append(<<"answer">>, "end")
<1>1. both \in Seq({"answer", "end"}) /\ more \in Seq({"answer", "end"})
  OBVIOUS
<1>2. Len(both) = 2 /\ Len(more) = 2 /\ \A i \in 1 .. 2 : more[i] = both[i]
  OBVIOUS
<1>3. more = both
  <2> HIDE DEF both, more
  <2> QED BY <1>1, <1>2, SeqEqual
<1> QED BY <1>3

(* The end is a hang-up exactly when the answer was passed on, since the   *)
(* note of it is forgotten only along with the call.                       *)
LEMMA PhonePerformEnd ==
    ASSUME PhoneInv, Phone!PerformEnd
    PROVE  PhoneInv'
<1>1. Phone!Runs("end")
  BY DEF Phone!PerformEnd
<1>2. PICK d \in PhoneCalls : d = Head(callbacks).call
  BY <1>1, PhoneHead
<1>3. PICK word \in {"end", "reject"} :
         /\ word = "end" <=> d \in answered
         /\ d \in callIds /\ callIds' = callIds \ {d} /\ answered' = answered \ {d}
         /\ Phone!IsGone(d)
         /\ heard' = [heard EXCEPT ![d] = Append(@, word)]
  BY <1>2 DEF Phone!PerformEnd, Phone!PassOn, Phone!ForgetCall
<1>4. /\ UNCHANGED <<phoneRings, reports>> /\ callbacks' \in Seq(PhoneCallbacks)
      /\ \A c \in PhoneCalls : NewMove(c) /\ ActsMove(c)
  BY <1>1, PhoneHead
<1>5. PhoneTypes'
  <2>1. system' \in [PhoneCalls -> PhoneStands]
    BY <1>2, <1>3 DEF PhoneInv, PhoneTypes, PhoneStands, Phone!IsGone
  <2>2. heard' \in [PhoneCalls -> Seq({"answer", "reject", "end"})]
    BY <1>2, <1>3 DEF PhoneInv, PhoneTypes
  <2> QED BY <1>4, <2>1, <2>2 DEF PhoneInv, PhoneTypes
<1>6. ASSUME NEW c \in PhoneCalls, c # d PROVE PhoneRests(c)
  BY <1>3, <1>4, <1>6 DEF PhoneRests, NotesKept, Phone!IsGone, PhoneInv, PhoneTypes
<1>7. ASSUME RungOnce(d) PROVE RungOnce(d)'
  <2>1. /\ callbacks[1].is = "end"
        /\ AnswerWaits(d, 1) \/ EndWaits(d, 1)
        /\ NewAt(d)' = {} /\ ActsAt(d)' = {} /\ phoneRings[d] # 0
    BY <1>1, <1>2, <1>7, PhoneHead DEF RungOnce
  <2>2. system[d] \in {"ending", "gone"} /\ (Unheard(d) \/ Answered(d))
    BY <2>1 DEF AnswerWaits, EndWaits
  <2>3. heard'[d] \in {<<"reject">>, <<"answer", "end">>}
    <3>1. CASE Unheard(d)
      BY <1>3, <3>1 DEF Unheard, PhoneInv, PhoneTypes
    <3>2. CASE Answered(d)
      <4>1. word = "end" /\ heard[d] = <<"answer">>
        BY <1>3, <3>2 DEF Answered
      <4>2. heard'[d] = Append(<<"answer">>, "end")
        BY <1>3, <4>1 DEF PhoneInv, PhoneTypes
      <4> QED BY <4>2, HangUp
    <3> QED BY <2>2, <3>1, <3>2
  <2>4. system'[d] = "gone"
    BY <1>3, <2>2 DEF Phone!IsGone, Phone!Up, PhoneInv, PhoneTypes
  <2> QED BY <1>4, <2>1, <2>3, <2>4 DEF RungOnce, Phone!Said
<1> QED BY <1>4, <1>5, <1>6, <1>7, PhoneOthers

LEMMA PhoneDidReset ==
    ASSUME PhoneInv, Phone!ProviderDidReset
    PROVE  PhoneInv'
<1>1. /\ callbacks # <<>> /\ callbacks' = Tail(callbacks)
      /\ UNCHANGED <<phoneRings, reports, system, heard>>
      /\ callIds' = {} /\ answered' = {}
  BY DEF Phone!ProviderDidReset, Phone!Runs, Phone!coreVars
<1>2. PhoneTypes'
  BY <1>1 DEF PhoneInv, PhoneTypes
<1>3. ASSUME NEW c \in PhoneCalls PROVE PhoneRests(c)
  <2>1. NewMove(c) /\ ActsMove(c)
    BY <1>1, PhoneQueues DEF PhoneInv
  <2> QED BY <1>1, <2>1 DEF PhoneRests, NotesKept
<1> QED BY <1>1, <1>2, <1>3, PhoneOthers

LEMMA PhoneStep ==
    ASSUME PhoneInv, [Phone!Next]_Phone!vars
    PROVE  PhoneInv'
<1>1. CASE UNCHANGED <<phoneRings, callIds, answered, reports, system, callbacks, heard>>
  <2>1. PhoneTypes'
    BY <1>1 DEF PhoneInv, PhoneTypes
  <2>2. ASSUME NEW c \in PhoneCalls PROVE PhoneRests(c)
    BY <1>1, PhoneQueues DEF PhoneInv, PhoneRests, NotesKept
  <2> QED BY <1>1, <2>1, <2>2, PhoneOthers
<1>2. CASE Phone!Moves \/ UNCHANGED Phone!vars
  BY <1>1, <1>2 DEF Phone!Moves, Phone!vars, Phone!coreVars, Phone!noteVars
<1> QED
  BY <1>2, PhoneShow, PhoneCancel, PhoneTakeReport, PhoneUserActs, PhoneResets,
     PhoneFailAction, PhonePerformAnswer, PhonePerformEnd, PhoneDidReset
     DEF Phone!Next

(* Of a call rung once the core hears nothing, a decline, or an answer and *)
(* at most a hang-up after it, whatever crossed on the way (the perform    *)
(* handlers, forgetCall).                                                  *)
THEOREM CoreIsToldOnce == Phone!Spec => []CoreHearsOnce
<1>1. Phone!Init => PhoneInv
  <2> SUFFICES ASSUME Phone!Init PROVE PhoneInv
    OBVIOUS
  <2>1. PhoneTypes
    BY DEF Phone!Init, PhoneTypes, PhoneStands
  <2>2. \A c \in PhoneCalls : NewAt(c) = {} /\ ActsAt(c) = {}
    BY DEF Phone!Init, NewAt, ActsAt
  <2> QED BY <2>1, <2>2 DEF Phone!Init, PhoneInv, RungOnce, Unheard, Phone!Said
<1>2. PhoneInv => CoreHearsOnce
  BY DEF PhoneInv, RungOnce, CoreHearsOnce, Phone!CoreHearsOnce
<1> QED BY <1>1, <1>2, PhoneStep, PTL DEF Phone!Spec

-----------------------------------------------------------------------------
(* The run moves one part and leaves the others as they are, so each of    *)
(* them behaves as it does alone, and what was proved of a part holds of   *)
(* the run.                                                                *)
besideVars == <<part, vars, socketVars, watcherVars, callVars, chatVars, phoneVars>>

LEMMA BesideSockets == BesideSpec => Socket!Spec
<1>1. BesideInit => Socket!Init
  BY DEF BesideInit
<1>2. [BesideNext]_besideVars => [Socket!Next]_Socket!vars
  BY DEF BesideNext, besideVars, socketVars, Socket!vars
<1> QED BY <1>1, <1>2, PTL DEF BesideSpec, besideVars, Socket!Spec

LEMMA BesideChats == BesideSpec => Message!Spec
<1>1. BesideInit => Message!Init
  BY DEF BesideInit
<1>2. [BesideNext]_besideVars => [Message!Next]_Message!vars
  BY DEF BesideNext, besideVars, chatVars, Message!vars
<1> QED BY <1>1, <1>2, PTL DEF BesideSpec, besideVars, Message!Spec

LEMMA BesideCalls == BesideSpec => AndroidCall!Spec
<1>1. BesideInit => AndroidCall!Init
  BY DEF BesideInit
<1>2. [BesideNext]_besideVars => [AndroidCall!Next]_AndroidCall!vars
  BY DEF BesideNext, besideVars, callVars, AndroidCall!vars, AndroidCall!coreVars,
         AndroidCall!ringVars, AndroidCall!telecomVars, AndroidCall!audioVars
<1> QED BY <1>1, <1>2, PTL DEF BesideSpec, besideVars, AndroidCall!Spec

LEMMA BesidePhones == BesideSpec => Phone!Spec
<1>1. BesideInit => Phone!Init
  BY DEF BesideInit
<1>2. [BesideNext]_besideVars => [Phone!Next]_Phone!vars
  BY DEF BesideNext, besideVars, phoneVars, Phone!vars, Phone!coreVars, Phone!noteVars
<1> QED BY <1>1, <1>2, PTL DEF BesideSpec, besideVars, Phone!Spec

LEMMA BesideWatchers == BesideSpec => Watcher!Spec
<1>1. BesideInit => Watcher!Init
  BY DEF BesideInit
<1>2. [BesideNext]_besideVars => [Watcher!Next]_Watcher!vars
  BY DEF BesideNext, besideVars, watcherVars, Watcher!vars, Watcher!threadVars,
         Watcher!fireVars
<1> QED BY <1>1, <1>2, PTL DEF BesideSpec, besideVars, Watcher!Spec

(* What the run checks of the parts and a proof reaches.                   *)
THEOREM BesideHolds ==
    BesideSpec => /\ [](StaleNeverBlocks /\ AudioRestored /\ CoreHearsOnce)
                  /\ ClearsChat /\ TimeoutSparesFresh /\ FiresApart
                  /\ [](Quiet => announced = network)
  BY BesideSockets, BesideChats, BesideCalls, BesidePhones, BesideWatchers,
     StaleFilesHarmless, ActionsClear, AudioIsRestored, TimeoutsSpareFresh, CoreIsToldOnce,
     QuietIsFired, FiresAreApart, PTL
=============================================================================
