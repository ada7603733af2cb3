---------------------------------- MODULE Link ----------------------------------
(***************************************************************************)
(* The app's link to the daemon: one pipe, over which the calls of all of  *)
(* the app's tasks and the daemon's notifications are multiplexed.         *)
(*                                                                         *)
(* A call parks a one-shot sender in pending, writes its request and waits;*)
(* the connection's reader hands it the reply.  When the reader stops it   *)
(* drops the parked senders, drops the subscriptions and marks the         *)
(* connection closed, in three steps.  The link's loop sees its            *)
(* subscription end, empties the slot that holds the client, connects anew *)
(* (starting the daemon if there is none), subscribes and seeds the app's  *)
(* cached list.  A second task polls for open prompts.  The slot's mutex   *)
(* is held over each call but those the loop makes before it fills it.     *)
(***************************************************************************)
EXTENDS Naturals, FiniteSets, SequencesExt

CONSTANTS
    Users,      \* tasks that serve the window's commands
    Prompts,    \* permission requests and questions
    Env,        \* what the environment may do, see EnvChoices
    ChanCap,    \* notifications that wait for the loop, 256 in the code
    MaxConns,   \* bound: connections
    MaxVersion  \* bound: changes of the daemon's list of sessions

(* "burst"  more notifications may come than ChanCap while the loop is busy *)
EnvChoices == {"burst"}

ASSUME ConstantsAssumption ==
    /\ Users \cap {"loop", "poll"} = {}
    /\ Env \subseteq EnvChoices
    /\ ChanCap \in Nat \ {0} /\ MaxConns \in Nat \ {0} /\ MaxVersion \in Nat

Tasks == Users \cup {"loop", "poll"}
Conns == 1..MaxConns
Versions == 0..MaxVersion

VARIABLES
    daemon,  \* up, its list's version, the publications under way
    prompt,  \* the prompts: "unasked", "open" or "settled"
    conn,    \* the connections, by generation
    call,    \* the call each task makes
    loop,    \* run_app_subscription
    poll,    \* spawn_pending_prompt_poll, with its emitted and was_connected
    user,    \* the commands
    slot,    \* AppState.daemon_client, 0 for None
    holder,  \* who holds the slot's mutex
    cache,   \* AppState.cached_instances
    cards,   \* the prompts the window shows
    reseeded \* history: what is in cache was stored by a command

vars == <<daemon, prompt, conn, call, loop, poll, user, slot, holder, cache, cards,
          reseeded>>

Nobody == "nobody"

\* requests: what the daemon is to serve, served: replies yet to be queued.
\* news: the last version the forwarding task has not passed on, if any.
\* frames: on the wire, a task for its reply, a version for its notification.
\* crossed: history, the last that was broadcast is older than one before it.
NewConn == [pipe |-> "open", reader |-> "reading", pending |-> {},
            requests |-> {}, served |-> {}, subscribed |-> FALSE, news |-> {},
            frames |-> <<>>, listens |-> FALSE, told |-> <<>>, crossed |-> FALSE]

Unused == [NewConn EXCEPT !.pipe = "none", !.reader = "none"]

NoCall == [pc |-> "none", gen |-> 0, method |-> "none", reply |-> {}]

\* read: lists read and yet to be broadcast, with whether a newer has been since.
Idle(version) == [up |-> FALSE, version |-> version, read |-> <<>>]

Read(version) == [version |-> version, overtaken |-> FALSE]

Init ==
    /\ daemon = Idle(0)
    /\ prompt = [p \in Prompts |-> "unasked"]
    /\ conn = [g \in Conns |-> Unused]
    /\ call = [t \in Tasks |-> NoCall]
    /\ loop = [pc |-> "connecting", gen |-> 0, news |-> 0]
    /\ poll = [pc |-> "asleep", emitted |-> {}, wasConnected |-> FALSE]
    /\ user = [u \in Users |-> "idle"]
    /\ slot = 0
    /\ holder = Nobody
    /\ cache = 0
    /\ cards = {}
    /\ reseeded = FALSE

Open == {p \in Prompts : prompt[p] = "open"}

-----------------------------------------------------------------------------
(* A call. *)

Closed(g) == conn[g].reader = "closed"

\* What has become of t's call.
Answered(t) == call[t].pc = "answered"
Over(t) == call[t].pc \in {"answered", "failed"}

Called(t, g, m) ==
    [pc |-> IF Closed(g) THEN "failed" ELSE "writing", gen |-> g, method |-> m,
     reply |-> {}]

Begin(t, g, m) == call' = [call EXCEPT ![t] = Called(t, g, m)]

Return(t) == call' = [call EXCEPT ![t] = NoCall]

\* The sender is parked before the request is written: if the reader drops it in
\* between the call fails, as it does if that happens first.  A write into a
\* broken pipe may fail, or be lost in a buffer.
Write(t) ==
    /\ call[t].pc = "writing"
    /\ LET g == call[t].gen IN
        \/ /\ conn[g].pipe = "open"
           /\ conn' = [conn EXCEPT ![g].pending = @ \cup {t}, ![g].requests = @ \cup {t}]
           /\ call' = [call EXCEPT ![t].pc = "waiting"]
        \/ /\ conn[g].pipe = "broken"
           /\ conn' = [conn EXCEPT ![g].pending = @ \cup {t}]
           /\ call' = [call EXCEPT ![t].pc = "waiting"]
        \/ /\ conn[g].pipe = "broken"
           /\ call' = [call EXCEPT ![t].pc = "failed"]
           /\ UNCHANGED conn
    /\ UNCHANGED <<daemon, prompt, loop, poll, user, slot, holder, cache, cards, reseeded>>

\* Mutant: nobody looks at the mark.
HopelessIfDropped(t) == t \notin conn[call[t].gen].pending

\* The sender was dropped, or the connection is marked closed.
Hopeless(t) == t \notin conn[call[t].gen].pending \/ Closed(call[t].gen)

Wake(t) ==
    /\ call[t].pc = "waiting"
    /\ Hopeless(t)
    /\ conn' = [conn EXCEPT ![call[t].gen].pending = @ \ {t}]
    /\ call' = [call EXCEPT ![t].pc = "failed"]
    /\ UNCHANGED <<daemon, prompt, loop, poll, user, slot, holder, cache, cards, reseeded>>

-----------------------------------------------------------------------------
(* The connection's reader. *)

\* The reader waits for room in the loop's channel, with the subscriptions'
\* lock held.
Blocked(g) ==
    /\ conn[g].reader = "reading" /\ conn[g].frames # <<>>
    /\ Head(conn[g].frames).kind = "changed"
    /\ conn[g].listens /\ Len(conn[g].told) = ChanCap

ReadReply(g) ==
    /\ conn[g].reader = "reading" /\ conn[g].frames # <<>>
    /\ LET f == Head(conn[g].frames) IN
        /\ f.kind = "reply"
        /\ conn' = [conn EXCEPT ![g].frames = Tail(@), ![g].pending = @ \ {f.task}]
        /\ IF f.task \in conn[g].pending
           THEN call' = [call EXCEPT ![f.task].pc = "answered"]
           ELSE UNCHANGED call
    /\ UNCHANGED <<daemon, prompt, loop, poll, user, slot, holder, cache, cards, reseeded>>

ReadChanged(g) ==
    /\ conn[g].reader = "reading" /\ conn[g].frames # <<>>
    /\ ~Blocked(g)
    /\ LET f == Head(conn[g].frames) IN
        /\ f.kind = "changed"
        /\ conn' = [conn EXCEPT ![g].frames = Tail(@),
                ![g].told = IF conn[g].listens THEN Append(@, f.version) ELSE @]
    /\ UNCHANGED <<daemon, prompt, call, loop, poll, user, slot, holder, cache, cards, reseeded>>

\* What was still on its way may be lost.
Stops(g) ==
    /\ conn[g].reader = "reading" /\ conn[g].pipe = "broken"
    /\ ~Blocked(g)
    /\ conn' = [conn EXCEPT ![g].reader = "stopped", ![g].pending = {}, ![g].frames = <<>>]
    /\ UNCHANGED <<daemon, prompt, call, loop, poll, user, slot, holder, cache, cards, reseeded>>

DropSubs(g) ==
    /\ conn[g].reader = "stopped"
    /\ conn' = [conn EXCEPT ![g].reader = "dropped", ![g].listens = FALSE]
    /\ UNCHANGED <<daemon, prompt, call, loop, poll, user, slot, holder, cache, cards, reseeded>>

MarkClosed(g) ==
    /\ conn[g].reader = "dropped"
    /\ conn' = [conn EXCEPT ![g].reader = "closed"]
    /\ UNCHANGED <<daemon, prompt, call, loop, poll, user, slot, holder, cache, cards, reseeded>>

Reader(g) == ReadReply(g) \/ ReadChanged(g) \/ Stops(g) \/ DropSubs(g) \/ MarkClosed(g)

-----------------------------------------------------------------------------
(* The daemon. *)

ReplyTo(m) ==
    CASE m = "list"    -> {daemon.version}
      [] m = "prompts" -> Open
      [] OTHER         -> {}

\* Each request is served by a task of its own.  A new subscription takes the
\* place of the connection's old one.
Serve(t) ==
    LET g == call[t].gen IN
    /\ call[t].gen # 0 /\ t \in conn[g].requests
    /\ conn' = [conn EXCEPT ![g].requests = @ \ {t}, ![g].served = @ \cup {t},
            ![g].subscribed = @ \/ call[t].method = "subscribe"]
    /\ call' = [call EXCEPT ![t].reply = ReplyTo(call[t].method)]
    /\ UNCHANGED <<daemon, prompt, loop, poll, user, slot, holder, cache, cards, reseeded>>

SendReply(t) ==
    LET g == call[t].gen IN
    /\ call[t].gen # 0 /\ t \in conn[g].served
    /\ conn' = [conn EXCEPT ![g].served = @ \ {t},
                            ![g].frames = Append(@, [kind |-> "reply", task |-> t])]
    /\ UNCHANGED <<daemon, prompt, call, loop, poll, user, slot, holder, cache, cards, reseeded>>

\* The window's commands, and the sessions themselves, change the list.  Whoever
\* did so reads it, before or after the next change, ...
Change ==
    /\ daemon.up /\ daemon.version < MaxVersion
    /\ LET fresh == Read(daemon.version + 1) IN
        \E later \in SUBSET DOMAIN daemon.read :
            daemon' = [daemon EXCEPT !.version = @ + 1,
                !.read = Append([i \in DOMAIN @ |-> IF i \in later THEN fresh ELSE @[i]],
                                fresh)]
    /\ UNCHANGED <<prompt, conn, call, loop, poll, user, slot, holder, cache, cards, reseeded>>

\* ... and then broadcasts what it has read; another may have overtaken it.  The
\* broadcast keeps what comes for a receiver that is behind; one that is too far
\* behind loses the older.  Here it keeps the last.
Publish ==
    \E i \in DOMAIN daemon.read :
        LET r == daemon.read[i]
            others == RemoveAt(daemon.read, i)
        IN
        /\ daemon' = [daemon EXCEPT !.read = [j \in DOMAIN others |->
                [others[j] EXCEPT !.overtaken = @ \/ others[j].version < r.version]]]
        /\ conn' = [g \in Conns |-> IF conn[g].subscribed
                THEN [conn[g] EXCEPT !.news = {r.version}, !.crossed = r.overtaken]
                ELSE conn[g]]
        /\ UNCHANGED <<prompt, call, loop, poll, user, slot, holder, cache, cards, reseeded>>

HasRoom(g) ==
    \/ "burst" \in Env
    \/ Len(conn[g].told) + Len(SelectSeq(conn[g].frames, LAMBDA f : f.kind = "changed"))
            < ChanCap

Forward(g) ==
    /\ conn[g].pipe = "open"
    /\ HasRoom(g)
    /\ \E v \in conn[g].news :
        conn' = [conn EXCEPT ![g].news = {},
                             ![g].frames = Append(@, [kind |-> "changed", version |-> v])]
    /\ UNCHANGED <<daemon, prompt, call, loop, poll, user, slot, holder, cache, cards, reseeded>>

Ask(p) ==
    /\ daemon.up /\ prompt[p] = "unasked"
    /\ prompt' = [prompt EXCEPT ![p] = "open"]
    /\ UNCHANGED <<daemon, conn, call, loop, poll, user, slot, holder, cache, cards, reseeded>>

\* Answered, on whichever device, timed out or expired.
Settle(p) ==
    /\ prompt[p] = "open"
    /\ prompt' = [prompt EXCEPT ![p] = "settled"]
    /\ UNCHANGED <<daemon, conn, call, loop, poll, user, slot, holder, cache, cards, reseeded>>

Broken(c) ==
    [c EXCEPT !.pipe = "broken", !.requests = {}, !.served = {},
              !.subscribed = FALSE, !.news = {}, !.crossed = FALSE]

\* The pipe breaks: also, serve_connection drops a request it has read in part
\* when a notification is ready, and then cannot make sense of the rest.
Break(g) ==
    /\ g < MaxConns
    /\ conn[g].pipe = "open"
    /\ conn' = [conn EXCEPT ![g] = Broken(@)]
    /\ UNCHANGED <<daemon, prompt, call, loop, poll, user, slot, holder, cache, cards, reseeded>>

\* Prompts are in memory only.
Die ==
    /\ loop.gen \in 1..(MaxConns - 1) /\ conn[loop.gen].pipe = "open"
    /\ daemon' = Idle(daemon.version)
    /\ conn' = [g \in Conns |-> IF conn[g].pipe = "open" THEN Broken(conn[g]) ELSE conn[g]]
    /\ prompt' = [p \in Prompts |-> IF p \in Open THEN "settled" ELSE prompt[p]]
    /\ UNCHANGED <<call, loop, poll, user, slot, holder, cache, cards, reseeded>>

-----------------------------------------------------------------------------
(* The link's loop. *)

\* ensure_daemon starts the daemon, which restores its list.
StartDaemon ==
    /\ loop.pc = "connecting" /\ ~daemon.up
    /\ daemon' = [daemon EXCEPT !.up = TRUE]
    /\ UNCHANGED <<prompt, conn, call, loop, poll, user, slot, holder, cache, cards, reseeded>>

\* Nobody calls on the old connection any more, so what its reader has yet to do
\* is left out.
Connect ==
    /\ loop.pc = "connecting" /\ daemon.up
    /\ loop.gen < MaxConns
    /\ LET g == loop.gen + 1 IN
        /\ conn' = [h \in Conns |-> IF h = g THEN NewConn ELSE Unused]
        /\ loop' = [loop EXCEPT !.pc = "push", !.gen = g]
        /\ Begin("loop", g, "push")
    /\ UNCHANGED <<daemon, prompt, poll, user, slot, holder, cache, cards, reseeded>>

\* Mutant: the list is asked for before the subscription.
FollowingSeedFirst == [push |-> "list", list |-> "subscribe", subscribe |-> "install"]

\* The calls a new connection begins with, each with what comes after it.
Following == [push |-> "subscribe", subscribe |-> "list", list |-> "install"]

\* The list that a call has brought.
ListOf(t) == CHOOSE v \in call[t].reply : TRUE

\* store_cached_instances
Store(t, v) == cache' = v /\ reseeded' = (t \in Users)

\* Without a subscription the loop connects anew; that the settings did not
\* reach the daemon, or no list came, is let pass.  The subscription's sender is
\* in place before the daemon is asked for it.
Proceed ==
    /\ loop.pc \in DOMAIN Following /\ Over("loop")
    /\ LET g == loop.gen
           next == Following[loop.pc]
           gaveUp == loop.pc = "subscribe" /\ ~Answered("loop")
       IN
        /\ loop' = [loop EXCEPT !.pc = IF gaveUp THEN "connecting" ELSE next]
        /\ IF gaveUp \/ next = "install" THEN Return("loop") ELSE Begin("loop", g, next)
        /\ IF next = "subscribe"
           THEN conn' = [conn EXCEPT ![g].listens = TRUE]
           ELSE UNCHANGED conn
    /\ IF loop.pc = "list" /\ Answered("loop")
       THEN Store("loop", ListOf("loop")) ELSE UNCHANGED <<cache, reseeded>>
    /\ UNCHANGED <<daemon, prompt, poll, user, slot, holder, cards>>

Install ==
    /\ loop.pc = "install" /\ holder = Nobody
    /\ slot' = loop.gen
    /\ loop' = [loop EXCEPT !.pc = "pump"]
    /\ UNCHANGED <<daemon, prompt, conn, call, poll, user, holder, cache, cards, reseeded>>

\* handle_instances_changed: if the app is attached to sessions that have ended
\* it detaches from them before it stores the list.
TakeNews ==
    /\ loop.pc = "pump" /\ conn[loop.gen].told # <<>>
    /\ LET v == Head(conn[loop.gen].told) IN
        \/ Store("loop", v) /\ UNCHANGED loop
        \/ /\ loop' = [loop EXCEPT !.pc = "locking", !.news = v]
           /\ UNCHANGED <<cache, reseeded>>
    /\ conn' = [conn EXCEPT ![loop.gen].told = Tail(@)]
    /\ UNCHANGED <<daemon, prompt, call, poll, user, slot, holder, cards>>

Detach ==
    /\ loop.pc = "locking" /\ holder = Nobody
    /\ ~Blocked(slot)
    /\ holder' = "loop"
    /\ loop' = [loop EXCEPT !.pc = "detaching"]
    /\ Begin("loop", slot, "detach")
    /\ UNCHANGED <<daemon, prompt, conn, poll, user, slot, cache, cards, reseeded>>

Detached ==
    /\ loop.pc = "detaching" /\ Over("loop")
    /\ Return("loop")
    /\ holder' = Nobody
    /\ Store("loop", loop.news)
    /\ loop' = [loop EXCEPT !.pc = "pump", !.news = 0]
    /\ UNCHANGED <<daemon, prompt, conn, poll, user, slot, cards>>

\* The subscription has ended.
Lose ==
    /\ loop.pc = "pump" /\ conn[loop.gen].told = <<>> /\ ~conn[loop.gen].listens
    /\ holder = Nobody
    /\ slot' = 0
    /\ loop' = [loop EXCEPT !.pc = "connecting"]
    /\ UNCHANGED <<daemon, prompt, conn, call, poll, user, holder, cache, cards, reseeded>>

-----------------------------------------------------------------------------
(* The poll for open prompts, and the window. *)

PollBegins ==
    /\ poll.pc = "asleep" /\ holder = Nobody
    /\ slot # 0
    /\ holder' = "poll"
    /\ poll' = [poll EXCEPT !.pc = "polling"]
    /\ Begin("poll", slot, "prompts")
    /\ UNCHANGED <<daemon, prompt, conn, loop, user, slot, cache, cards, reseeded>>

PollFindsNoClient ==
    /\ poll.pc = "asleep" /\ holder = Nobody
    /\ slot = 0
    /\ poll.wasConnected
    /\ poll' = [poll EXCEPT !.wasConnected = FALSE]
    /\ UNCHANGED <<daemon, prompt, conn, call, loop, user, slot, holder, cache, cards, reseeded>>

\* Mutant: a reconnection forgets nothing.
RememberedForEver == poll.emitted

\* What has been shown on this connection.
Remembered == IF poll.wasConnected THEN poll.emitted ELSE {}

\* The window is told once of each prompt, and when one is no longer open.
PollEnds ==
    /\ poll.pc = "polling" /\ Over("poll")
    /\ LET present == call["poll"].reply IN
        IF Answered("poll")
        THEN /\ cards' = (cards \cup (present \ Remembered)) \ (Remembered \ present)
             /\ poll' = [pc |-> "asleep", emitted |-> present, wasConnected |-> TRUE]
        ELSE /\ poll' = [pc |-> "asleep", emitted |-> Remembered, wasConnected |-> TRUE]
             /\ UNCHANGED cards
    /\ Return("poll")
    /\ holder' = Nobody
    /\ UNCHANGED <<daemon, prompt, conn, loop, user, slot, cache, reseeded>>

\* The window loses its cards "when the app was away".
CardsVanish ==
    /\ ~poll.wasConnected /\ cards # {}
    /\ cards' = {}
    /\ UNCHANGED <<daemon, prompt, conn, call, loop, poll, user, slot, holder, cache, reseeded>>

-----------------------------------------------------------------------------
(* The window's commands. *)

Command(u) ==
    /\ user[u] = "idle" /\ holder = Nobody
    /\ slot # 0
    /\ holder' = u
    /\ user' = [user EXCEPT ![u] = "calling"]
    /\ Begin(u, slot, "command")
    /\ UNCHANGED <<daemon, prompt, conn, loop, poll, slot, cache, cards, reseeded>>

CommandEnds(u) ==
    /\ user[u] = "calling" /\ Over(u)
    /\ Return(u)
    /\ holder' = Nobody
    /\ user' = [user EXCEPT ![u] = "idle"]
    /\ UNCHANGED <<daemon, prompt, conn, loop, poll, slot, cache, cards, reseeded>>

\* run.rs: a command that has changed the list asks for it at once.
Reseed(u) ==
    /\ user[u] = "calling" /\ Answered(u)
    /\ user' = [user EXCEPT ![u] = "reseeding"]
    /\ Begin(u, call[u].gen, "list")
    /\ UNCHANGED <<daemon, prompt, conn, loop, poll, slot, holder, cache, cards, reseeded>>

ReseedEnds(u) ==
    /\ user[u] = "reseeding" /\ Over(u)
    /\ IF Answered(u) THEN Store(u, ListOf(u)) ELSE UNCHANGED <<cache, reseeded>>
    /\ Return(u)
    /\ holder' = Nobody
    /\ user' = [user EXCEPT ![u] = "idle"]
    /\ UNCHANGED <<daemon, prompt, conn, loop, poll, slot, cards>>

-----------------------------------------------------------------------------

Calling(t) == Write(t) \/ Wake(t) \/ Serve(t) \/ SendReply(t)

LoopTakesLock == Install \/ Detach \/ Lose

Looping == Connect \/ Proceed \/ TakeNews \/ Detached

Commanding(u) == Reseed(u) \/ CommandEnds(u) \/ ReseedEnds(u)

Next ==
    \/ \E t \in Tasks : Calling(t)
    \/ \E g \in Conns : Reader(g) \/ Forward(g) \/ Break(g)
    \/ Change \/ Publish \/ Die \/ StartDaemon
    \/ \E p \in Prompts : Ask(p) \/ Settle(p)
    \/ Looping \/ LoopTakesLock
    \/ PollBegins \/ PollFindsNoClient \/ PollEnds \/ CardsVanish
    \/ \E u \in Users : Command(u) \/ Commanding(u)

\* The runtime runs every task that is ready, and the slot's mutex is handed on
\* in the order of asking.  A call is either the app's turn or the daemon's, so
\* that its steps are one task.
Fairness ==
    /\ WF_vars(Calling("loop") \/ Looping)
    /\ WF_vars(Calling("poll") \/ PollEnds)
    /\ \A u \in Users : WF_vars(Calling(u) \/ Commanding(u))
    /\ \A g \in Conns : WF_vars(Reader(g))
    /\ WF_vars(Publish \/ StartDaemon \/ \E g \in Conns : Forward(g))
    /\ SF_vars(LoopTakesLock) /\ SF_vars(PollBegins)

Spec == Init /\ [][Next]_vars

FairSpec == Spec /\ Fairness

-----------------------------------------------------------------------------
(* Properties *)

TypeOK ==
    /\ daemon \in [up : BOOLEAN, version : Versions,
                   read : Seq([version : Versions, overtaken : BOOLEAN])]
    /\ prompt \in [Prompts -> {"unasked", "open", "settled"}]
    /\ \A g \in Conns :
        /\ conn[g].pipe \in {"none", "open", "broken"}
        /\ conn[g].reader \in {"none", "reading", "stopped", "dropped", "closed"}
        /\ conn[g].pending \subseteq Tasks
        /\ conn[g].requests \cup conn[g].served \subseteq Tasks
    /\ \A t \in Tasks :
        call[t].pc \in {"none", "writing", "waiting", "answered", "failed"}
    /\ slot \in 0..MaxConns /\ holder \in Tasks \cup {Nobody}
    /\ cache \in Versions /\ reseeded \in BOOLEAN /\ cards \subseteq Prompts

\* daemon_client/mod.rs: a connection cannot wedge; whenever its pipe dies, the
\* calls on it return.  As the slot's mutex lets one task call at a time, that is
\* to say that again and again no call is under way.
CallsReturn == []<>(\A t \in Tasks : call[t].pc \notin {"writing", "waiting"})

Crossed == \E g \in Conns : g = loop.gen /\ conn[g].crossed

\* Again and again the app's list is the daemon's, whatever notifications were
\* lost and however often the daemon has died and the link was rebuilt; but for
\* what a command has stored, until the loop stores the next list, and where of
\* two publishers the one that read the older list broadcast last.
CacheFollows ==
    []<>(cache = daemon.version \/ reseeded \/ Crossed)

\* Again and again the window shows every open prompt, also after the app was
\* away, and none that is settled, of those it was told of since the poll last
\* found a client.
CardsFollow == []<>(Open \subseteq cards /\ cards \cap Remembered \subseteq Open)
=================================================================================
