-------------------------------- MODULE Prompts --------------------------------
(***************************************************************************)
(* The prompts of one chat session: permission requests and questions that *)
(* a hook of the claude CLI brings to the daemon.  The hook's HTTP handler *)
(* blocks until the user answers, the prompt times out or its sender is    *)
(* dropped; a question of the AskUserQuestion tool instead leaves a        *)
(* durable card and returns at once.                                       *)
(*                                                                         *)
(* A handler leaves a one-shot sender (pending) and a card (listed), which *)
(* the windows poll for, and wakes the Jarvis whose worker the session is, *)
(* which may take a while.  Cards and senders are settled by whoever       *)
(* answers, by the handler, by the pump at the child's end of file and by  *)
(* cancel_turn.  When a child dies its handlers are dropped wherever they  *)
(* await.                                                                  *)
(***************************************************************************)
EXTENDS Naturals

CONSTANTS
    Permissions, \* on_permission_request
    Questions,   \* on_question_request
    Cards,       \* ask_question_decision
    Env,         \* what the environment may do, see EnvChoices
    MaxLives     \* bound: children of the session

(* "hasty"  a question may be answered before its handler has marked the row
   "early"  a child may die, or its turn be cancelled, while a hook of its is
            not yet waiting
   "quick"  a child may ask while prompts are being expired, those of its
            last turn or of the child before it                             *)
EnvChoices == {"hasty", "early", "quick"}

ASSUME ConstantsAssumption ==
    /\ Permissions \cap (Questions \cup Cards) = {}
    /\ Questions \cap Cards = {}
    /\ Env \subseteq EnvChoices
    /\ MaxLives \in Nat \ {0}

Requests == Permissions \cup Questions \cup Cards

\* Those that mark the row "question".
Asking == Questions \cup Cards

VARIABLES
    hook,     \* the handlers
    reply,    \* answer: what the one-shot channel holds
    pending,  \* the senders
    listed,   \* the cards
    resp,     \* the responders
    expire,   \* the two that expire prompts: the pump and cancel_turn
    awaiting, \* the row's: "question", or "none" for whatever else
    life,     \* the child
    born,     \* history: the child that asked
    reported  \* history: a turn's end was the last to write "question"

vars == <<hook, reply, pending, listed, resp, expire, awaiting, life, born, reported>>

PCs == {"unasked", "registered", "waking", "waiting", "gaveUp", "settling",
        "done", "gone"}

Expirers == {"pump", "cancel"}

ExpireType == [pc : {"idle", "records", "senders", "row"}, ids : SUBSET Requests]

Init ==
    /\ hook = [r \in Requests |-> "unasked"]
    /\ reply = [r \in Requests |-> FALSE]
    /\ pending = {}
    /\ listed = {}
    /\ resp = [r \in Requests |-> "no"]
    /\ expire = [e \in Expirers |-> [pc |-> "idle", ids |-> {}]]
    /\ awaiting = "none"
    /\ life = [n |-> 1, up |-> TRUE]
    /\ born = [r \in Requests |-> 0]
    /\ reported = FALSE

At(r, pc) == hook[r] = pc

Goto(r, pc) == hook' = [hook EXCEPT ![r] = pc]

\* clear_awaiting_if_question leaves other values alone.
Cleared == "none"

Dead(r) == born[r] < life.n \/ ~life.up

\* The handler has begun and not yet got to its wait.
Arriving(r) == hook[r] \in {"registered", "waking"}

Running(r) == hook[r] \notin {"unasked", "done", "gone"}

-----------------------------------------------------------------------------
(* The handlers *)

\* A hook's request comes in: the sender is registered.
Ask(r) ==
    /\ At(r, "unasked") /\ life.up
    /\ "quick" \in Env \/ \A e \in Expirers : expire[e].pc = "idle"
    /\ pending' = IF r \in Cards THEN pending ELSE pending \cup {r}
    /\ born' = [born EXCEPT ![r] = life.n]
    /\ Goto(r, "registered")
    /\ UNCHANGED <<reply, listed, resp, expire, awaiting, life, reported>>

AddPrompt(r) ==
    /\ At(r, "registered")
    /\ listed' = listed \cup {r}
    /\ Goto(r, "waking")
    /\ UNCHANGED <<reply, pending, resp, expire, awaiting, life, born, reported>>

\* The Jarvis has been woken; a question marks the row.  A handler of a
\* durable card returns.
Woken(r) ==
    /\ At(r, "waking")
    /\ awaiting' = IF r \in Asking THEN "question" ELSE awaiting
    /\ reported' = (reported /\ r \notin Asking)
    /\ Goto(r, IF r \in Cards THEN "done" ELSE "waiting")
    /\ UNCHANGED <<reply, pending, listed, resp, expire, life, born>>

Answered(r) ==
    /\ At(r, "waiting") /\ reply[r]
    /\ reply' = [reply EXCEPT ![r] = FALSE]
    /\ Goto(r, "settling")
    /\ UNCHANGED <<pending, listed, resp, expire, awaiting, life, born, reported>>

\* The time is over, or the sender was dropped; both leave no answer.
GivesUp(r) ==
    /\ At(r, "waiting") /\ ~reply[r]
    /\ Goto(r, "gaveUp")
    /\ UNCHANGED <<reply, pending, listed, resp, expire, awaiting, life, born, reported>>

DropSender(r) ==
    /\ At(r, "gaveUp")
    /\ pending' = pending \ {r}
    /\ Goto(r, "settling")
    /\ UNCHANGED <<reply, listed, resp, expire, awaiting, life, born, reported>>

\* Mutant: the card is left to whoever answers.
SettleHalf(r) ==
    /\ At(r, "settling")
    /\ awaiting' = IF r \in Questions THEN Cleared ELSE awaiting
    /\ Goto(r, "done")
    /\ UNCHANGED <<reply, pending, listed, resp, expire, life, born, reported>>

\* The card is removed, a question clears the row, the hook gets its response.
Settle(r) ==
    /\ At(r, "settling")
    /\ listed' = listed \ {r}
    /\ awaiting' = IF r \in Questions THEN Cleared ELSE awaiting
    /\ Goto(r, "done")
    /\ UNCHANGED <<reply, pending, resp, expire, life, born, reported>>

\* The hook's curl died with the child, and the handler is dropped.
Gone(r) ==
    /\ Running(r) /\ Dead(r)
    /\ reply' = [reply EXCEPT ![r] = FALSE]
    /\ Goto(r, "gone")
    /\ UNCHANGED <<pending, listed, resp, expire, awaiting, life, born, reported>>

-----------------------------------------------------------------------------
(* The responders.  A window may show a card that is gone, but an answer to
   it changes nothing unless its sender is still there. *)

\* The receiver is there to take an answer.
Receives(r) == Arriving(r) \/ At(r, "waiting")

\* respond_permission, respond_question: the sender is taken and used.
Respond(r) ==
    /\ resp[r] = "no" /\ ~At(r, "registered") /\ r \in pending \cup listed
    /\ "hasty" \in Env \/ r \notin Asking \/ ~Arriving(r)
    /\ reply' = [reply EXCEPT ![r] = r \in pending /\ Receives(r)]
    /\ pending' = pending \ {r}
    /\ resp' = [resp EXCEPT ![r] = "took"]
    /\ UNCHANGED <<hook, listed, expire, awaiting, life, born, reported>>

\* settle_prompt looks up whose prompt it was.
LooksUp(r) ==
    /\ resp[r] = "took"
    /\ resp' = [resp EXCEPT ![r] = IF r \in listed THEN "found" ELSE "lost"]
    /\ UNCHANGED <<hook, reply, pending, listed, expire, awaiting, life, born, reported>>

\* Mutant: the row is left to the handler, which a durable card has not.
SettlesRowless(r) == FALSE

\* A question whose session was found clears the row.
SettlesRow(r) == r \in Asking /\ resp[r] = "found"

Settles(r) ==
    /\ resp[r] \in {"found", "lost"}
    /\ listed' = listed \ {r}
    /\ awaiting' = IF SettlesRow(r) THEN Cleared ELSE awaiting
    /\ resp' = [resp EXCEPT ![r] = "answered"]
    /\ UNCHANGED <<hook, reply, pending, expire, life, born, reported>>

-----------------------------------------------------------------------------
(* Expiry: the pump's at the end of file, and cancel_turn's *)

\* Durable cards outlive the turn.
Expirable == listed \ Cards

ExpireRecords(e) ==
    /\ expire[e].pc = "records"
    /\ listed' = listed \ Expirable
    /\ expire' = [expire EXCEPT ![e] =
                     [pc |-> IF Expirable = {} THEN "idle" ELSE "senders",
                      ids |-> Expirable]]
    /\ UNCHANGED <<hook, reply, pending, resp, awaiting, life, born, reported>>

\* Mutant: the senders stay.
ExpireNoSenders(e) ==
    /\ expire[e].pc = "senders"
    /\ expire' = [expire EXCEPT ![e] =
                     [pc |-> IF e = "pump" THEN "row" ELSE "idle", ids |-> {}]]
    /\ UNCHANGED <<hook, reply, pending, listed, resp, awaiting, life, born, reported>>

ExpireSenders(e) ==
    /\ expire[e].pc = "senders"
    /\ pending' = pending \ expire[e].ids
    /\ expire' = [expire EXCEPT ![e] =
                     [pc |-> IF e = "pump" THEN "row" ELSE "idle", ids |-> {}]]
    /\ UNCHANGED <<hook, reply, listed, resp, awaiting, life, born, reported>>

\* Something had expired, so the row cannot await an answer to it.
ExpireRow ==
    /\ expire["pump"].pc = "row"
    /\ awaiting' = Cleared
    /\ expire' = [expire EXCEPT !["pump"].pc = "idle"]
    /\ UNCHANGED <<hook, reply, pending, listed, resp, life, born, reported>>

MayStop == "early" \in Env \/ \A r \in Requests : Arriving(r) => Dead(r)

\* cancel_turn clears awaiting and expires the prompts.
CancelTurn ==
    /\ life.up /\ expire["cancel"].pc = "idle" /\ MayStop
    /\ awaiting' = "none"
    /\ expire' = [expire EXCEPT !["cancel"].pc = "records"]
    /\ UNCHANGED <<hook, reply, pending, listed, resp, life, born, reported>>

ChildDies ==
    /\ life.up /\ expire["pump"].pc = "idle"
    /\ MayStop
    /\ life' = [life EXCEPT !.up = FALSE]
    /\ expire' = [expire EXCEPT !["pump"].pc = "records"]
    /\ UNCHANGED <<hook, reply, pending, listed, resp, awaiting, born, reported>>

Respawn ==
    /\ ~life.up /\ life.n < MaxLives
    /\ life' = [n |-> life.n + 1, up |-> TRUE]
    /\ UNCHANGED <<hook, reply, pending, listed, resp, expire, awaiting, born, reported>>

\* A prompt is sent.
SendMessage ==
    /\ awaiting = "question" /\ awaiting' = "none"
    /\ UNCHANGED <<hook, reply, pending, listed, resp, expire, life, born, reported>>

\* A turn ends, by itself or interrupted around its hooks.  The status it ends
\* with may be "question", the very value a question's handler writes.
TurnEnds ==
    /\ life.up
    /\ awaiting' \in {"none", "question"}
    /\ reported' = (awaiting' = "question")
    /\ UNCHANGED <<hook, reply, pending, listed, resp, expire, life, born>>

-----------------------------------------------------------------------------

HookNext(r) ==
    \/ AddPrompt(r) \/ Woken(r) \/ Answered(r) \/ GivesUp(r) \/ DropSender(r)
    \/ Settle(r) \/ Gone(r)

RespNext(r) == LooksUp(r) \/ Settles(r)

ExpireNext(e) == ExpireRecords(e) \/ ExpireSenders(e)

Next ==
    \/ \E r \in Requests : Ask(r) \/ HookNext(r) \/ Respond(r) \/ RespNext(r)
    \/ \E e \in Expirers : ExpireNext(e)
    \/ ExpireRow \/ CancelTurn \/ ChildDies \/ Respawn \/ SendMessage \/ TurnEnds

Spec == Init /\ [][Next]_vars

-----------------------------------------------------------------------------
(* Properties *)

TypeOK ==
    /\ hook \in [Requests -> PCs]
    /\ reply \in [Requests -> BOOLEAN]
    /\ pending \subseteq Requests
    /\ listed \subseteq Requests
    /\ resp \in [Requests -> {"no", "took", "found", "lost", "answered"}]
    /\ expire \in [Expirers -> ExpireType]
    /\ awaiting \in {"none", "question"}
    /\ life \in [n : Nat, up : BOOLEAN]
    /\ born \in [Requests -> Nat]
    /\ reported \in BOOLEAN

Expiring(r) == \E e \in Expirers : expire[e].pc = "senders" /\ r \in expire[e].ids

\* Whoever waits for an answer has a card by which to answer, or is about to
\* be told that there will be none.
WaiterHasCard ==
    \A r \in Requests :
        At(r, "waiting") /\ r \in pending => r \in listed \/ Expiring(r)

Quiet ==
    /\ \A r \in Requests : ~Running(r) /\ resp[r] \in {"no", "answered"}
    /\ \A e \in Expirers : expire[e].pc = "idle"

\* Once a session has come to rest only durable cards that nobody has
\* answered are left, and no sender at all.
NoGhosts ==
    Quiet => /\ listed \subseteq {r \in Cards : resp[r] = "no"}
             /\ pending = {}

\* The handler of a question that has lost its card goes on to clear the row.
WillClear(r) ==
    /\ ~Dead(r)
    /\ hook[r] \in {"gaveUp", "settling"} \/ (At(r, "waiting") /\ r \notin listed)

\* "Input needed" is shown only while there is a question to answer, or
\* somebody is about to take the mark back, or a turn has ended with it.
InputNeededHasQuestion ==
    awaiting = "question" =>
        \/ reported
        \/ listed \cap Asking # {}
        \/ \E r \in Questions : WillClear(r)
        \/ expire["pump"].pc \in {"senders", "row"}

\* state.rs:163: a durable card is removed by its answer only.
CardsStay ==
    [][\A r \in Cards \cap listed : r \in listed' \/ resp'[r] = "answered"]_vars
================================================================================
