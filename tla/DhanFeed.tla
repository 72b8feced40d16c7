---- MODULE DhanFeed ----
(***************************************************************************)
(* The live feed of core/feeds/dhan_feed.py with its simulated stand-in    *)
(* (core/feeds/simulated_feed.py).                                         *)
(*                                                                         *)
(* Three things run: start() on the event loop, which resolves the         *)
(* instruments and launches the feed's thread; the thread, which connects, *)
(* subscribes, receives and reconnects; and the HTTP routes on the event   *)
(* loop, which add and remove symbols while the thread is anywhere.        *)
(* Between two awaits each of them is one action.  The exchange and the    *)
(* network are the environment: a connection is accepted or refused, lives *)
(* or is dropped, and serves the symbols it received a subscription for.   *)
(*                                                                         *)
(* Left out: prices and volumes, the per-symbol counters the scanner shows, *)
(* the back-off's length, the REST check of the credentials (it only logs). *)
(* A symbol stands for its security id: a second contract under the same   *)
(* name, which the code would register beside the first, is left out.      *)
(***************************************************************************)
EXTENDS ScripMaster

CONSTANTS
    Extra,          \* symbols only the user can add
    MaxFastFails,   \* _MAX_FAST_FAILS
    NoSymbol

Configured == Equities \cup Futures
Symbols == Configured \cup Extra

ASSUME FeedAssumption ==
    /\ MaxFastFails \in Nat \ {0}
    /\ SearchLimit \in Nat \ {0}
    /\ Static \subseteq Equities
    /\ Equities \cap Futures = {}
    /\ NoSymbol \notin Symbols

VARIABLES
    running,        \* _running
    stage,          \* where start() is
    contract,       \* the resolved instrument map
    ids,            \* _id_to_sym: the symbols whose ticks are passed on
    subs,           \* _sub_list: the symbols a new connection subscribes to
    all,            \* _all_symbols: the symbols shown to the user
    got_ticks,      \* ticks_received > 0
    thread,         \* where the feed's thread is
    current_ws,     \* _current_ws is set
    thread_loop,    \* _thread_loop is set
    connect_ok,     \* binary data came on this connection
    fast_fails,
    to_send,        \* the subscription message the thread is about to send
    in_hand,        \* the symbol of the tick the thread is passing on
    alive,          \* the connection is up (environment)
    served,         \* the symbols the exchange serves on it (environment)
    sending,        \* additions whose message has not left yet
    adding,         \* the addition the event loop is blocked on, or NoSymbol
    early,          \* history: additions answered with success before start() had its map
    late,           \* history: additions answered with success since
    sim,            \* the stand-in: "off", "posted", "running", "dead"
    sim_priced      \* its symbols when it started

startVars == <<stage, contract>>
bookVars == <<ids, subs, all>>
threadVars == <<thread, current_ws, thread_loop, connect_ok, fast_fails, to_send, in_hand>>
linkVars == <<alive, served>>
addVars == <<sending, adding, early, late>>
simVars == <<sim, sim_priced>>
feedVars == <<running, startVars, bookVars, got_ticks, threadVars, linkVars, addVars, simVars>>
vars == <<masterVars, feedVars>>

Stages == {"waiting", "resolving", "checking", "checked", "watching", "simulating"}
ThreadStates == {"none", "connecting", "greeting", "subscribing", "receiving", "ticking",
                 "sleeping", "ending", "ended"}

\* The event loop runs one thing at a time and stands still while an addition waits for its
\* message to be sent.
LoopFree == adding = NoSymbol

----------------------------------------------------------------------------
\* start()

\* Up to 45 s for the instrument list; then on with whatever there is.
StopWaiting ==
    /\ LoopFree /\ stage = "waiting"
    /\ stage' = "resolving"
    /\ UNCHANGED <<masterVars, running, contract, bookVars, got_ticks, threadVars, linkVars,
                   addVars, simVars>>

\* The map replaces what was registered: a symbol added while start() waited or resolved is
\* forgotten unless it is in the map, though it was answered with success and stays in all.
Resolve ==
    /\ LoopFree /\ stage = "resolving"
    /\ \E reached \in SUBSET Futures :
        LET map == InstrumentMap(reached) IN
        /\ contract' = map
        /\ IF map = <<>>
           THEN /\ stage' = "simulating"
                /\ sim' = "running" /\ sim_priced' = all
                /\ UNCHANGED <<ids, subs>>
           ELSE /\ stage' = "checking"
                /\ ids' = DOMAIN map /\ subs' = DOMAIN map
                /\ UNCHANGED simVars
    /\ UNCHANGED <<masterVars, running, all, got_ticks, threadVars, linkVars, addVars>>

\* The credentials are checked in a thread of the pool; whatever the answer, it is only logged.
Preflight ==
    /\ stage = "checking"
    /\ stage' = "checked"
    /\ UNCHANGED <<masterVars, running, contract, bookVars, got_ticks, threadVars, linkVars,
                   addVars, simVars>>

Launch ==
    /\ LoopFree /\ stage = "checked"
    /\ stage' = "watching"
    /\ thread' = IF running THEN "connecting" ELSE "ending"
    /\ thread_loop' = TRUE
    /\ UNCHANGED <<masterVars, running, contract, bookVars, got_ticks, current_ws, connect_ok,
                   fast_fails, to_send, in_hand, linkVars, addVars, simVars>>

----------------------------------------------------------------------------
\* The thread

\* A fault: one more instant disconnect is allowed.
NextRound_OffByOne(fails) ==
    /\ thread' = IF ~running \/ fails > MaxFastFails THEN "ending" ELSE "sleeping"
    /\ fast_fails' = fails

\* The end of one round of the connection loop: leave when stopped or after too many
\* instant disconnects, else sleep and try again.
NextRound(fails) ==
    /\ thread' = IF ~running \/ fails >= MaxFastFails THEN "ending" ELSE "sleeping"
    /\ fast_fails' = fails

Connected ==
    /\ thread = "connecting"
    /\ thread' = "greeting"
    /\ current_ws' = TRUE /\ connect_ok' = FALSE
    /\ alive' = TRUE /\ served' = {}
    /\ UNCHANGED <<masterVars, running, startVars, bookVars, got_ticks, thread_loop, fast_fails,
                   to_send, in_hand, addVars, simVars>>

\* No connection, no instant disconnect: a refused connection is not counted.
Refused ==
    /\ thread = "connecting"
    /\ NextRound(fast_fails)
    /\ connect_ok' = FALSE
    /\ UNCHANGED <<masterVars, running, startVars, bookVars, got_ticks, current_ws, thread_loop,
                   to_send, in_hand, linkVars, addVars, simVars>>

\* The first message, or a second without one; either way it is dropped and the
\* subscription list is built from what is registered now.
Greeted ==
    /\ thread = "greeting" /\ alive
    /\ thread' = "subscribing" /\ to_send' = subs
    /\ UNCHANGED <<masterVars, running, startVars, bookVars, got_ticks, current_ws, thread_loop,
                   connect_ok, fast_fails, in_hand, linkVars, addVars, simVars>>

Subscribed ==
    /\ thread = "subscribing" /\ alive
    /\ served' = served \cup to_send /\ to_send' = {}
    /\ thread' = IF running THEN "receiving" ELSE "ending"
    /\ current_ws' = running
    /\ alive' = running
    /\ sending' = IF running THEN sending ELSE {}
    /\ UNCHANGED <<masterVars, running, startVars, bookVars, got_ticks, thread_loop,
                   connect_ok, fast_fails, in_hand, adding, early, late, simVars>>

\* Leaving the receive loop after a stop closes the connection.
AfterMessage ==
    /\ thread' = IF running THEN "receiving" ELSE "ending"
    /\ current_ws' = running
    /\ alive' = (alive /\ running)
    /\ sending' = IF running THEN sending ELSE {}

\* A tick: its symbol is looked up here and passed on in the next step.
Received(s) ==
    /\ thread = "receiving" /\ alive /\ s \in served \cap ids
    /\ thread' = "ticking" /\ in_hand' = s
    /\ connect_ok' = TRUE /\ fast_fails' = 0
    /\ UNCHANGED <<masterVars, running, startVars, bookVars, got_ticks, current_ws, thread_loop,
                   to_send, linkVars, addVars, simVars>>

\* Binary data that is no tick of a registered symbol: the tick of a removed one, or the
\* server's notice that it is about to disconnect.  It counts as data all the same.
ReceivedOther ==
    /\ thread = "receiving" /\ alive
    /\ connect_ok' = TRUE /\ fast_fails' = 0
    /\ AfterMessage
    /\ UNCHANGED <<masterVars, running, startVars, bookVars, got_ticks, thread_loop, to_send,
                   in_hand, served, adding, early, late, simVars>>

\* 30 s of silence, or a text message: only the loop's condition is looked at.
ReceivedNothing ==
    /\ thread = "receiving" /\ alive /\ ~running
    /\ AfterMessage
    /\ UNCHANGED <<masterVars, running, startVars, bookVars, got_ticks, thread_loop, connect_ok,
                   fast_fails, to_send, in_hand, served, adding, early, late, simVars>>

PassOn ==
    /\ thread = "ticking"
    /\ got_ticks' = TRUE
    /\ in_hand' = NoSymbol
    /\ AfterMessage
    /\ UNCHANGED <<masterVars, running, startVars, bookVars, thread_loop, connect_ok, fast_fails,
                   to_send, served, adding, early, late, simVars>>

\* The connection raises: messages still to be sent on it raise as well.
Disconnected ==
    /\ thread \in {"greeting", "subscribing", "receiving"} /\ ~alive
    /\ current_ws' = FALSE /\ to_send' = {} /\ sending' = {}
    /\ \E instant \in BOOLEAN :
        NextRound(IF instant /\ ~connect_ok THEN fast_fails + 1 ELSE fast_fails)
    /\ UNCHANGED <<masterVars, running, startVars, bookVars, got_ticks, thread_loop, connect_ok,
                   in_hand, linkVars, adding, early, late, simVars>>

Retry ==
    /\ thread = "sleeping"
    /\ thread' = IF running THEN "connecting" ELSE "ending"
    /\ UNCHANGED <<masterVars, running, startVars, bookVars, got_ticks, current_ws, thread_loop,
                   connect_ok, fast_fails, to_send, in_hand, linkVars, addVars, simVars>>

\* A fault: the stand-in takes over whenever the thread ends.
FallsBack_Always == running

\* Only a feed that never passed on a tick is replaced by the stand-in.
FallsBack == running /\ ~got_ticks

ThreadExits ==
    /\ thread = "ending"
    /\ thread' = "ended" /\ thread_loop' = FALSE
    /\ sim' = IF FallsBack THEN "posted" ELSE sim
    /\ UNCHANGED <<masterVars, running, startVars, bookVars, got_ticks, current_ws, connect_ok,
                   fast_fails, to_send, in_hand, linkVars, addVars, sim_priced>>

----------------------------------------------------------------------------
\* The stand-in, on the event loop

\* A fault: the stand-in is thought to be for a feed without instruments only.
StartSim_OnlyUnresolved ==
    /\ LoopFree /\ sim = "posted" /\ contract = <<>>
    /\ sim' = "running" /\ sim_priced' = all
    /\ UNCHANGED <<masterVars, running, startVars, bookVars, got_ticks, threadVars, linkVars, addVars>>

StartSim ==
    /\ LoopFree /\ sim = "posted"
    /\ sim' = "running" /\ sim_priced' = all
    /\ UNCHANGED <<masterVars, running, startVars, bookVars, got_ticks, threadVars, linkVars, addVars>>

\* One round over the symbols: it shares the feed's list, so a symbol added since it
\* started has no price and the look-up ends it.
SimRound ==
    /\ LoopFree /\ sim = "running"
    /\ sim' = IF all \subseteq sim_priced THEN "running" ELSE "dead"
    /\ UNCHANGED <<masterVars, running, startVars, bookVars, got_ticks, threadVars, linkVars, addVars, sim_priced>>

----------------------------------------------------------------------------
\* The routes, on the event loop

\* A fault: an addition sends its own message only once ticks can be received.
Sendable_Late == thread = "receiving"

\* Whether an addition sends its own message, or leaves it to the next connection.
Sendable == current_ws /\ thread_loop

\* An addition is answered with success.
Accept(s) ==
    IF stage \in {"waiting", "resolving"}
    THEN early' = early \cup {s} /\ UNCHANGED late
    ELSE late' = late \cup {s} /\ early' = early \ {s}

\* add_instrument up to the point where it blocks.  A registered symbol is answered with success
\* whatever became of its first addition, one that sends nothing because the next connection
\* will.
Add(s) ==
    /\ LoopFree
    /\ IF s \in ids
       THEN Accept(s) /\ UNCHANGED <<bookVars, sending, adding>>
       ELSE /\ ids' = ids \cup {s} /\ subs' = subs \cup {s} /\ all' = all \cup {s}
            /\ IF Sendable
               THEN sending' = sending \cup {s} /\ adding' = s /\ UNCHANGED <<early, late>>
               ELSE Accept(s) /\ UNCHANGED <<sending, adding>>
    /\ UNCHANGED <<masterVars, running, startVars, got_ticks, threadVars, linkVars, simVars>>

\* The thread sends the message; the addition that still waits for it answers with success.
Sent(s) ==
    /\ s \in sending /\ alive
    /\ sending' = sending \ {s} /\ served' = served \cup {s}
    /\ adding' = IF adding = s THEN NoSymbol ELSE adding
    /\ IF adding = s THEN Accept(s) ELSE UNCHANGED <<early, late>>
    /\ UNCHANGED <<masterVars, running, startVars, bookVars, got_ticks, threadVars, alive, simVars>>

\* The addition gives up: its message failed, or 5 s went by.  The symbol stays registered,
\* and the message may still leave.
AddFails ==
    /\ adding # NoSymbol
    /\ adding' = NoSymbol
    /\ UNCHANGED <<masterVars, running, startVars, bookVars, got_ticks, threadVars, linkVars,
                   sending, early, late, simVars>>

\* remove_symbol: the exchange is not told, its ticks are ignored from here on.
Remove(s) ==
    /\ LoopFree /\ s \in all \cup ids
    /\ ids' = ids \ {s} /\ subs' = subs \ {s} /\ all' = all \ {s}
    /\ early' = early \ {s} /\ late' = late \ {s}
    /\ UNCHANGED <<masterVars, running, startVars, got_ticks, threadVars, linkVars, sending, adding, simVars>>

Stop ==
    /\ LoopFree /\ running
    /\ running' = FALSE
    /\ UNCHANGED <<masterVars, startVars, bookVars, got_ticks, threadVars, linkVars, addVars, simVars>>

----------------------------------------------------------------------------
\* The environment

Drop ==
    /\ alive
    /\ alive' = FALSE
    /\ UNCHANGED <<masterVars, running, startVars, bookVars, got_ticks, threadVars, served, addVars, simVars>>

LoadMaster == Load /\ UNCHANGED feedVars

Init ==
    /\ MasterInit
    /\ running = TRUE /\ stage = "waiting" /\ contract = <<>>
    /\ ids = {} /\ subs = {} /\ all = Configured
    /\ got_ticks = FALSE
    /\ thread = "none" /\ current_ws = FALSE /\ thread_loop = FALSE
    /\ connect_ok = FALSE /\ fast_fails = 0 /\ to_send = {} /\ in_hand = NoSymbol
    /\ alive = FALSE /\ served = {}
    /\ sending = {} /\ adding = NoSymbol /\ early = {} /\ late = {}
    /\ sim = "off" /\ sim_priced = {}

Start == StopWaiting \/ Resolve \/ Preflight \/ Launch

Thread ==
    \/ Connected \/ Refused \/ Greeted \/ Subscribed \/ PassOn
    \/ ReceivedOther \/ ReceivedNothing
    \/ \E s \in Symbols : Received(s)
    \/ Disconnected \/ Retry \/ ThreadExits

Stand_in == StartSim \/ SimRound

Routes ==
    \/ \E s \in Symbols : Add(s) \/ Sent(s) \/ Remove(s)
    \/ AddFails \/ Stop

Environment == LoadMaster \/ Drop

Next == Start \/ Thread \/ Stand_in \/ Routes \/ Environment

\* The thread and the event loop go on; a connection attempt ends, one way or the other; an
\* addition waits 5 s at most.  Nothing makes the exchange accept, serve or keep a connection.
Fairness ==
    /\ WF_vars(Start)
    /\ WF_vars(Connected \/ Refused) /\ WF_vars(Greeted \/ Subscribed \/ PassOn)
    /\ WF_vars(Disconnected) /\ WF_vars(Retry) /\ WF_vars(ThreadExits) /\ WF_vars(ReceivedNothing)
    /\ WF_vars(StartSim) /\ WF_vars(AddFails)

Spec == Init /\ [][Next]_vars

FairSpec == Spec /\ Fairness

----------------------------------------------------------------------------
\* Every variable has its type: the feed's books, the thread's place and the stand-in's.
TypeOK ==
    /\ MasterTypeOK
    /\ running \in BOOLEAN /\ stage \in Stages
    /\ DOMAIN contract \subseteq Configured
    /\ ids \subseteq Symbols /\ subs \subseteq Symbols /\ all \subseteq Symbols
    /\ got_ticks \in BOOLEAN
    /\ thread \in ThreadStates
    /\ current_ws \in BOOLEAN /\ thread_loop \in BOOLEAN /\ connect_ok \in BOOLEAN
    /\ fast_fails \in 0..MaxFastFails
    /\ to_send \subseteq Symbols /\ in_hand \in Symbols \cup {NoSymbol}
    /\ alive \in BOOLEAN /\ served \subseteq Symbols
    /\ sending \subseteq Symbols /\ adding \in Symbols \cup {NoSymbol}
    /\ early \subseteq Symbols /\ late \subseteq Symbols
    /\ sim \in {"off", "posted", "running", "dead"} /\ sim_priced \subseteq Symbols

\* The connection is up and past its subscription.
Established == alive /\ thread \in {"receiving", "ticking"}

\* On an established connection the exchange serves, or is being asked for, every symbol that is
\* registered, from the map or by an addition, and every one whose addition was answered with
\* success since start() had its map (dhan_feed.py:364-407 against 271-292): an addition falls
\* between two connections, between the list and its sending, on a live connection, or repeats
\* one whose message failed, and the list or a message of its own covers it in each case.
\* Additions made before that are AcceptedIsServed's.
NoSubscriptionLost ==
    Established => ids \cup late \subseteq served \cup sending

\* Simulated prices never follow live ones (dhan_feed.py:183-186, 231): once a tick of the
\* exchange was passed on, positions are valued at market prices, and the stand-in, which
\* starts from fixed base prices, must not start, nor run beside a live thread.
SourcesNeverMix ==
    sim # "off" => ~got_ticks /\ thread \in {"none", "ended"}

\* The contract a configured future is subscribed under has not expired and is no later than
\* the near month of its own underlying, whichever way it was looked up
\* (dhan_instruments.py:333-400, 403-500).
NearestContract ==
    \A s \in DOMAIN contract \cap Futures :
        /\ ~Expired(contract[s])
        /\ \A r \in RowsOf(listing) :
             /\ r.type = "FUT" /\ r.underlying = s
             /\ r.expiry # NoExpiry /\ ~Expired(r)
             => contract[s].expiry <= r.expiry

\* A feed that never passed on a tick and is disconnected instantly too often ends in
\* simulated prices, unless it is stopped (dhan_feed.py:349-356, 231-232).
InstantDisconnectsFallBack ==
    (fast_fails = MaxFastFails /\ ~got_ticks) ~> (sim \in {"running", "dead"} \/ ~running)

\* "Subscribe to a new instrument on the live WS connection (or queue for next connect)"
\* (dhan_feed.py:371): every addition answered with success and not taken back is served on the
\* established connection.  The map that start() resolves replaces what was queued before
\* (lines 189-198).
AcceptedIsServed ==
    Established => early \cup late \subseteq served \cup sending

\* The log of the thread that gives up says it falls back to simulated prices
\* (dhan_feed.py:355); the condition of the code (231) says otherwise once a tick came.
GivingUpFallsBack ==
    thread = "ended" /\ running => sim # "off"
============================================================================
