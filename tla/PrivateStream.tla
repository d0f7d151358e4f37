--------------------------- MODULE PrivateStream ---------------------------
(***************************************************************************)
(* The private WebSocket client (infrastructure/bybit/private_ws.py): the   *)
(* stream_events loop with authentication, subscription, heartbeat and      *)
(* bounded reconnection, and the supervisor that fences connection          *)
(* generations and keeps new entries blocked until the account has been     *)
(* reconciled over REST on the present connection.                          *)
(*                                                                          *)
(* The exchange side is external: executions happen at any time, are pushed *)
(* to a subscribed connection only, and are lost to the stream otherwise;   *)
(* the link may die without either side being told.  The reconciler is the  *)
(* consumer of the stream: it reads the account when it is handed the       *)
(* authenticated event and then reports that event's generation, as the     *)
(* port's users do.                                                         *)
(***************************************************************************)
EXTENDS Integers, FiniteSets

CONSTANTS
    MaxAttempts,        \* PrivateReconnectPolicy.maximum_attempts
    MaxGeneration,      \* bound: connections begun
    MaxExecutions       \* bound: executions the exchange makes

ASSUME StreamAssumption ==
    MaxAttempts \in Nat /\ MaxGeneration \in Nat /\ MaxExecutions \in Nat

VARIABLES
    phase,              \* where stream_events is suspended
    state,              \* PrivateConnectionSupervisor.state
    generation,         \* connection_generation
    required,           \* reconciliation_required
    blocked,            \* new_entries_blocked
    attempt,            \* reconnect_attempt
    attached,           \* external: the exchange pushes to this connection
    wire,               \* external: executions pushed and not yet read
    made,               \* external: executions of the account so far
    known,              \* executions the consumer has seen, by stream or by REST
    reconciling         \* reconciliations under way: the generation and whether REST was read

supervisorVars == <<state, generation, required, blocked>>
vars == <<phase, supervisorVars, attempt, attached, wire, made, known, reconciling>>

Phases == {"start", "connecting", "subscribing", "streaming", "pinging", "dropped",
           "backoff", "ended"}
Connected == {"connecting", "subscribing", "streaming", "pinging"}
States == {"DISCONNECTED", "CONNECTED", "AUTHENTICATED", "RECONNECTING"}

TypeOK ==
    /\ phase \in Phases
    /\ state \in States
    /\ generation \in 0..MaxGeneration
    /\ required \in BOOLEAN /\ blocked \in BOOLEAN
    /\ attempt \in 0..MaxAttempts
    /\ attached \in BOOLEAN
    /\ made \in 0..MaxExecutions
    /\ wire \subseteq 1..made
    /\ known \subseteq 1..made
    /\ reconciling \subseteq [generation : 1..MaxGeneration, read : BOOLEAN]

Init ==
    /\ phase = "start"
    /\ state = "DISCONNECTED" /\ generation = 0
    /\ required = TRUE /\ blocked = TRUE
    /\ attempt = 0
    /\ attached = FALSE /\ wire = {} /\ made = 0
    /\ known = {} /\ reconciling = {}

---------------------------------------------------------------------------
\* The supervisor.

\* begin_connection
BeginConnection ==
    /\ generation' = generation + 1
    /\ state' = "CONNECTED"
    /\ blocked' = TRUE
    /\ UNCHANGED required

\* mark_authenticated
MarkAuthenticated ==
    /\ state' = "AUTHENTICATED"
    /\ blocked' = required
    /\ UNCHANGED <<generation, required>>

\* mark_disconnected
MarkDisconnected ==
    /\ state' = "DISCONNECTED"
    /\ required' = TRUE
    /\ blocked' = TRUE
    /\ UNCHANGED generation

\* mark_reconnecting
MarkReconnecting ==
    /\ state' = "RECONNECTING"
    /\ blocked' = TRUE
    /\ UNCHANGED <<generation, required>>

\* accept_event
AcceptEvent(g) == g = generation /\ state = "AUTHENTICATED"

---------------------------------------------------------------------------
\* stream_events.

\* The connection is gone for the exchange as well.
Detach == attached' = FALSE /\ wire' = {}

\* The head of the loop: a new generation, and the connection is attempted.
Connect ==
    /\ phase \in {"start", "backoff"}
    /\ generation < MaxGeneration
    /\ phase' = "connecting"
    /\ BeginConnection
    /\ Detach
    /\ UNCHANGED <<attempt, made, known, reconciling>>

\* _authenticate succeeds: the supervisor is told before the topics are subscribed.
Authenticate ==
    /\ phase = "connecting"
    /\ phase' = "subscribing"
    /\ MarkAuthenticated
    /\ UNCHANGED <<attempt, attached, wire, made, known, reconciling>>

\* External: the exchange serves the subscription; from here on it pushes.
ExchangeSubscribes ==
    /\ phase = "subscribing" /\ ~attached
    /\ attached' = TRUE
    /\ UNCHANGED <<phase, supervisorVars, attempt, wire, made, known, reconciling>>

\* _subscribe returns and the authenticated event is yielded: its consumer starts to
\* reconcile that generation.
Subscribe ==
    /\ phase = "subscribing" /\ attached
    /\ phase' = "streaming"
    /\ reconciling' = reconciling \cup {[generation |-> generation, read |-> FALSE]}
    /\ UNCHANGED <<supervisorVars, attempt, attached, wire, made, known>>

\* _authenticate or _subscribe refused by the exchange: the error leaves the
\* generator and its finally clause disconnects.
Refuse ==
    /\ phase \in {"connecting", "subscribing"}
    /\ phase' = "ended"
    /\ MarkDisconnected
    /\ Detach
    /\ UNCHANGED <<attempt, made, known, reconciling>>

\* A pushed execution is read, accepted and yielded; only this resets the attempts.
Receive ==
    /\ phase \in {"streaming", "pinging"}
    /\ \E e \in wire :
         /\ \A f \in wire : e <= f
         /\ wire' = wire \ {e}
         /\ IF AcceptEvent(generation)
            THEN known' = known \cup {e} /\ attempt' = 0
            ELSE UNCHANGED <<known, attempt>>
    /\ phase' = "streaming"
    /\ UNCHANGED <<supervisorVars, attached, made, reconciling>>

\* _receive_with_heartbeat: nothing for the heartbeat interval, a ping is sent.
HeartbeatDue ==
    /\ phase = "streaming" /\ wire = {}
    /\ phase' = "pinging"
    /\ UNCHANGED <<supervisorVars, attempt, attached, wire, made, known, reconciling>>

\* The pong is skipped by the loop; it does not reset the attempts.
Pong ==
    /\ phase = "pinging" /\ attached
    /\ phase' = "streaming"
    /\ UNCHANGED <<supervisorVars, attempt, attached, wire, made, known, reconciling>>

\* The except clause: OSError, TimeoutError or ConnectionClosed, up to the yield
\* of the disconnected event.
Disconnected ==
    /\ phase' = "dropped"
    /\ MarkDisconnected
    /\ Detach
    /\ UNCHANGED <<attempt, made, known, reconciling>>

PongAwaitedForever == phase = "pinging" /\ ~attached /\ UNCHANGED vars
\* No pong within the timeout.
PongTimeout ==
    /\ phase = "pinging" /\ ~attached /\ wire = {}
    /\ Disconnected

\* The connection fails or closes under any of the awaits.
ConnectionLost ==
    /\ phase \in Connected
    /\ Disconnected

\* After the yield: back off, unless the attempts are used up.
Retry ==
    /\ phase = "dropped" /\ attempt < MaxAttempts
    /\ phase' = "backoff"
    /\ MarkReconnecting
    /\ attempt' = attempt + 1
    /\ UNCHANGED <<attached, wire, made, known, reconciling>>

\* PrivateReconnectExhausted
Exhaust ==
    /\ phase = "dropped" /\ attempt >= MaxAttempts
    /\ phase' = "ended"
    /\ UNCHANGED <<supervisorVars, attempt, attached, wire, made, known, reconciling>>

\* The consumer closes or cancels the generator, or an error leaves it that the except
\* clause does not name (a refused handshake, a broken message): the finally clause runs.
Cancel ==
    /\ phase \notin {"start", "ended"}
    /\ phase' = "ended"
    /\ IF state \in {"CONNECTED", "AUTHENTICATED"} THEN MarkDisconnected
       ELSE UNCHANGED supervisorVars
    /\ Detach
    /\ UNCHANGED <<attempt, made, known, reconciling>>

---------------------------------------------------------------------------
\* The exchange and the reconciler.

\* External: an order of the account executes.
Execute ==
    /\ made < MaxExecutions
    /\ made' = made + 1
    /\ wire' = IF attached THEN wire \cup {made + 1} ELSE wire
    /\ UNCHANGED <<phase, supervisorVars, attempt, attached, known, reconciling>>

\* External: the link dies silently, with or without what was in flight.
LinkDies ==
    /\ attached
    /\ attached' = FALSE
    /\ wire' \in {wire, {}}
    /\ UNCHANGED <<phase, supervisorVars, attempt, made, known, reconciling>>

\* The reconciler reads the account over REST.
ReadAccount(r) ==
    /\ ~r.read
    /\ known' = 1..made
    /\ reconciling' = (reconciling \ {r}) \cup {[r EXCEPT !.read = TRUE]}
    /\ UNCHANGED <<phase, supervisorVars, attempt, attached, wire, made>>

MarkReconciledLate(r) ==
    /\ r.read
    /\ IF state = "AUTHENTICATED" THEN required' = FALSE /\ blocked' = FALSE
       ELSE UNCHANGED <<required, blocked>>
    /\ reconciling' = reconciling \ {r}
    /\ UNCHANGED <<phase, state, generation, attempt, attached, wire, made, known>>
\* mark_reconciled: refused for a stale generation and when not authenticated.
MarkReconciled(r) ==
    /\ r.read
    /\ IF r.generation = generation /\ state = "AUTHENTICATED"
       THEN required' = FALSE /\ blocked' = FALSE
       ELSE UNCHANGED <<required, blocked>>
    /\ reconciling' = reconciling \ {r}
    /\ UNCHANGED <<phase, state, generation, attempt, attached, wire, made, known>>

Next ==
    \/ Connect \/ Authenticate \/ ExchangeSubscribes \/ Subscribe \/ Refuse
    \/ Receive \/ HeartbeatDue \/ Pong \/ PongTimeout \/ ConnectionLost
    \/ Retry \/ Exhaust \/ Cancel
    \/ Execute \/ LinkDies
    \/ \E r \in reconciling : ReadAccount(r) \/ MarkReconciled(r)

\* asyncio delivers what was received and its timers fire: a pending message is
\* read, an idle connection is pinged, a missing pong times out.
Fairness == WF_vars(Receive) /\ WF_vars(HeartbeatDue) /\ WF_vars(PongTimeout)

Spec == Init /\ [][Next]_vars /\ Fairness

---------------------------------------------------------------------------
\* Properties.

\* While entries are admitted on a live connection, no execution is missing:
\* every one is known to the consumer or is on its way to it.  Neither a
\* reconciliation that began before a reconnection, nor executions made while the
\* stream was down or not yet subscribed, opens the gate too early
\* (begin_connection, mark_authenticated, mark_disconnected, mark_reconciled).
NoBlindEntries ==
    ~blocked => /\ state = "AUTHENTICATED" /\ ~required
                /\ attached => 1..made \subseteq known \cup wire

\* A link that died silently stops new entries: the heartbeat and its timeout
\* notice, whatever was still in flight.
DeadLinkBlocksEntries == ~attached ~> (attached \/ blocked)
============================================================================
