----------------------------- MODULE MarketFeed -----------------------------
(***************************************************************************)
(* The public order-book feed: BybitPublicWebSocketClient._stream_payloads  *)
(* and its supervisor (infrastructure/bybit/public_ws.py), the normalising  *)
(* of a message (parsers.py) and the LocalOrderBook that consumes it        *)
(* (domain/market_data.py).                                                 *)
(*                                                                          *)
(* The exchange is external.  Its book is the set 1..bookSeq of the changes *)
(* made so far; a full message carries all of them, a delta the last one.   *)
(* It numbers its updates, may skip a delta, repeats a snapshot at will and *)
(* starts again at update 1 with a full book when its service restarts.     *)
(***************************************************************************)
EXTENDS Integers, Sequences

CONSTANTS
    MaxBookAge,         \* max_age_seconds of is_execution_ready
    MaxChanges,         \* bound: changes of the exchange's book
    MaxDrops,           \* bound: connections that fail
    MaxPushes,          \* bound: snapshots repeated or read by REST, deltas skipped, restarts
    MaxFeedTime, MaxFeedWire \* bounds: the period, messages not yet read

ASSUME FeedConstants == MaxBookAge \in Nat

VARIABLES
    feedTime,
    bookSeq, bookU,     \* external: cross sequence and update ID of the exchange
    changedAt,          \* external: when each change was made
    served,             \* external: "dead", "linked", "topic" (deltas) or "book" (snapshot too)
    feedWire,           \* external: messages sent and not yet read
    pushes, drops,      \* what is left of the bounds
    feedPhase,          \* where _stream_payloads is suspended
    feedGeneration,     \* supervisor.generation
    awaiting,           \* awaiting_snapshot
    rest,               \* a REST snapshot read and not yet applied
    book                \* the LocalOrderBook

exchangeVars == <<bookSeq, bookU, changedAt>>
clientVars == <<feedPhase, feedGeneration, awaiting>>
feedVars == <<feedTime, exchangeVars, served, feedWire, pushes, drops, clientVars, rest, book>>

NoMessage == [type |-> "none", u |-> 0, seq |-> 0, full |-> FALSE, stamp |-> 0]
Linked == {"receiving", "pinging"}
Subscribed == served \in {"topic", "book"}

FeedInit ==
    /\ feedTime = 0
    /\ bookSeq = 1 /\ bookU = 2 /\ changedAt = <<0>>
    /\ served = "dead" /\ feedWire = <<>>
    /\ pushes = MaxPushes /\ drops = MaxDrops
    /\ feedPhase = "connecting" /\ feedGeneration = 1 /\ awaiting = TRUE
    /\ rest = NoMessage
    /\ book = [u |-> 0, seq |-> 0, stamp |-> 0, generation |-> 0, synchronized |-> FALSE,
               content |-> {}]

---------------------------------------------------------------------------
\* The exchange.

Push(m) == feedWire' = IF Subscribed THEN Append(feedWire, m) ELSE feedWire
Message(type, u, seq, full) ==
    [type |-> type, u |-> u, seq |-> seq, full |-> full, stamp |-> feedTime]

\* External: the book changes; its delta is sent, or skipped.
Change ==
    /\ bookSeq < MaxChanges /\ Len(feedWire) < MaxFeedWire
    /\ bookSeq' = bookSeq + 1 /\ bookU' = bookU + 1
    /\ changedAt' = Append(changedAt, feedTime)
    /\ \/ Push(Message("delta", bookU + 1, bookSeq + 1, FALSE)) /\ UNCHANGED pushes
       \/ pushes > 0 /\ pushes' = pushes - 1 /\ UNCHANGED feedWire
    /\ UNCHANGED <<feedTime, served, drops, clientVars, rest, book>>

\* External: the service restarts: update 1 carries the whole book.
ServiceRestart ==
    /\ bookSeq < MaxChanges /\ Len(feedWire) < MaxFeedWire /\ pushes > 0
    /\ bookSeq' = bookSeq + 1 /\ bookU' = 1
    /\ changedAt' = Append(changedAt, feedTime)
    /\ Push(Message("delta", 1, bookSeq + 1, TRUE))
    /\ pushes' = pushes - 1
    /\ UNCHANGED <<feedTime, served, drops, clientVars, rest, book>>

\* External: the subscription is served, its deltas first.
ServeTopic ==
    /\ served = "linked"
    /\ served' = "topic"
    /\ UNCHANGED <<feedTime, exchangeVars, feedWire, pushes, drops, clientVars, rest, book>>

\* External: the snapshot of a subscription is sent.
ServeBook ==
    /\ served = "topic" /\ Len(feedWire) < MaxFeedWire
    /\ served' = "book"
    /\ feedWire' = Append(feedWire, Message("snapshot", bookU, bookSeq, TRUE))
    /\ UNCHANGED <<feedTime, exchangeVars, pushes, drops, clientVars, rest, book>>

\* External: a snapshot is repeated.
RepeatBook ==
    /\ served = "book" /\ pushes > 0 /\ Len(feedWire) < MaxFeedWire
    /\ Push(Message("snapshot", bookU, bookSeq, TRUE))
    /\ pushes' = pushes - 1
    /\ UNCHANGED <<feedTime, exchangeVars, served, drops, clientVars, rest, book>>

\* External: the link dies silently, with or without what was in flight.
FeedLinkDies ==
    /\ served # "dead" /\ drops > 0
    /\ served' = "dead" /\ drops' = drops - 1
    /\ feedWire' \in {feedWire, <<>>}
    /\ UNCHANGED <<feedTime, exchangeVars, pushes, clientVars, rest, book>>

FeedTick ==
    /\ feedTime < MaxFeedTime
    /\ feedTime' = feedTime + 1
    /\ UNCHANGED <<exchangeVars, served, feedWire, pushes, drops, clientVars, rest, book>>

---------------------------------------------------------------------------
\* The local book.

\* parse_orderbook_message: an event has the exchange's time, not that of its receipt.
StampOf(m) == m.stamp

\* apply_snapshot
ApplySnapshot(m, g) ==
    IF g < book.generation THEN book
    ELSE [u |-> m.u, seq |-> m.seq, stamp |-> StampOf(m), generation |-> g,
          synchronized |-> TRUE, content |-> 1..m.seq]

FollowsBySequence(m) == m.seq > book.seq
\* The two conditions under which a delta follows the book.
Follows(m) == m.u = book.u + 1 /\ m.seq > book.seq

\* apply_delta
ApplyDelta(m, g) ==
    CASE g < book.generation -> book
      [] g > book.generation -> [book EXCEPT !.synchronized = FALSE]
      [] g = book.generation /\ ~book.synchronized -> book
      [] g = book.generation /\ book.synchronized /\ ~Follows(m) ->
           [book EXCEPT !.synchronized = FALSE]
      [] OTHER ->
           [book EXCEPT !.u = m.u, !.seq = m.seq, !.stamp = StampOf(m),
                        !.content = @ \cup {m.seq}]

\* parse_orderbook_message and _is_orderbook_snapshot: update 1 is a snapshot too.
IsSnapshot(m) == m.type = "snapshot" \/ m.u = 1
Apply(m, g) == IF IsSnapshot(m) THEN ApplySnapshot(m, g) ELSE ApplyDelta(m, g)

\* is_execution_ready (a model book always has both sides)
IsExecutionReady ==
    /\ book.synchronized
    /\ feedTime - book.stamp <= MaxBookAge

---------------------------------------------------------------------------
\* _stream_payloads.

\* The connection opens and the topic is subscribed.
OpenConnection ==
    /\ feedPhase = "connecting"
    /\ feedPhase' = "receiving" /\ awaiting' = TRUE
    /\ served' = "linked"
    /\ UNCHANGED <<feedTime, exchangeVars, feedWire, pushes, drops, feedGeneration, rest, book>>

\* A message is read.  Before the first snapshot of a connection others are
\* passed over; what is yielded is applied by the consumer.
ReceiveMessage ==
    /\ feedPhase \in Linked /\ feedWire # <<>>
    /\ feedWire' = Tail(feedWire)
    /\ feedPhase' = "receiving"
    /\ LET m == Head(feedWire)
       IN  IF awaiting /\ ~IsSnapshot(m) THEN UNCHANGED <<awaiting, book>>
           ELSE awaiting' = FALSE /\ book' = Apply(m, feedGeneration)
    /\ UNCHANGED <<feedTime, exchangeVars, served, pushes, drops, feedGeneration, rest>>

\* Nothing for the heartbeat interval: a ping is sent.
SendPing ==
    /\ feedPhase = "receiving" /\ feedWire = <<>>
    /\ feedPhase' = "pinging"
    /\ UNCHANGED <<feedTime, exchangeVars, served, feedWire, pushes, drops, feedGeneration, awaiting, rest, book>>

\* record_pong
ReceivePong ==
    /\ feedPhase = "pinging" /\ served # "dead"
    /\ feedPhase' = "receiving"
    /\ UNCHANGED <<feedTime, exchangeVars, served, feedWire, pushes, drops, feedGeneration, awaiting, rest, book>>

\* The except clause, its delay and the head of the loop: a new generation.
Reconnect ==
    /\ feedPhase' = "connecting" /\ feedGeneration' = feedGeneration + 1 /\ awaiting' = TRUE
    /\ served' = "dead" /\ feedWire' = <<>>
    /\ UNCHANGED <<feedTime, exchangeVars, pushes, rest, book>>

\* No pong within its timeout.
PongNeverMissed == feedPhase = "pinging" /\ served = "dead" /\ UNCHANGED feedVars
PongMissing ==
    /\ feedPhase = "pinging" /\ served = "dead" /\ feedWire = <<>>
    /\ Reconnect /\ UNCHANGED drops

\* An error the except clause names: the connection cannot be opened (OSError,
\* TimeoutError) or closes (ConnectionClosed).
ConnectionCloses ==
    /\ feedPhase \in {"connecting"} \cup Linked
    /\ drops > 0 /\ drops' = drops - 1
    /\ Reconnect

\* Any other error leaves the generator, and with it the connection: the feed is over.
LeaveStream(last) ==
    /\ feedPhase' = last
    /\ served' = "dead" /\ feedWire' = <<>>
    /\ UNCHANGED <<feedTime, exchangeVars, pushes, drops, feedGeneration, awaiting, rest, book>>

\* The handshake is answered with a status or a message that is not a WebSocket's
\* (InvalidStatus, InvalidMessage of websockets).
HandshakeFails == feedPhase = "connecting" /\ LeaveStream("ended")

\* A message that is no JSON object, or whose payload the parser refuses.
MessageBroken == feedPhase \in Linked /\ served # "dead" /\ LeaveStream("ended")

\* The subscription is refused: a ValueError.
SubscriptionRefused == feedPhase \in Linked /\ served = "linked" /\ LeaveStream("refused")

\* get_orderbook_snapshot over REST, of generation 0, and its late application.
ReadRestBook ==
    /\ rest = NoMessage /\ pushes > 0
    /\ rest' = Message("snapshot", bookU, bookSeq, TRUE)
    /\ pushes' = pushes - 1
    /\ UNCHANGED <<feedTime, exchangeVars, served, feedWire, drops, clientVars, book>>
ApplyRestBook ==
    /\ rest # NoMessage
    /\ rest' = NoMessage
    /\ book' = Apply(rest, 0)
    /\ UNCHANGED <<feedTime, exchangeVars, served, feedWire, pushes, drops, clientVars>>

FeedNext ==
    \/ Change \/ ServiceRestart \/ ServeTopic \/ ServeBook \/ RepeatBook \/ FeedLinkDies \/ FeedTick
    \/ OpenConnection \/ ReceiveMessage \/ SendPing \/ ReceivePong \/ PongMissing
    \/ ConnectionCloses \/ HandshakeFails \/ MessageBroken \/ SubscriptionRefused
    \/ ReadRestBook \/ ApplyRestBook

FeedSpec == FeedInit /\ [][FeedNext]_feedVars

---------------------------------------------------------------------------
\* Properties.

\* A synchronized book is the exchange's book at its sequence: no delta is missing
\* and none is applied to the wrong base, across skipped deltas, service restarts,
\* repeated snapshots, reconnections and a REST snapshot that is applied late
\* (LocalOrderBook.apply_snapshot, apply_delta, awaiting_snapshot).
BookMatchesExchange == book.synchronized => book.content = 1..book.seq

\* A book that is ready for execution misses only changes younger than the age
\* limit: the time a message spent under way counts, because the book's age is
\* that of the exchange's own stamp (is_execution_ready).
ReadyBookIsRecent ==
    IsExecutionReady =>
        \A c \in 1..bookSeq : c \notin book.content => feedTime - changedAt[c] <= MaxBookAge

\* A link that died, at any point and however silently, is noticed: the stream delivers
\* again, or the generator has ended with an error its consumer sees, because the
\* subscription was refused or an error came that the except clause does not name.
\* It never waits forever on a connection that is gone.
StreamResumes == served = "dead" ~> (served = "book" \/ feedPhase \in {"ended", "refused"})

\* A book that reports itself usable is the exchange's, and is recent.
UsableBook == BookMatchesExchange /\ ReadyBookIsRecent
============================================================================
