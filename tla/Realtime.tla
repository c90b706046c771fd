------------------------------ MODULE Realtime ------------------------------
(***************************************************************************)
(* Realtime channels (server/services/v1/realtime).  A channel is a Redis  *)
(* stream; a device subscribes through a websocket session, which becomes  *)
(* a consumer group of the stream named after the session, read by a       *)
(* goroutine of the server that pushes what it reads to the connection.    *)
(*                                                                         *)
(* Connections close, sessions come back on another server with the same   *)
(* session id, servers crash; the streams and the consumer groups stay in  *)
(* Redis.  Messages are numbered by their place in the stream.  A client's *)
(* 'unsubscribe' and 'presence_member' events are answered by an error in  *)
(* every case (DecodeEvent knows no unsubscribe event and decodes the      *)
(* other to a type the handler refuses), so they have no action here.      *)
(***************************************************************************)
EXTENDS Naturals, FiniteSets, Sequences

CONSTANTS RtServers,    \* server processes
          Channels,     \* channels of one project
          SessionIds,   \* ids devices connect with
          Conns,        \* websocket connections, 1..n
          Movers,       \* those of them whose clients ask for a position
          Gors,         \* ids of watchEvents goroutines, a bound on how many run at once
          MaxMsgs,      \* bound on the messages of a channel
          MaxRtCrashes  \* bound on server crashes

VARIABLES stream,    \* Redis: [on, len, grp] per channel; grp[d] = [on, pos] is d's consumer group
          chans,     \* ChannelFactory.channels of each server
          watch,     \* Channel.watchers: server x channel x session id -> ChannelWatcher
          gor,       \* the goroutines running watchEvents
          sess,      \* one session per connection
          devices,   \* Sessions.devices: server x session id -> connection of the session, 0 if none
          got,       \* messages written to each connection for each channel, recorded
                     \* while it is not shared and asked for no position
          shared,    \* connections whose group was read for another connection too
          crashes

rtvars == <<stream, chans, watch, gor, sess, devices, got, shared, crashes>>

NoGroup == [on |-> FALSE, pos |-> 0]
NoStream == [on |-> FALSE, len |-> 0, grp |-> [d \in SessionIds |-> NoGroup]]
NoWatcher == [on |-> FALSE, disc |-> FALSE, ctx |-> 0, push |-> 0]
NoSub == [on |-> FALSE]
NoGor == [st |-> "none"]

\* A connection: its session's state, server and id, the channels it watches,
\* the subscribe being processed, whether the request context is cancelled, and
\* whether the client ever asked for a position.
FreeConn == [st |-> "free", srv |-> CHOOSE s \in RtServers : TRUE,
             sid |-> CHOOSE d \in SessionIds : TRUE, mine |-> {}, sub |-> NoSub,
             done |-> FALSE, moved |-> FALSE, of |-> 0]

RtInit ==
    /\ stream = [c \in Channels |-> NoStream]
    /\ chans = [s \in RtServers |-> {}]
    /\ watch = [s \in RtServers |-> [c \in Channels |-> [d \in SessionIds |-> NoWatcher]]]
    /\ gor = [g \in Gors |-> NoGor]
    /\ sess = [k \in Conns |-> FreeConn]
    /\ devices = [s \in RtServers |-> [d \in SessionIds |-> 0]]
    /\ got = [k \in Conns |-> [c \in Channels |-> <<>>]]
    /\ shared = {}
    /\ crashes = 0

Ended(z) == [z EXCEPT !.st = "gone", !.done = TRUE, !.mine = {}, !.sub = NoSub, !.of = 0]
Awaiting(k) == sess[k].st = "open" /\ ~sess[k].sub.on
Srv(k) == sess[k].srv
Sid(k) == sess[k].sid

(***************************************************************************)
(* Sessions.                                                               *)
(***************************************************************************)

\* DeviceConnectionHandler up to Start's first round: AddDevice returns the
\* session a device of that id already has on this server, and the handler then
\* serves that session and not its own connection.
Connect(k, s, d) ==
    /\ sess[k].st = "free"
    /\ \A j \in Conns : j < k => sess[j].st # "free"
    /\ IF devices[s][d] # 0
       THEN /\ sess' = [sess EXCEPT ![k] = [@ EXCEPT !.st = "joined", !.srv = s, !.sid = d,
                                                     !.of = devices[s][d]]]
            /\ UNCHANGED devices
       ELSE /\ sess' = [sess EXCEPT ![k] = [@ EXCEPT !.st = "open", !.srv = s, !.sid = d]]
            /\ devices' = [devices EXCEPT ![s][d] = k]
    /\ UNCHANGED <<stream, chans, watch, gor, got, shared, crashes>>

\* destroyInactiveSessions: a session nothing was received from is dropped from
\* the map; the session itself goes on.
DestroyInactive(s, d) ==
    /\ devices[s][d] # 0
    /\ devices' = [devices EXCEPT ![s][d] = 0]
    /\ UNCHANGED <<stream, chans, watch, gor, sess, got, shared, crashes>>

\* Disconnect closes the watcher's channel; closing it a second time panics.
Broken(k, C) == \E c \in C : watch[Srv(k)][c][Sid(k)].disc
Disconnected(k, C) ==
    [watch EXCEPT ![Srv(k)] = [c \in Channels |->
        IF c \in C THEN [@[c] EXCEPT ![Sid(k)].disc = TRUE] ELSE @[c]]]

\* Session.Close: at the client's request or, deferred by the handler, when
\* reading the connection fails.  A panic leaves the connection open and the
\* watchers the loop had not reached connected; in the deferred call it also
\* leaves the session in the map ("lost").
Close(k) ==
    /\ Awaiting(k)
    /\ \/ /\ ~Broken(k, sess[k].mine)
          /\ sess' = [sess EXCEPT ![k].st = "closed"]
          /\ watch' = Disconnected(k, sess[k].mine)
       \/ /\ Broken(k, sess[k].mine)
          /\ \E st \in {"panicked", "lost"} : sess' = [sess EXCEPT ![k].st = st]
          /\ \E C \in SUBSET sess[k].mine : ~Broken(k, C) /\ watch' = Disconnected(k, C)
    /\ UNCHANGED <<stream, chans, gor, devices, got, shared, crashes>>

\* The handler returns: RemoveDevice deletes whatever session has the id now,
\* and the request's context is cancelled.  A lost session's RemoveDevice is not
\* reached.  A handler that joined another session ends with that session.
HandlerEnd(k) ==
    /\ \/ /\ sess[k].st \in {"closed", "panicked", "lost"}
          /\ sess' = [sess EXCEPT ![k] = Ended(@)]
          /\ devices' = IF sess[k].st = "lost" THEN devices
                                               ELSE [devices EXCEPT ![Srv(k)][Sid(k)] = 0]
       \/ /\ sess[k].st = "joined"
          /\ sess[sess[k].of].st # "open"
          /\ sess' = [sess EXCEPT ![k] = Ended(@)]
          /\ devices' = [devices EXCEPT ![Srv(k)][Sid(k)] = 0]
    /\ UNCHANGED <<stream, chans, watch, gor, got, shared, crashes>>

\* A 'detach' event of a channel the session watches, or a 'disconnect' event
\* that names it.  When it panics the deferred Close does so too.
Detach(k, c) ==
    /\ Awaiting(k)
    /\ c \in sess[k].mine
    /\ IF watch[Srv(k)][c][Sid(k)].disc
       THEN /\ sess' = [sess EXCEPT ![k].st = "lost"]
            /\ \E C \in SUBSET sess[k].mine : ~Broken(k, C) /\ watch' = Disconnected(k, C)
       ELSE /\ sess' = [sess EXCEPT ![k].mine = @ \ {c}]
            /\ watch' = Disconnected(k, {c})
    /\ UNCHANGED <<stream, chans, gor, devices, got, shared, crashes>>

(***************************************************************************)
(* Channels.                                                               *)
(***************************************************************************)

\* GetOrCreateChannel: by an 'attach' event or by publishing over HTTP.
\* CreateOrGetStream makes the stream unless it is there.
Attach(s, c) ==
    /\ c \notin chans[s]
    /\ chans' = [chans EXCEPT ![s] = @ \cup {c}]
    /\ stream' = [stream EXCEPT ![c].on = TRUE]
    /\ UNCHANGED <<watch, gor, sess, devices, got, shared, crashes>>

\* PublishMessage, by a 'message' event or over HTTP, through a channel the server
\* has.
Publish(s, c) ==
    /\ c \in chans[s]
    /\ stream[c].len < MaxMsgs
    /\ stream' = [stream EXCEPT ![c].len = @ + 1, ![c].on = TRUE]
    /\ UNCHANGED <<chans, watch, gor, sess, devices, got, shared, crashes>>

\* The table GetHeartbeatTable makes for the monitor was never pinged.
TablePinged(s) == FALSE

\* live: the sessions whose heartbeat key has not expired in Redis.
GroupsExpired(s, c, live) ==
    TablePinged(s) /\ ~\E d \in live : stream[c].grp[d].on

\* monitorStreams: an inactive channel is closed, with its watchers and stream.  A
\* session pings when it receives something, so any idle one lets its key expire.
Monitor(s, c, live) ==
    /\ c \in chans[s]
    /\ IF GroupsExpired(s, c, live)
       THEN /\ stream' = [stream EXCEPT ![c] = NoStream]
            /\ chans' = [chans EXCEPT ![s] = @ \ {c}]
            /\ watch' = [watch EXCEPT ![s][c] = [d \in SessionIds |-> NoWatcher]]
       ELSE UNCHANGED <<stream, chans, watch>>
    /\ UNCHANGED <<gor, sess, devices, got, shared, crashes>>

(***************************************************************************)
(* Subscribing.                                                            *)
(***************************************************************************)

\* The goroutines reading d's group of channel c for another connection than k.
Others(k, c, d) ==
    {g \in Gors : gor[g].st # "none" /\ gor[g].c = c /\ gor[g].d = d
                  /\ watch[gor[g].s][c][d].push # k}

Sharing(k, c, d) ==
    shared' = IF Others(k, c, d) = {} THEN shared
              ELSE shared \cup {k} \cup {watch[gor[g].s][c][d].push : g \in Others(k, c, d)}

\* Mutant: a subscribe to a channel already watched is not ignored.
AlreadyWatchingNever(k, c) == FALSE
AlreadyWatching(k, c) == c \in sess[k].mine

\* Back at the top of watchEvents' loop: a disconnected watcher removes its group,
\* which fails once the context is cancelled, and returns; another one blocks in
\* ReadGroup.  "top" is a goroutine about to look at a disconnected watcher.
LoopTop(disc) == IF disc THEN "top" ELSE "read"

\* StartWatching: the watcher pushes to this connection from now on, and one
\* more goroutine serves it.
StartWatching(k, c, w) ==
    LET s == Srv(k)
        d == Sid(k)
        free == {g \in Gors : gor[g].st = "none"}
    IN /\ free # {}
       /\ gor' = [gor EXCEPT ![CHOOSE g \in free : \A h \in free : g <= h] =
                    [st |-> LoopTop(w.disc), s |-> s, c |-> c, d |-> d, from |-> 0, to |-> 0]]
       /\ watch' = [watch EXCEPT ![s][c][d] = [w EXCEPT !.push = k]]
       /\ Sharing(k, c, d)

\* Where the group of d stands after a move to pos; nothing moves without a
\* position, and a group that is gone cannot be moved.
Move(c, d, pos) ==
    IF pos = 0 THEN stream ELSE [stream EXCEPT ![c].grp[d].pos = pos - 1]
CanMove(c, d, pos) == pos = 0 \/ stream[c].grp[d].on

\* A 'subscribe' event up to GetWatcher's look at Redis.  pos 0 is no position,
\* p + 1 the position p.  A watcher the server has in memory is used as it is.
Subscribe(k, c, pos) ==
    /\ Awaiting(k)
    /\ c \in chans[Srv(k)] \/ stream[c].on
    /\ ~AlreadyWatching(k, c)
    /\ chans' = [chans EXCEPT ![Srv(k)] = @ \cup {c}]
    /\ LET w == watch[Srv(k)][c][Sid(k)]
       IN \/ /\ w.on
             /\ CanMove(c, Sid(k), pos)
             /\ stream' = Move(c, Sid(k), pos)
             /\ StartWatching(k, c, w)
             /\ sess' = [sess EXCEPT ![k].mine = @ \cup {c}, ![k].moved = @ \/ pos # 0]
          \/ /\ w.on
             /\ ~CanMove(c, Sid(k), pos)
             /\ UNCHANGED <<stream, gor, watch, shared, sess>>
          \/ /\ ~w.on
             /\ sess' = [sess EXCEPT ![k].sub =
                            [on |-> TRUE, c |-> c, pos |-> pos, seen |-> stream[c].grp[Sid(k)]]]
             /\ Sharing(k, c, Sid(k))
             /\ UNCHANGED <<stream, gor, watch>>
    /\ UNCHANGED <<devices, got, crashes>>

\* Where CreateWatcher moves an existing group to.
Resume(pos, seen) == IF pos = 0 THEN seen.pos + 1 ELSE pos

\* The rest of GetWatcher: CreateWatcher moves the group that was seen, or
\* CreateAndRegisterWatcher makes one at the end of the stream or at pos.  An
\* error (the group is gone, or exists by now) is swallowed.
Register(k) ==
    /\ sess[k].st = "open" /\ sess[k].sub.on
    /\ LET sub == sess[k].sub
           c == sub.c
           d == Sid(k)
           w == [NoWatcher EXCEPT !.on = TRUE, !.ctx = k]
           ok == sub.seen.on = stream[c].grp[d].on /\ stream[c].on
           grp == IF sub.seen.on
                  THEN [on |-> TRUE, pos |-> Resume(sub.pos, sub.seen) - 1]
                  ELSE [on |-> TRUE, pos |-> IF sub.pos = 0 THEN stream[c].len ELSE sub.pos - 1]
       IN IF ok
          THEN /\ stream' = [stream EXCEPT ![c].grp[d] = grp]
               /\ StartWatching(k, c, w)
               /\ sess' = [sess EXCEPT ![k].sub = NoSub, ![k].mine = @ \cup {c},
                                       ![k].moved = @ \/ sub.pos # 0]
          ELSE /\ sess' = [sess EXCEPT ![k].sub = NoSub]
               /\ UNCHANGED <<stream, gor, watch, shared>>
    /\ UNCHANGED <<chans, devices, got, crashes>>

(***************************************************************************)
(* The watcher's goroutine.                                                *)
(***************************************************************************)

WatcherOf(g) == watch[gor[g].s][gor[g].c][gor[g].d]
CtxDone(g) == WatcherOf(g).ctx # 0 /\ sess[WatcherOf(g).ctx].done
GroupOf(g) == stream[gor[g].c].grp[gor[g].d]

\* ReadGroup returned nothing or an error, or was not called any more.
Leave(g) ==
    /\ gor[g].st \in {"top", "read"}
    /\ WatcherOf(g).disc
    /\ gor' = [gor EXCEPT ![g] = NoGor]
    /\ stream' = IF CtxDone(g) THEN stream
                 ELSE [stream EXCEPT ![gor[g].c].grp[gor[g].d] = NoGroup]
    /\ UNCHANGED <<chans, watch, sess, devices, got, shared, crashes>>

\* ReadGroup blocks until there is something after the group's position and
\* returns all of it.  Without a group, or when the context is cancelled, it only
\* returns errors and the loop goes on.
ReadGroup(g) ==
    /\ gor[g].st = "read"
    /\ GroupOf(g).on /\ GroupOf(g).pos < stream[gor[g].c].len /\ ~CtxDone(g)
    /\ gor' = [gor EXCEPT ![g].st = "push", ![g].from = GroupOf(g).pos + 1,
                          ![g].to = stream[gor[g].c].len]
    /\ stream' = [stream EXCEPT ![gor[g].c].grp[gor[g].d].pos = stream[gor[g].c].len]
    /\ UNCHANGED <<chans, watch, sess, devices, got, shared, crashes>>

\* DevicePusher.Watch writes each message to the connection, silently failing
\* when it is closed, and the group acknowledges them.
Push(g) ==
    /\ gor[g].st = "push"
    /\ LET k == WatcherOf(g).push
       IN got' = IF sess[k].st \in {"open", "panicked", "lost"} /\ k \notin shared /\ ~sess[k].moved
                 THEN [got EXCEPT ![k][gor[g].c] =
                          @ \o [i \in 1 .. (gor[g].to + 1 - gor[g].from) |-> gor[g].from + i - 1]]
                 ELSE got
    /\ gor' = [gor EXCEPT ![g].st = LoopTop(WatcherOf(g).disc), ![g].from = 0, ![g].to = 0]
    /\ UNCHANGED <<stream, chans, watch, sess, devices, shared, crashes>>

\* A server dies with its sessions, watchers and goroutines.
RtCrash(s) ==
    /\ crashes < MaxRtCrashes
    /\ crashes' = crashes + 1
    /\ chans' = [chans EXCEPT ![s] = {}]
    /\ watch' = [watch EXCEPT ![s] = [c \in Channels |-> [d \in SessionIds |-> NoWatcher]]]
    /\ gor' = [g \in Gors |-> IF gor[g].st # "none" /\ gor[g].s = s THEN NoGor ELSE gor[g]]
    /\ sess' = [k \in Conns |-> IF sess[k].st # "free" /\ Srv(k) = s
                                THEN Ended(sess[k])
                                ELSE sess[k]]
    /\ devices' = [devices EXCEPT ![s] = [d \in SessionIds |-> 0]]
    /\ UNCHANGED <<stream, got, shared>>

RtNext ==
    \/ \E k \in Conns, s \in RtServers, d \in SessionIds : Connect(k, s, d)
    \/ \E k \in Conns : Close(k) \/ HandlerEnd(k) \/ Register(k)
    \/ \E s \in RtServers, d \in SessionIds : DestroyInactive(s, d)
    \/ \E k \in Conns, c \in Channels : Detach(k, c)
    \/ \E k \in Conns, c \in Channels, pos \in 0 .. 1 : (pos = 0 \/ k \in Movers) /\ Subscribe(k, c, pos)
    \/ \E s \in RtServers, c \in Channels : Attach(s, c) \/ Publish(s, c)
    \/ \E s \in RtServers, c \in Channels, live \in SUBSET SessionIds : Monitor(s, c, live)
    \/ \E g \in Gors : Leave(g) \/ ReadGroup(g) \/ Push(g)
    \/ \E s \in RtServers : RtCrash(s)

(***************************************************************************)
(* What the sessions promise.                                              *)
(***************************************************************************)

RtTypeOK ==
    /\ \A c \in Channels : /\ stream[c].len \in 0 .. MaxMsgs
                           /\ \A d \in SessionIds : stream[c].grp[d].pos \in 0 .. MaxMsgs
    /\ \A s \in RtServers : chans[s] \subseteq Channels
    /\ \A g \in Gors : gor[g].st \in {"none", "top", "read", "push"}
    /\ \A k \in Conns : /\ sess[k].st \in {"free", "open", "joined", "closed", "panicked", "lost",
                                          "gone"}
                        /\ sess[k].mine \subseteq Channels
    /\ shared \subseteq Conns

\* What a device receives on a channel is a run of the channel's messages
\* without a gap or a repetition, in order, whatever was delivered before it
\* came back and whichever server it came back to - as long as the client asked
\* for no position and no other connection used its session id meanwhile
\* (GetWatcher, CreateWatcher and watchEvents).
InOrderNoGap ==
    \A k \in Conns, c \in Channels :
        k \notin shared /\ ~sess[k].moved =>
            \A i \in 2 .. Len(got[k][c]) : got[k][c][i] = got[k][c][i - 1] + 1

\* No message is written twice to the connections of a session id that follow
\* one another: a group found in Redis goes on where it stood (CreateWatcher).
NoRedelivery ==
    \A j, k \in Conns, c \in Channels :
        j # k /\ Sid(j) = Sid(k) /\ {j, k} \cap shared = {} /\ ~sess[j].moved /\ ~sess[k].moved
        => {got[j][c][i] : i \in 1 .. Len(got[j][c])}
             \cap {got[k][c][i] : i \in 1 .. Len(got[k][c])} = {}

\* The monitor never deletes the stream of a channel a session of the server is
\* subscribed to, although an idle subscriber lets its heartbeat key expire
\* (deleteChannelIfInactive and GroupsExpired).
WatchedStreamKept ==
    \A k \in Conns : sess[k].st = "open" => \A c \in sess[k].mine : stream[c].on
=============================================================================
