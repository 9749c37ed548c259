----------------------------- MODULE SessionFeed -----------------------------
(***************************************************************************)
(* The session host of agent-server: one journal per room (a node's run),  *)
(* a buffer of its tail, one broadcast channel for all rooms of a host,    *)
(* and clients that replay, follow, fall behind and catch up.              *)
(*                                                                         *)
(*   publish = append under the session lock (seq, buffer, session.jsonl), *)
(*             then broadcast: two steps, with other publishers between.   *)
(*   client  = subscribe, replay from a seq, then receive; when the        *)
(*             channel has dropped what it had not read yet, replay again. *)
(*                                                                         *)
(* A host may restart (only session.jsonl survives) and a room may move to *)
(* another host, which inherits the journal committed with the last turn.  *)
(* An envelope is its room, its seq, whether it is journaled, and a serial *)
(* number that tells events apart (a history variable).  The capability    *)
(* filter of a client is left out: it hides envelopes, the feed moves on.  *)
(* What a handler publishes, and when, is data: each of its publish calls  *)
(* is a Publish and a Broadcast step, as the session and the channel see   *)
(* it; AttachRoom, LeaveRoom, Pull... are what handlers do besides.        *)
(***************************************************************************)
EXTENDS Integers, Sequences, FiniteSets

CONSTANTS
    Rooms,          \* rooms, as numbers: replay sorts envelopes by (room, seq)
    Hosts,          \* host processes
    Clients,        \* websocket clients
    ServedBy,       \* the host a client connects to
    BufferSize,     \* SESSION_BUFFER
    ChannelSize,    \* capacity of broadcast::channel
    MaxPublishers,  \* bound: publishers of a host between append and broadcast
    MaxEvents,      \* bound: events published in all
    MaxLostLines,   \* bound: failed writes of session.jsonl
    MaxRestarts,    \* bound: restarts of hosts
    MaxConnects,    \* bound: connections of one client
    NoHost,         \* model value: nobody holds the room's run
    DeadHost        \* model value: a host that died holds its claim

ASSUME FeedAssumption ==
    /\ Rooms \subseteq Nat
    /\ ServedBy \in [Clients -> Hosts]
    /\ {BufferSize, ChannelSize} \subseteq Nat \ {0}
    /\ {MaxPublishers, MaxEvents, MaxLostLines, MaxRestarts, MaxConnects} \subseteq Nat
    /\ {NoHost, DeadHost} \cap Hosts = {}

Envelope == [room : Rooms, seq : Nat, id : Nat, journaled : BOOLEAN]

SessionState == [open : BOOLEAN, next : Nat, buf : Seq(Envelope)]

Client ==
    [status : {"off", "subscribed", "live"},
     cursor : Nat,               \* position of its receiver in the channel
     last   : Nat \cup {-1},     \* last_sent_seq; -1 is None
     from   : Nat,               \* the replay its feed starts with
     rooms  : SUBSET Rooms,      \* rooms that replay covered
     got    : SUBSET Envelope,   \* what it was sent, over all its connections
     tries  : Nat]

VARIABLES
    sessions,   \* sessions of each host
    disk,       \* session.jsonl of each host and room
    pending,    \* appended, not yet broadcast
    channel,    \* what the current process of a host has broadcast
    clients,
    holder,     \* the host that holds the run of a room
    committed,  \* .nitra/session.jsonl of a room, committed with its last turn
    pulling,    \* <<host, room>>: the host waits for a HandoffAck
    acked,      \* rooms whose holder gave the run up and sent the ack
    events,     \* events published so far
    lostLines, restarts

feed == <<sessions, disk, pending, channel>>

runs == <<holder, committed, pulling, acked>>

faults == <<lostLines, restarts>>

vars == <<feed, clients, runs, events, faults>>

\* Types of everything a journal depends on.
JournalType ==
    /\ sessions \in [Hosts -> [Rooms -> SessionState]]
    /\ disk \in [Hosts -> [Rooms -> Seq(Envelope)]]
    /\ committed \in [Rooms -> Seq(Envelope)]
    /\ events \in Nat

\* Types of the rest.
TypeOK ==
    /\ JournalType
    /\ pending \in [Hosts -> SUBSET Envelope]
    /\ channel \in [Hosts -> Seq(Envelope)]
    /\ clients \in [Clients -> Client]
    /\ holder \in [Rooms -> Hosts \cup {NoHost, DeadHost}]
    /\ pulling \subseteq Hosts \X Rooms
    /\ acked \subseteq Rooms
    /\ lostLines \in Nat
    /\ restarts \in Nat

Closed == [open |-> FALSE, next |-> 0, buf |-> <<>>]

Offline ==
    [status |-> "off", cursor |-> 1, last |-> -1, from |-> 0, rooms |-> {},
     got |-> {}, tries |-> 0]

Init ==
    /\ sessions = [h \in Hosts |-> [r \in Rooms |-> Closed]]
    /\ disk = [h \in Hosts |-> [r \in Rooms |-> <<>>]]
    /\ pending = [h \in Hosts |-> {}]
    /\ channel = [h \in Hosts |-> <<>>]
    /\ clients = [c \in Clients |-> Offline]
    /\ holder = [r \in Rooms |-> NoHost]
    /\ committed = [r \in Rooms |-> <<>>]
    /\ pulling = {}
    /\ acked = {}
    /\ events = 0
    /\ lostLines = 0
    /\ restarts = 0

-----------------------------------------------------------------------------
(* Session: open, append, replay.                                          *)

\* The newest BufferSize entries.
Tailed(s) ==
    SubSeq(s, IF Len(s) > BufferSize THEN Len(s) - BufferSize + 1 ELSE 1, Len(s))

\* Mutant: the seq continues from the number of lines.
RestoredByCount(lines) ==
    [open |-> TRUE, next |-> Len(lines), buf |-> Tailed(lines)]

\* Session::open: the seq continues after the last line on disk.
Restored(lines) ==
    [open |-> TRUE,
     next |-> IF lines = <<>> THEN 0 ELSE lines[Len(lines)].seq + 1,
     buf  |-> Tailed(lines)]

Opened(h, r) ==
    IF sessions[h][r].open THEN sessions[h][r] ELSE Restored(disk[h][r])

\* Any frame of a client other than the host-to-host ones opens the session first.
OpenSession(h, r) ==
    /\ ~sessions[h][r].open
    /\ sessions' = [sessions EXCEPT ![h][r] = Opened(h, r)]
    /\ UNCHANGED <<disk, pending, channel, clients, runs, events, faults>>

\* Mutant: only journaled events take a seq.
AppendJournaledOnly(h, r, journaled) ==
    LET e == [room |-> r, seq |-> sessions[h][r].next, id |-> events,
              journaled |-> journaled]
    IN  /\ sessions' = [sessions EXCEPT
             ![h][r].next = IF journaled THEN @ + 1 ELSE @,
             ![h][r].buf = IF journaled THEN Tailed(Append(@, e)) ELSE @]
        /\ pending' = [pending EXCEPT ![h] = @ \cup {e}]
        /\ disk' = IF journaled THEN [disk EXCEPT ![h][r] = Append(@, e)] ELSE disk
        /\ UNCHANGED lostLines

\* Session::append: seq, buffer and file under one lock.  A failed write is ignored.
AppendTo(h, r, journaled) ==
    LET e == [room |-> r, seq |-> sessions[h][r].next, id |-> events,
              journaled |-> journaled]
    IN  /\ sessions' = [sessions EXCEPT
             ![h][r].next = @ + 1,
             ![h][r].buf = IF journaled THEN Tailed(Append(@, e)) ELSE @]
        /\ pending' = [pending EXCEPT ![h] = @ \cup {e}]
        /\ \/ /\ disk' = IF journaled THEN [disk EXCEPT ![h][r] = Append(@, e)] ELSE disk
              /\ UNCHANGED lostLines
           \/ /\ journaled /\ UNCHANGED disk
              /\ lostLines < MaxLostLines /\ lostLines' = lostLines + 1

\* SessionHost::publish, first half.
Publish(h, r) ==
    /\ sessions[h][r].open
    /\ events < MaxEvents
    /\ Cardinality(pending[h]) < MaxPublishers
    /\ \E journaled \in BOOLEAN : AppendTo(h, r, journaled)
    /\ events' = events + 1
    /\ UNCHANGED <<channel, clients, runs, restarts>>

\* SessionHost::publish, second half; publishers overtake each other here.
Broadcast(h) ==
    /\ \E e \in pending[h] :
         /\ channel' = [channel EXCEPT ![h] = Append(@, e)]
         /\ pending' = [pending EXCEPT ![h] = @ \ {e}]
    /\ UNCHANGED <<sessions, disk, clients, runs, events, faults>>

\* Mutant: the buffer always serves the replay.
BufferOnly(h, r, from) == sessions[h][r].buf

\* Session::replay_from: the buffer when it reaches back far enough, else the file.
ReplaySource(h, r, from) ==
    LET buf == sessions[h][r].buf IN
    IF buf = <<>> \/ from >= buf[1].seq THEN buf ELSE disk[h][r]

Replay(h, r, from) ==
    {e \in {ReplaySource(h, r, from)[i] : i \in DOMAIN ReplaySource(h, r, from)} :
        e.seq >= from}

OpenRooms(h) == {r \in Rooms : sessions[h][r].open}

\* SessionHost::replay_from: all open sessions, sorted by room and seq.
ReplayAll(h, from) == UNION {Replay(h, r, from) : r \in OpenRooms(h)}

\* last_sent_seq after a replay: the seq of the last envelope of the last room.
LastSeq(es, before) ==
    IF es = {} THEN before
    ELSE (CHOOSE e \in es : \A x \in es :
             x.room < e.room \/ (x.room = e.room /\ x.seq <= e.seq)).seq

-----------------------------------------------------------------------------
(* client_connection.                                                      *)

\* Handshake: the subscription comes before the replay.
Subscribe(c) ==
    /\ clients[c].status = "off"
    /\ clients[c].tries < MaxConnects
    /\ clients' = [clients EXCEPT
         ![c].status = "subscribed", ![c].tries = @ + 1, ![c].last = -1,
         ![c].cursor = Len(channel[ServedBy[c]]) + 1]
    /\ UNCHANGED <<feed, runs, events, faults>>

\* want_replay_from is one number for all rooms.
StartReplay(c) ==
    LET h == ServedBy[c] IN
    /\ clients[c].status = "subscribed"
    /\ \E from \in 0 .. events :
         LET es == ReplayAll(h, from) IN
         clients' = [clients EXCEPT
           ![c].status = "live", ![c].from = from, ![c].rooms = OpenRooms(h),
           ![c].got = @ \cup es, ![c].last = LastSeq(es, -1)]
    /\ UNCHANGED <<feed, runs, events, faults>>

\* The oldest message the channel still holds.
Oldest(h) == IF Len(channel[h]) > ChannelSize THEN Len(channel[h]) - ChannelSize + 1 ELSE 1

Receive(c) ==
    LET h == ServedBy[c]
        i == clients[c].cursor
    IN  /\ clients[c].status = "live"
        /\ i \in Oldest(h) .. Len(channel[h])
        /\ clients' = [clients EXCEPT
             ![c].cursor = i + 1, ![c].got = @ \cup {channel[h][i]},
             ![c].last = channel[h][i].seq]
        /\ UNCHANGED <<feed, runs, events, faults>>

\* Mutant: a client that fell behind goes on with the oldest message.
LaggedSkips(c) ==
    LET h == ServedBy[c] IN
    /\ clients[c].status = "live"
    /\ clients[c].cursor < Oldest(h)
    /\ clients' = [clients EXCEPT ![c].cursor = Oldest(h)]
    /\ UNCHANGED <<feed, runs, events, faults>>

\* RecvError::Lagged: the receiver moves to the oldest message, and the gap is
\* replayed from the seq after the last one sent, whichever room that was of.
Lagged(c) ==
    LET h  == ServedBy[c]
        es == ReplayAll(h, clients[c].last + 1)
    IN  /\ clients[c].status = "live"
        /\ clients[c].cursor < Oldest(h)
        /\ clients' = [clients EXCEPT
             ![c].cursor = Oldest(h), ![c].got = @ \cup es, ![c].last = LastSeq(es, @)]
        /\ UNCHANGED <<feed, runs, events, faults>>

Disconnect(c) ==
    /\ clients[c].status # "off"
    /\ clients' = [clients EXCEPT ![c].status = "off"]
    /\ UNCHANGED <<feed, runs, events, faults>>

-----------------------------------------------------------------------------
(* The run behind a room: turns and migration between hosts.               *)

\* The first user message attaches the node; its worktree has no journal yet.
AttachRoom(h, r) ==
    /\ sessions[h][r].open
    /\ holder[r] = NoHost
    /\ holder' = [holder EXCEPT ![r] = h]
    /\ committed' = [committed EXCEPT ![r] = <<>>]
    /\ UNCHANGED <<feed, clients, pulling, acked, events, faults>>

\* The end of a turn: journal_jsonl is committed and pushed with the worktree.
CommitTurn(h, r) ==
    /\ sessions[h][r].open
    /\ holder[r] = h
    /\ committed' = [committed EXCEPT ![r] = ReplaySource(h, r, 0)]
    /\ UNCHANGED <<feed, clients, holder, pulling, acked, events, faults>>

\* release, or a published done: the claim is given back.
LeaveRoom(h, r) ==
    /\ holder[r] = h
    /\ holder' = [holder EXCEPT ![r] = NoHost]
    /\ UNCHANGED <<feed, clients, committed, pulling, acked, events, faults>>

\* The request is an envelope with seq 0 that is not journaled.
RequestEnvelope(r) == [room |-> r, seq |-> 0, id |-> events, journaled |-> FALSE]

\* HandoffPull of a local client: the frame handler opens the session, then
\* pull_node waits for the ack and broadcasts the request.  A second pull of the
\* node takes the place of the first one's waiter.
Pull(h, r) ==
    /\ holder[r] \in Hosts \ {h}
    /\ events < MaxEvents
    /\ sessions' = [sessions EXCEPT ![h][r] = Opened(h, r)]
    /\ channel' = [channel EXCEPT ![h] = Append(@, RequestEnvelope(r))]
    /\ pulling' = pulling \cup {<<h, r>>}
    /\ events' = events + 1
    /\ UNCHANGED <<disk, pending, clients, holder, committed, acked, faults>>

\* Nobody answered in time, or a later pull has replaced the waiter: both remove the
\* waiter of the node, whoever's it is.
PullTimeout(h, r) ==
    /\ <<h, r>> \in pulling
    /\ pulling' = pulling \ {<<h, r>>}
    /\ UNCHANGED <<feed, clients, holder, committed, acked, events, faults>>

\* The holder serves the request: its run is handed over, the ack goes to the room.
ServeHandoff(h, r) ==
    /\ holder[r] = h
    /\ \E p \in pulling : p[2] = r
    /\ holder' = [holder EXCEPT ![r] = NoHost]
    /\ acked' = acked \cup {r}
    /\ UNCHANGED <<feed, clients, committed, pulling, events, faults>>

\* seed_journal refuses when the session is open; resume_node ignores the refusal.
Seeded(h, r) ==
    IF sessions[h][r].open THEN disk ELSE [disk EXCEPT ![h][r] = committed[r]]

\* The ack reaches the host that waits.  Somebody may have attached the node since.
ResumeNode(h, r) ==
    /\ <<h, r>> \in pulling
    /\ r \in acked
    /\ pulling' = pulling \ {<<h, r>>}
    /\ acked' = acked \ {r}
    /\ IF holder[r] = NoHost
       THEN disk' = Seeded(h, r) /\ holder' = [holder EXCEPT ![r] = h]
       ELSE UNCHANGED <<disk, holder>>
    /\ UNCHANGED <<sessions, pending, channel, clients, committed, events, faults>>

\* An ack nobody waits for any more.
DropAck(r) ==
    /\ r \in acked
    /\ \A p \in pulling : p[2] # r
    /\ acked' = acked \ {r}
    /\ UNCHANGED <<feed, clients, holder, committed, pulling, events, faults>>

\* The process of a host dies and is started again: only the files are left.
Restart(h) ==
    /\ restarts < MaxRestarts
    /\ restarts' = restarts + 1
    /\ sessions' = [sessions EXCEPT ![h] = [r \in Rooms |-> Closed]]
    /\ pending' = [pending EXCEPT ![h] = {}]
    /\ channel' = [channel EXCEPT ![h] = <<>>]
    /\ clients' = [c \in Clients |->
                     IF ServedBy[c] = h THEN [clients[c] EXCEPT !.status = "off"]
                                        ELSE clients[c]]
    /\ holder' = [r \in Rooms |-> IF holder[r] = h THEN DeadHost ELSE holder[r]]
    /\ pulling' = {p \in pulling : p[1] # h}
    /\ UNCHANGED <<disk, committed, acked, events, lostLines>>

-----------------------------------------------------------------------------
HostStep(h) ==
    \/ \E r \in Rooms :
         \/ OpenSession(h, r) \/ Publish(h, r)
         \/ AttachRoom(h, r) \/ CommitTurn(h, r) \/ LeaveRoom(h, r)
         \/ Pull(h, r) \/ PullTimeout(h, r)
         \/ ServeHandoff(h, r) \/ ResumeNode(h, r)
    \/ Broadcast(h)
    \/ Restart(h)

ClientStep(c) ==
    Subscribe(c) \/ StartReplay(c) \/ Receive(c) \/ Lagged(c) \/ Disconnect(c)

Next ==
    \/ \E h \in Hosts : HostStep(h)
    \/ \E c \in Clients : ClientStep(c)
    \/ \E r \in Rooms : DropAck(r)

Spec == Init /\ [][Next]_vars

-----------------------------------------------------------------------------
(* Properties.                                                             *)

Entries(s) == {s[i] : i \in DOMAIN s}

Increasing(s) == \A i, j \in DOMAIN s : i < j => s[i].seq < s[j].seq

\* Whatever fails, restarts or moves, the seqs of a journal only grow: on disk, in
\* the buffer, in what a turn commits; and the next seq is larger than all of them.
\* (session.rs open and append, ws.rs journal_jsonl).
JournalOrdered ==
    \A h \in Hosts, r \in Rooms :
        /\ Increasing(disk[h][r])
        /\ Increasing(committed[r])
        /\ sessions[h][r].open =>
               /\ Increasing(sessions[h][r].buf)
               /\ \A e \in Entries(sessions[h][r].buf) \cup Entries(disk[h][r]) :
                      e.seq < sessions[h][r].next

JournalInv == JournalType /\ JournalOrdered

\* A live client misses no journaled event of the rooms its replay covered: each one
\* was sent to it, or is ahead of its receiver, or is about to be broadcast
\* (ws.rs client_connection: subscription before replay, catch-up after a lag).
FeedComplete ==
    \A c \in Clients :
        LET h == ServedBy[c] IN
        clients[c].status = "live" =>
            \A r \in clients[c].rooms :
                \A e \in Entries(disk[h][r]) \cup Entries(sessions[h][r].buf) :
                    e.seq >= clients[c].from =>
                        \/ e \in clients[c].got
                        \/ e \in pending[h]
                        \/ \E i \in clients[c].cursor .. Len(channel[h]) :
                               channel[h][i] = e

\* A client drops duplicates by seq, so it must never have been sent another event
\* under the seq of a journaled one (session.rs: "seq is monotonic within a run").
SeqIdentifiesEvent ==
    \A c \in Clients : \A e, f \in clients[c].got :
        (e.journaled /\ e.room = f.room /\ e.seq = f.seq) => e = f
=============================================================================
