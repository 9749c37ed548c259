------------------------- MODULE SessionFeed_proofs -------------------------
(***************************************************************************)
(* Journals stay ordered: for all rooms, hosts, clients and bounds, and    *)
(* whatever restarts, fails to write or moves between hosts.               *)
(*                                                                         *)
(* What clients are sent, under the conditions the code needs for it: a    *)
(* seq identifies its event on one host that is not restarted; the feed    *)
(* is complete as long as no client falls behind, and, with one room and   *)
(* one publisher at a time, whatever a client falls behind.                *)
(***************************************************************************)
EXTENDS SessionFeed, SequenceTheorems, FiniteSetTheorems, TLAPS

-----------------------------------------------------------------------------
(* Sequences of envelopes.                                                 *)

\* Every seq of a list is below a bound.
Below(s, n) == \A i \in DOMAIN s : s[i].seq < n

\* The tail a buffer keeps is a list of envelopes of the original, in its order.
LEMMA TailedProperties ==
  ASSUME NEW s \in Seq(Envelope), Increasing(s), FeedAssumption
  PROVE  /\ Tailed(s) \in Seq(Envelope)
         /\ Increasing(Tailed(s))
         /\ \A n \in Nat : Below(s, n) => Below(Tailed(s), n)
<1> DEFINE m == IF Len(s) > BufferSize THEN Len(s) - BufferSize + 1 ELSE 1
<1>1. /\ Len(s) \in Nat /\ DOMAIN s = 1 .. Len(s)
      /\ m \in Nat /\ m >= 1
  BY LenProperties DEF FeedAssumption
<1>2. \A i \in m .. Len(s) : s[i] \in Envelope
  BY <1>1, ElementOfSeq
<1>3. /\ Tailed(s) \in Seq(Envelope)
      /\ Len(Tailed(s)) = IF m <= Len(s) THEN Len(s) - m + 1 ELSE 0
      /\ \A i \in 1 .. Len(s) - m + 1 : Tailed(s)[i] = s[m + i - 1]
  <2>1. Tailed(s) = SubSeq(s, m, Len(s))
    BY DEF Tailed
  <2> HIDE DEF m
  <2>2. m \in Int /\ Len(s) \in Int
    BY <1>1
  <2>3. \A S, q : \A a, b \in Int : (\A i \in a .. b : q[i] \in S) =>
          /\ SubSeq(q, a, b) \in Seq(S)
          /\ Len(SubSeq(q, a, b)) = IF a <= b THEN b - a + 1 ELSE 0
          /\ \A i \in 1 .. b - a + 1 : SubSeq(q, a, b)[i] = q[a + i - 1]
    BY SubSeqProperties
  <2> QED  BY <1>2, <2>1, <2>2, <2>3
<1>4. DOMAIN Tailed(s) = 1 .. Len(Tailed(s))
  BY <1>3, LenProperties
<1>5. \A i \in DOMAIN Tailed(s) :
        Tailed(s)[i] = s[m + i - 1] /\ m + i - 1 \in DOMAIN s
  <2> HIDE DEF m
  <2> SUFFICES ASSUME NEW i \in DOMAIN Tailed(s)
               PROVE  Tailed(s)[i] = s[m + i - 1] /\ m + i - 1 \in DOMAIN s
    OBVIOUS
  <2>1. m <= Len(s) /\ i \in 1 .. Len(s) - m + 1
    <3>1. CASE m <= Len(s)
      BY <1>1, <1>3, <1>4, <3>1
    <3>2. CASE ~(m <= Len(s))
      BY <1>3, <1>4, <3>2
    <3> QED  BY <3>1, <3>2
  <2>2. m + i - 1 \in 1 .. Len(s)
    BY <1>1, <2>1
  <2> QED  BY <1>1, <1>3, <2>1, <2>2
<1>6. Increasing(Tailed(s))
  <2> HIDE DEF m
  <2> SUFFICES ASSUME NEW i \in DOMAIN Tailed(s), NEW j \in DOMAIN Tailed(s), i < j
               PROVE  Tailed(s)[i].seq < Tailed(s)[j].seq
    BY DEF Increasing
  <2>1. i \in Int /\ j \in Int
    BY <1>1, <1>3, <1>4
  <2>2. m + i - 1 < m + j - 1
    BY <1>1, <2>1
  <2> QED  BY <1>5, <2>2 DEF Increasing
<1>7. \A n \in Nat : Below(s, n) => Below(Tailed(s), n)
  BY <1>5 DEF Below
<1> QED  BY <1>3, <1>6, <1>7

\* Appending the next seq to a list of smaller ones.
LEMMA AppendIncreasing ==
  ASSUME NEW s \in Seq(Envelope), NEW e \in Envelope, Increasing(s), Below(s, e.seq)
  PROVE  /\ Append(s, e) \in Seq(Envelope)
         /\ Increasing(Append(s, e))
         /\ Below(Append(s, e), e.seq + 1)
<1>1. /\ Append(s, e) \in Seq(Envelope)
      /\ Len(Append(s, e)) = Len(s) + 1
      /\ \A i \in 1 .. Len(s) : Append(s, e)[i] = s[i]
      /\ Append(s, e)[Len(s) + 1] = e
  BY AppendProperties
<1>2. /\ Len(s) \in Nat /\ DOMAIN s = 1 .. Len(s)
      /\ DOMAIN Append(s, e) = 1 .. Len(s) + 1
  BY <1>1, LenProperties
<1>3. \A i \in DOMAIN s : s[i].seq \in Nat
  <2>1. \A i \in DOMAIN s : s[i] \in Envelope
    BY ElementOfSeq, <1>2
  <2> QED  BY <2>1 DEF Envelope
<1>4. e.seq \in Nat
  BY DEF Envelope
<1>5. \A i \in DOMAIN Append(s, e) : i \in DOMAIN s \/ i = Len(s) + 1
  BY <1>2
<1>6. Increasing(Append(s, e))
  <2> SUFFICES ASSUME NEW i \in DOMAIN Append(s, e), NEW j \in DOMAIN Append(s, e), i < j
               PROVE  Append(s, e)[i].seq < Append(s, e)[j].seq
    BY DEF Increasing
  <2>1. i \in DOMAIN s
    BY <1>2
  <2>2. CASE j \in DOMAIN s
    BY <1>1, <1>2, <2>1, <2>2 DEF Increasing
  <2>3. CASE j = Len(s) + 1
    BY <1>1, <1>2, <2>1, <2>3 DEF Below
  <2> QED  BY <1>5, <2>2, <2>3
<1>7. Below(Append(s, e), e.seq + 1)
  <2> SUFFICES ASSUME NEW i \in DOMAIN Append(s, e)
               PROVE  Append(s, e)[i].seq < e.seq + 1
    BY DEF Below
  <2>1. CASE i \in DOMAIN s
    <3>1. Append(s, e)[i].seq < e.seq /\ Append(s, e)[i].seq \in Nat
      BY <1>1, <1>2, <1>3, <2>1 DEF Below
    <3> QED  BY <1>4, <3>1
  <2>2. CASE i = Len(s) + 1
    BY <1>1, <1>4, <2>2
  <2> QED  BY <1>5, <2>1, <2>2
<1> QED  BY <1>1, <1>6, <1>7

LEMMA EmptyJournal ==
  /\ <<>> \in Seq(Envelope)
  /\ Increasing(<<>>)
BY EmptySeq DEF Increasing

-----------------------------------------------------------------------------
(* The session of one room.                                                *)

\* What an open session promises for the journal on its disk.
Sound(session, lines) ==
  /\ session \in SessionState
  /\ session.open =>
       /\ Increasing(session.buf)
       /\ Below(session.buf, session.next)
       /\ Below(lines, session.next)

\* A session restored from an ordered file continues behind it.
LEMMA RestoredSound ==
  ASSUME FeedAssumption, NEW lines \in Seq(Envelope), Increasing(lines)
  PROVE  Sound(Restored(lines), lines)
<1>1. CASE lines = <<>>
  <2>1. Below(lines, 0)
    BY <1>1 DEF Below
  <2>2. /\ Tailed(lines) \in Seq(Envelope) /\ Increasing(Tailed(lines))
        /\ Below(Tailed(lines), 0)
    BY <2>1, TailedProperties
  <2>3. Restored(lines) = [open |-> TRUE, next |-> 0, buf |-> Tailed(lines)]
    BY <1>1 DEF Restored
  <2> QED  BY <2>1, <2>2, <2>3 DEF Sound, SessionState
<1>2. CASE lines # <<>>
  <2> DEFINE last == lines[Len(lines)]
  <2>1. Len(lines) \in DOMAIN lines /\ last \in Envelope /\ DOMAIN lines = 1 .. Len(lines)
        /\ Len(lines) \in Nat
    BY <1>2, LenProperties, ElementOfSeq, EmptySeq
  <2>2. last.seq + 1 \in Nat /\ last.seq \in Nat
    BY <2>1 DEF Envelope
  <2>3. Below(lines, last.seq + 1)
    <3> SUFFICES ASSUME NEW i \in DOMAIN lines
                 PROVE  lines[i].seq < last.seq + 1
      BY DEF Below
    <3>0. lines[i] \in Envelope
      BY <2>1, ElementOfSeq
    <3>1. lines[i].seq \in Nat
      BY <3>0 DEF Envelope
    <3>2. CASE i = Len(lines)
      BY <2>2, <3>2
    <3>3. CASE i # Len(lines)
      <4>1. i < Len(lines)
        BY <2>1, <3>3
      <4>2. lines[i].seq < last.seq
        BY <2>1, <4>1 DEF Increasing
      <4> QED  BY <2>2, <3>1, <4>2
    <3> QED  BY <3>2, <3>3
  <2>4. /\ Tailed(lines) \in Seq(Envelope) /\ Increasing(Tailed(lines))
        /\ Below(Tailed(lines), last.seq + 1)
    BY <2>2, <2>3, TailedProperties
  <2>5. Restored(lines) = [open |-> TRUE, next |-> last.seq + 1, buf |-> Tailed(lines)]
    BY <1>2 DEF Restored
  <2> QED  BY <2>2, <2>3, <2>4, <2>5 DEF Sound, SessionState
<1> QED  BY <1>1, <1>2

\* JournalOrdered, room by room.
LEMMA OrderedIsSound ==
  ASSUME JournalType
  PROVE  JournalOrdered <=>
           /\ \A h \in Hosts, r \in Rooms :
                Increasing(disk[h][r]) /\ Sound(sessions[h][r], disk[h][r])
           /\ \A h \in Hosts, r \in Rooms : Increasing(committed[r])
<1>1. \A h \in Hosts, r \in Rooms : sessions[h][r] \in SessionState
  BY DEF JournalType
<1>2. ASSUME NEW h \in Hosts, NEW r \in Rooms
      PROVE  (\A e \in Entries(sessions[h][r].buf) \cup Entries(disk[h][r]) :
                 e.seq < sessions[h][r].next)
             <=> Below(sessions[h][r].buf, sessions[h][r].next)
                 /\ Below(disk[h][r], sessions[h][r].next)
  BY DEF Entries, Below
<1> QED  BY <1>1, <1>2 DEF JournalOrdered, Sound

\* JournalInv in the form the steps below preserve: one fact per journal.
Journals ==
  /\ \A h \in Hosts, r \in Rooms :
       /\ disk[h][r] \in Seq(Envelope) /\ Increasing(disk[h][r])
       /\ Sound(sessions[h][r], disk[h][r])
  /\ \A r \in Rooms :
       committed[r] \in Seq(Envelope) /\ (Hosts # {} => Increasing(committed[r]))

LEMMA InvIsJournals ==
  ASSUME JournalType
  PROVE  JournalOrdered <=> Journals
<1>1. /\ \A h \in Hosts, r \in Rooms : disk[h][r] \in Seq(Envelope)
      /\ \A r \in Rooms : committed[r] \in Seq(Envelope)
  BY DEF JournalType
<1>2. (\A h \in Hosts, r \in Rooms : Increasing(committed[r]))
        <=> \A r \in Rooms : Hosts # {} => Increasing(committed[r])
  OBVIOUS
<1> QED  BY <1>1, <1>2, OrderedIsSound DEF Journals

-----------------------------------------------------------------------------
(* The steps.                                                              *)

\* Opening a session leaves it sound, whether or not it was open.
LEMMA OpenedSound ==
  ASSUME FeedAssumption, Journals, NEW h \in Hosts, NEW r \in Rooms
  PROVE  Sound(Opened(h, r), disk[h][r])
<1>1. CASE sessions[h][r].open
  BY <1>1 DEF Opened, Journals
<1>2. CASE ~sessions[h][r].open
  BY <1>2, RestoredSound DEF Opened, Journals
<1> QED  BY <1>1, <1>2

\* A closed session is sound whatever is on disk.
LEMMA ClosedSound ==
  ASSUME NEW session \in SessionState, ~session.open, NEW lines
  PROVE  Sound(session, lines)
BY DEF Sound

\* Session::append, with and without a successful write.
LEMMA AppendSound ==
  ASSUME FeedAssumption, JournalType, Journals,
         NEW h \in Hosts, NEW r \in Rooms, NEW journaled \in BOOLEAN,
         sessions[h][r].open, AppendTo(h, r, journaled)
  PROVE  /\ disk'[h][r] \in Seq(Envelope) /\ Increasing(disk'[h][r])
         /\ Sound(sessions'[h][r], disk'[h][r])
<1> DEFINE old == sessions[h][r]
           e == [room |-> r, seq |-> old.next, id |-> events, journaled |-> journaled]
           buf == IF journaled THEN Tailed(Append(old.buf, e)) ELSE old.buf
<1>1. /\ old \in SessionState /\ Increasing(old.buf) /\ Below(old.buf, old.next)
      /\ Below(disk[h][r], old.next)
      /\ disk[h][r] \in Seq(Envelope) /\ Increasing(disk[h][r])
  BY DEF Journals, Sound
<1>2. /\ old.buf \in Seq(Envelope) /\ old.next \in Nat /\ old.next + 1 \in Nat
      /\ old.open = TRUE
  BY <1>1 DEF SessionState
<1>3. e \in Envelope /\ e.seq = old.next
  BY <1>2 DEF Envelope, JournalType
<1>4. /\ Append(disk[h][r], e) \in Seq(Envelope)
      /\ Increasing(Append(disk[h][r], e))
      /\ Below(Append(disk[h][r], e), old.next + 1)
  <2> HIDE DEF e
  <2>1. Below(disk[h][r], e.seq)
    BY <1>1, <1>3
  <2> QED  BY <1>1, <1>3, <2>1, AppendIncreasing
<1>5. /\ Append(old.buf, e) \in Seq(Envelope)
      /\ Increasing(Append(old.buf, e))
      /\ Below(Append(old.buf, e), old.next + 1)
  <2> HIDE DEF e
  <2>1. Below(old.buf, e.seq)
    BY <1>1, <1>3
  <2> QED  BY <1>1, <1>2, <1>3, <2>1, AppendIncreasing
<1>6. \A s \in Seq(Envelope) : Below(s, old.next) => Below(s, old.next + 1)
  <2> SUFFICES ASSUME NEW s \in Seq(Envelope), Below(s, old.next), NEW i \in DOMAIN s
               PROVE  s[i].seq < old.next + 1
    BY DEF Below
  <2>1. s[i] \in Envelope
    BY ElementOfSeq, LenProperties
  <2>2. s[i].seq \in Nat /\ s[i].seq < old.next
    BY <2>1 DEF Envelope, Below
  <2>3. \A a, b \in Nat : a < b => a < b + 1
    OBVIOUS
  <2> QED  BY <1>2, <2>2, <2>3
<1>7. buf \in Seq(Envelope) /\ Increasing(buf) /\ Below(buf, old.next + 1)
  BY <1>1, <1>2, <1>5, <1>6, TailedProperties
<1>8. sessions'[h][r] = [open |-> TRUE, next |-> old.next + 1, buf |-> buf]
  <2>1. sessions' = [sessions EXCEPT ![h][r].next = @ + 1,
                                     ![h][r].buf = IF journaled THEN Tailed(Append(@, e))
                                                   ELSE @]
    BY DEF AppendTo
  <2>2. sessions'[h][r] = [[old EXCEPT !.next = old.next + 1] EXCEPT !.buf = buf]
    <3> HIDE DEF e
    <3> QED  BY <2>1 DEF JournalType, SessionState
  <2> HIDE DEF buf
  <2> QED  BY <1>1, <1>2, <2>2 DEF SessionState
<1>9. disk'[h][r] = disk[h][r] \/ disk'[h][r] = Append(disk[h][r], e)
  <2> HIDE DEF e
  <2> QED  BY DEF AppendTo, JournalType, e
<1>10. /\ disk'[h][r] \in Seq(Envelope) /\ Increasing(disk'[h][r])
       /\ Below(disk'[h][r], old.next + 1)
  <2> HIDE DEF e
  <2> QED  BY <1>1, <1>4, <1>6, <1>9
<1> HIDE DEF buf, e, old
<1> QED  BY <1>2, <1>7, <1>8, <1>10 DEF Sound, SessionState

\* Steps that touch neither sessions, files nor committed journals.
Elsewhere == UNCHANGED <<sessions, disk, committed>>

\* One step changes one journal, and that one soundly.
LEMMA HostStepJournals ==
  ASSUME FeedAssumption, JournalType, Journals, NEW h \in Hosts, HostStep(h)
  PROVE  Journals'
<1>1. ASSUME NEW r \in Rooms, OpenSession(h, r) \/ Pull(h, r)  PROVE Journals'
  <2>1. sessions' = [sessions EXCEPT ![h][r] = Opened(h, r)]
        /\ UNCHANGED <<disk, committed>>
    BY <1>1 DEF OpenSession, Pull, runs
  <2> QED  BY <2>1, OpenedSound DEF Journals, JournalType
<1>2. ASSUME NEW r \in Rooms, Publish(h, r)  PROVE Journals'
  <2>1. PICK journaled \in BOOLEAN : AppendTo(h, r, journaled)
    BY <1>2 DEF Publish
  <2>2. /\ disk'[h][r] \in Seq(Envelope) /\ Increasing(disk'[h][r])
        /\ Sound(sessions'[h][r], disk'[h][r])
    BY <1>2, <2>1, AppendSound DEF Publish
  <2>3. \A g \in Hosts, q \in Rooms : <<g, q>> # <<h, r>> =>
          disk'[g][q] = disk[g][q] /\ sessions'[g][q] = sessions[g][q]
    BY SMTT(30), <2>1 DEF AppendTo, JournalType
  <2>4. committed' = committed
    BY <1>2 DEF Publish, runs
  <2> QED  BY SMTT(30), <2>2, <2>3, <2>4 DEF Journals
<1>3. ASSUME NEW r \in Rooms, CommitTurn(h, r)  PROVE Journals'
  <2>1. /\ committed' = [committed EXCEPT ![r] = ReplaySource(h, r, 0)]
        /\ UNCHANGED <<sessions, disk>> /\ sessions[h][r].open
    BY <1>3 DEF CommitTurn, feed
  <2>2. /\ sessions[h][r].buf \in Seq(Envelope) /\ Increasing(sessions[h][r].buf)
        /\ disk[h][r] \in Seq(Envelope) /\ Increasing(disk[h][r])
    BY <2>1 DEF Journals, Sound, SessionState
  <2>3. ReplaySource(h, r, 0) \in Seq(Envelope) /\ Increasing(ReplaySource(h, r, 0))
    BY <2>2 DEF ReplaySource
  <2> QED  BY <2>1, <2>3 DEF Journals, JournalType
<1>4. ASSUME NEW r \in Rooms, AttachRoom(h, r)  PROVE Journals'
  BY <1>4, EmptyJournal DEF AttachRoom, feed, Journals, JournalType
<1>5. ASSUME NEW r \in Rooms, ResumeNode(h, r)  PROVE Journals'
  <2>1. UNCHANGED <<sessions, committed>>
    BY <1>5 DEF ResumeNode
  <2>2. CASE disk' = disk
    BY <2>1, <2>2 DEF Journals
  <2>3. CASE disk' = [disk EXCEPT ![h][r] = committed[r]] /\ ~sessions[h][r].open
    <3>1. Sound(sessions[h][r], committed[r])
      <4>1. sessions[h][r] \in SessionState
        BY DEF JournalType
      <4> QED  BY <2>3, <4>1, ClosedSound
    <3> QED  BY <2>1, <2>3, <3>1 DEF Journals, JournalType
  <2> QED  BY <1>5, <2>2, <2>3 DEF ResumeNode, Seeded
<1>6. ASSUME Restart(h)  PROVE Journals'
  <2>1. /\ sessions' = [sessions EXCEPT ![h] = [r \in Rooms |-> Closed]]
        /\ UNCHANGED <<disk, committed>>
    BY <1>6 DEF Restart
  <2>2. Closed \in SessionState /\ ~Closed.open
    BY EmptySeq DEF Closed, SessionState
  <2>3. \A lines : Sound(Closed, lines)
    BY <2>2, ClosedSound
  <2> QED  BY <2>1, <2>3 DEF Journals, JournalType
<1>7. ASSUME Elsewhere  PROVE Journals'
  BY <1>7 DEF Elsewhere, Journals
<1>8. ASSUME NEW r \in Rooms,
             LeaveRoom(h, r) \/ PullTimeout(h, r) \/ ServeHandoff(h, r)
      PROVE  Elsewhere
  BY <1>8 DEF LeaveRoom, PullTimeout, ServeHandoff, feed, Elsewhere
<1>9. ASSUME Broadcast(h)  PROVE Elsewhere
  BY <1>9 DEF Broadcast, runs, Elsewhere
<1> QED  BY <1>1, <1>2, <1>3, <1>4, <1>5, <1>6, <1>7, <1>8, <1>9 DEF HostStep

\* Clients and dropped acks leave the journals alone.
LEMMA OtherSteps ==
  ASSUME \/ \E c \in Clients : ClientStep(c)
         \/ \E r \in Rooms : DropAck(r)
         \/ UNCHANGED vars
  PROVE  Elsewhere /\ events' = events
BY DEF ClientStep, Subscribe, StartReplay, Receive, Lagged, Disconnect, DropAck,
       vars, feed, runs, Elsewhere

\* A table with an entry for each host and room.
Table(f) == f = [h \in Hosts |-> [r \in Rooms |-> f[h][r]]]

LEMMA TableUpdate ==
  ASSUME NEW f, Table(f), NEW h \in Hosts, NEW r \in Rooms, NEW v
  PROVE  Table([f EXCEPT ![h][r] = v])
BY DEF Table

\* Every step of a host leaves tables, and counts at most one event.
LEMMA HostStepTables ==
  ASSUME FeedAssumption, JournalType, NEW h \in Hosts, HostStep(h)
  PROVE  Table(sessions') /\ Table(disk') /\ events' \in Nat
<1>1. Table(sessions) /\ Table(disk) /\ events \in Nat /\ events + 1 \in Nat
  BY DEF JournalType, Table
<1>2. ASSUME NEW r \in Rooms, OpenSession(h, r) \/ Pull(h, r)
      PROVE  Table(sessions') /\ Table(disk') /\ events' \in Nat
  <2>1. /\ sessions' = [sessions EXCEPT ![h][r] = Opened(h, r)]
        /\ disk' = disk
        /\ events' = events \/ events' = events + 1
    BY <1>2 DEF OpenSession, Pull
  <2> QED  BY <1>1, <2>1, TableUpdate
<1>3. ASSUME NEW r \in Rooms, Publish(h, r)
      PROVE  Table(sessions') /\ Table(disk') /\ events' \in Nat
  <2>1. PICK journaled \in BOOLEAN : AppendTo(h, r, journaled)
    BY <1>3 DEF Publish
  <2>2. events' = events + 1
    BY <1>3 DEF Publish
  <2>3. Table(sessions')
    <3>1. /\ sessions' = [g \in Hosts |-> sessions'[g]]
          /\ \A g \in Hosts : sessions'[g] = [q \in Rooms |-> sessions'[g][q]]
      BY <2>1 DEF AppendTo, JournalType
    <3> QED  BY <3>1 DEF Table
  <2>4. \/ disk' = disk
        \/ \E e : disk' = [disk EXCEPT ![h][r] = Append(disk[h][r], e)]
    <3>1. CASE UNCHANGED disk
      BY <3>1
    <3>2. CASE ~ UNCHANGED disk
      <4> DEFINE e == [room |-> r, seq |-> sessions[h][r].next, id |-> events,
                       journaled |-> journaled]
      <4>1. disk' = [disk EXCEPT ![h][r] = Append(@, e)]
        BY <2>1, <3>2 DEF AppendTo
      <4>2. disk' = [disk EXCEPT ![h][r] = Append(disk[h][r], e)]
        BY <4>1 DEF JournalType
      <4> QED  BY <4>2
    <3> QED  BY <3>1, <3>2
  <2>5. Table(disk')
    <3>1. CASE disk' = disk
      BY <1>1, <3>1
    <3>2. ASSUME NEW e, disk' = [disk EXCEPT ![h][r] = Append(disk[h][r], e)]
          PROVE  Table(disk')
      <4> DEFINE v == Append(disk[h][r], e)
      <4> HIDE DEF v
      <4>1. Table([disk EXCEPT ![h][r] = v])
        BY <1>1, TableUpdate
      <4>2. disk' = [disk EXCEPT ![h][r] = v]
        BY <3>2 DEF v
      <4> QED  BY <4>1, <4>2
    <3> QED  BY <2>4, <3>1, <3>2
  <2> QED  BY <1>1, <2>2, <2>3, <2>5
<1>4. ASSUME NEW r \in Rooms, ResumeNode(h, r)
      PROVE  Table(sessions') /\ Table(disk') /\ events' \in Nat
  <2>1. /\ sessions' = sessions /\ events' = events
        /\ disk' = disk \/ disk' = [disk EXCEPT ![h][r] = committed[r]]
    BY <1>4 DEF ResumeNode, Seeded
  <2> QED  BY <1>1, <2>1, TableUpdate
<1>5. ASSUME Restart(h)
      PROVE  Table(sessions') /\ Table(disk') /\ events' \in Nat
  <2>1. /\ sessions' = [sessions EXCEPT ![h] = [r \in Rooms |-> Closed]]
        /\ disk' = disk /\ events' = events
    BY <1>5 DEF Restart
  <2> QED  BY <1>1, <2>1 DEF Table
<1>6. ASSUME \/ Broadcast(h)
             \/ \E r \in Rooms :
                  \/ AttachRoom(h, r) \/ CommitTurn(h, r) \/ LeaveRoom(h, r)
                  \/ PullTimeout(h, r) \/ ServeHandoff(h, r)
      PROVE  Table(sessions') /\ Table(disk') /\ events' \in Nat
  <2>1. UNCHANGED <<sessions, disk, events>>
    BY <1>6 DEF AttachRoom, CommitTurn, LeaveRoom, PullTimeout, ServeHandoff,
                Broadcast, feed
  <2> QED  BY <1>1, <2>1
<1> QED  BY <1>2, <1>3, <1>4, <1>5, <1>6 DEF HostStep

\* The types of the journals follow from sound journals in whole tables.
LEMMA TypeStep ==
  ASSUME FeedAssumption, JournalType, Journals, [Next]_vars, Journals'
  PROVE  JournalType'
<1>1. Table(sessions') /\ Table(disk') /\ events' \in Nat
  <2>1. ASSUME NEW h \in Hosts, HostStep(h)
        PROVE  Table(sessions') /\ Table(disk') /\ events' \in Nat
    BY <2>1, HostStepTables
  <2>2. ASSUME Elsewhere /\ events' = events
        PROVE  Table(sessions') /\ Table(disk') /\ events' \in Nat
    BY <2>2 DEF Elsewhere, JournalType, Table
  <2> QED  BY <2>1, <2>2, OtherSteps DEF Next
<1>2. /\ sessions' \in [Hosts -> [Rooms -> SessionState]]
      /\ disk' \in [Hosts -> [Rooms -> Seq(Envelope)]]
  <2>1. \A h \in Hosts, r \in Rooms :
          sessions'[h][r] \in SessionState /\ disk'[h][r] \in Seq(Envelope)
    BY DEF Journals, Sound
  <2> QED  BY <1>1, <2>1 DEF Table
<1>3. committed' \in [Rooms -> Seq(Envelope)]
  <2>1. \A r \in Rooms : committed'[r] \in Seq(Envelope)
    BY DEF Journals
  <2>2. DOMAIN committed' = Rooms /\ committed' = [r \in Rooms |-> committed'[r]]
    BY ZenonT(60), OtherSteps DEF Next, HostStep, OpenSession, Publish, AttachRoom, CommitTurn,
       LeaveRoom, Pull, PullTimeout, ServeHandoff, ResumeNode, Broadcast, Restart,
       runs, Elsewhere, JournalType
  <2> QED  BY <2>1, <2>2
<1> QED  BY <1>1, <1>2, <1>3 DEF JournalType

LEMMA JournalStep ==
  ASSUME FeedAssumption, JournalInv, [Next]_vars
  PROVE  JournalInv'
<1>1. JournalType /\ Journals
  BY InvIsJournals DEF JournalInv
<1>2. Journals'
  <2>1. ASSUME Elsewhere  PROVE Journals'
    BY <1>1, <2>1 DEF Elsewhere, Journals
  <2> QED  BY <1>1, <2>1, HostStepJournals, OtherSteps DEF Next
<1>3. JournalType'
  BY <1>1, <1>2, TypeStep
<1>4. JournalOrdered'
  <2>1. JournalType' => (JournalOrdered' <=> Journals')
    BY InvIsJournals, PTL
  <2> QED  BY <1>2, <1>3, <2>1
<1> QED  BY <1>3, <1>4 DEF JournalInv

LEMMA JournalInit ==
  ASSUME FeedAssumption, Init
  PROVE  JournalInv
<1>1. Closed \in SessionState
  BY EmptySeq DEF Closed, SessionState
<1>2. JournalType
  BY <1>1, EmptySeq DEF Init, JournalType
<1>3. JournalOrdered
  BY EmptyJournal DEF Init, JournalOrdered, Closed
<1> QED  BY <1>2, <1>3 DEF JournalInv

\* Journals stay ordered (session.rs open, append, seed_journal; ws.rs journal_jsonl):
\* the seqs of every file, buffer and committed journal grow, and the next seq of an
\* open session is larger than all of them.
THEOREM JournalStaysOrdered == Spec => []JournalInv
<1>1. Init => JournalInv
  BY FeedAssumption, JournalInit
<1>2. JournalInv /\ [Next]_vars => JournalInv'
  BY FeedAssumption, JournalStep
<1> QED  BY <1>1, <1>2, PTL DEF Spec

-----------------------------------------------------------------------------
(* The end of a list, as a buffer keeps it.                                *)

\* s is the end of t, and only a list without entries ends in nothing.
Suffix(s, t) ==
    /\ Len(s) <= Len(t)
    /\ \A i \in DOMAIN s : s[i] = t[Len(t) - Len(s) + i]
    /\ s = <<>> => t = <<>>

LEMMA SuffixEntries ==
  ASSUME NEW s \in Seq(Envelope), NEW t \in Seq(Envelope), Suffix(s, t)
  PROVE  Entries(s) \subseteq Entries(t)
<1>1. /\ DOMAIN s = 1 .. Len(s) /\ DOMAIN t = 1 .. Len(t)
      /\ Len(s) \in Nat /\ Len(t) \in Nat
  BY LenProperties
<1>2. \A i \in DOMAIN s : Len(t) - Len(s) + i \in DOMAIN t
  BY <1>1 DEF Suffix
<1> QED  BY <1>2 DEF Suffix, Entries

\* The tail a buffer keeps.
LEMMA TailedSuffix ==
  ASSUME NEW s \in Seq(Envelope), FeedAssumption
  PROVE  Tailed(s) \in Seq(Envelope) /\ Suffix(Tailed(s), s)
<1> DEFINE m == IF Len(s) > BufferSize THEN Len(s) - BufferSize + 1 ELSE 1
<1>1. /\ Len(s) \in Nat /\ DOMAIN s = 1 .. Len(s)
      /\ m \in Nat /\ m >= 1 /\ (Len(s) > 0 => m <= Len(s))
  BY LenProperties DEF FeedAssumption
<1>2. \A i \in m .. Len(s) : s[i] \in Envelope
  BY <1>1, ElementOfSeq
<1>3. Tailed(s) = SubSeq(s, m, Len(s))
  BY DEF Tailed
<1> HIDE DEF m
<1>4. /\ Tailed(s) \in Seq(Envelope)
      /\ Len(Tailed(s)) = IF m <= Len(s) THEN Len(s) - m + 1 ELSE 0
      /\ \A i \in 1 .. Len(s) - m + 1 : Tailed(s)[i] = s[m + i - 1]
  <2>1. m \in Int /\ Len(s) \in Int
    BY <1>1
  <2>2. \A S, q : \A a, b \in Int : (\A i \in a .. b : q[i] \in S) =>
          /\ SubSeq(q, a, b) \in Seq(S)
          /\ Len(SubSeq(q, a, b)) = IF a <= b THEN b - a + 1 ELSE 0
          /\ \A i \in 1 .. b - a + 1 : SubSeq(q, a, b)[i] = q[a + i - 1]
    BY SubSeqProperties
  <2> QED  BY <1>2, <1>3, <2>1, <2>2
<1>5. DOMAIN Tailed(s) = 1 .. Len(Tailed(s))
  BY <1>4, LenProperties
<1>6. CASE Len(s) = 0
  <2>1. s = <<>> /\ Len(Tailed(s)) = 0
    BY <1>1, <1>4, <1>6, EmptySeq
  <2> QED  BY <1>1, <1>4, <1>5, <1>6, <2>1 DEF Suffix
<1>7. CASE Len(s) > 0
  <2>1. Len(Tailed(s)) = Len(s) - m + 1 /\ Len(Tailed(s)) \in Nat /\ Len(Tailed(s)) # 0
        /\ Len(Tailed(s)) <= Len(s)
    BY <1>1, <1>4, <1>7
  <2>2. Tailed(s) # <<>>
    BY <2>1, EmptySeq
  <2>3. \A i \in DOMAIN Tailed(s) : Tailed(s)[i] = s[Len(s) - Len(Tailed(s)) + i]
    <3> SUFFICES ASSUME NEW i \in 1 .. Len(s) - m + 1
                 PROVE  Tailed(s)[i] = s[Len(s) - Len(Tailed(s)) + i]
      BY <1>5, <2>1
    <3>1. Len(s) - Len(Tailed(s)) + i = m + i - 1
      BY <1>1, <2>1
    <3> QED  BY <1>4, <3>1
  <2> QED  BY <1>4, <2>1, <2>2, <2>3 DEF Suffix
<1> QED  BY <1>1, <1>6, <1>7

LEMMA SuffixTransitive ==
  ASSUME NEW s \in Seq(Envelope), NEW t \in Seq(Envelope), NEW u \in Seq(Envelope),
         Suffix(s, t), Suffix(t, u)
  PROVE  Suffix(s, u)
<1>1. /\ DOMAIN s = 1 .. Len(s) /\ DOMAIN t = 1 .. Len(t)
      /\ Len(s) \in Nat /\ Len(t) \in Nat /\ Len(u) \in Nat
      /\ Len(s) <= Len(t) /\ Len(t) <= Len(u)
  BY LenProperties DEF Suffix
<1>2. ASSUME NEW i \in DOMAIN s  PROVE s[i] = u[Len(u) - Len(s) + i]
  <2> DEFINE j == Len(t) - Len(s) + i
  <2>1. j \in DOMAIN t /\ Len(u) - Len(t) + j = Len(u) - Len(s) + i
    BY <1>1
  <2> HIDE DEF j
  <2>2. t[j] = u[Len(u) - Len(t) + j]
    BY <2>1 DEF Suffix
  <2>3. s[i] = t[j]
    BY DEF Suffix, j
  <2> QED  BY <2>1, <2>2, <2>3
<1> QED  BY <1>1, <1>2 DEF Suffix

LEMMA SuffixAppend ==
  ASSUME NEW s \in Seq(Envelope), NEW t \in Seq(Envelope), NEW e \in Envelope, Suffix(s, t)
  PROVE  Suffix(Append(s, e), Append(t, e))
<1>1. /\ DOMAIN s = 1 .. Len(s) /\ Len(s) \in Nat /\ Len(t) \in Nat /\ Len(s) <= Len(t)
      /\ DOMAIN t = 1 .. Len(t)
  BY LenProperties DEF Suffix
<1>2. /\ Append(s, e) \in Seq(Envelope) /\ Len(Append(s, e)) = Len(s) + 1
      /\ \A i \in 1 .. Len(s) : Append(s, e)[i] = s[i]
      /\ Append(s, e)[Len(s) + 1] = e
  BY AppendProperties
<1>3. /\ Append(t, e) \in Seq(Envelope) /\ Len(Append(t, e)) = Len(t) + 1
      /\ \A i \in 1 .. Len(t) : Append(t, e)[i] = t[i]
      /\ Append(t, e)[Len(t) + 1] = e
  BY AppendProperties
<1>4. DOMAIN Append(s, e) = 1 .. Len(s) + 1
  BY <1>2, LenProperties
<1>5. ASSUME NEW i \in 1 .. Len(s) + 1
      PROVE  Append(s, e)[i] = Append(t, e)[(Len(t) + 1) - (Len(s) + 1) + i]
  <2>1. (Len(t) + 1) - (Len(s) + 1) + i = Len(t) - Len(s) + i
    BY <1>1
  <2>2. CASE i \in 1 .. Len(s)
    <3>1. Len(t) - Len(s) + i \in 1 .. Len(t)
      BY <1>1, <2>2
    <3>2. s[i] = t[Len(t) - Len(s) + i]
      BY <1>1, <2>2 DEF Suffix
    <3> QED  BY <1>2, <1>3, <2>1, <2>2, <3>1, <3>2
  <2>3. CASE i = Len(s) + 1
    <3>1. Len(t) - Len(s) + i = Len(t) + 1
      BY <1>1, <2>3
    <3> QED  BY <1>2, <1>3, <2>1, <2>3, <3>1
  <2> QED  BY <1>1, <2>2, <2>3
<1>6. Append(s, e) # <<>>
  BY <1>1, <1>2, EmptySeq
<1>7. Len(Append(s, e)) <= Len(Append(t, e))
  BY <1>1, <1>2, <1>3
<1>8. \A i \in DOMAIN Append(s, e) :
        Append(s, e)[i] = Append(t, e)[Len(Append(t, e)) - Len(Append(s, e)) + i]
  BY <1>2, <1>3, <1>4, <1>5
<1> QED  BY <1>6, <1>7, <1>8 DEF Suffix

LEMMA SuffixReflexive ==
  ASSUME NEW s \in Seq(Envelope)
  PROVE  Suffix(s, s)
BY LenProperties DEF Suffix

\* What an append leaves of the session.
LEMMA SessionAfterAppend ==
  ASSUME JournalType, NEW h \in Hosts, NEW r \in Rooms, NEW journaled \in BOOLEAN,
         sessions[h][r].open, AppendTo(h, r, journaled),
         NEW e, e = [room |-> r, seq |-> sessions[h][r].next, id |-> events,
                     journaled |-> journaled]
  PROVE  /\ e \in Envelope
         /\ sessions'[h][r].open /\ sessions'[h][r].next = sessions[h][r].next + 1
         /\ sessions'[h][r].buf = IF journaled THEN Tailed(Append(sessions[h][r].buf, e))
                                  ELSE sessions[h][r].buf
         /\ \A q \in Rooms \ {r} : sessions'[h][q] = sessions[h][q] /\ disk'[h][q] = disk[h][q]
         /\ pending' = [pending EXCEPT ![h] = pending[h] \cup {e}]
         /\ \/ disk'[h][r] = IF journaled THEN Append(disk[h][r], e) ELSE disk[h][r]
            \/ disk'[h][r] = disk[h][r] /\ lostLines < MaxLostLines
<1>1. sessions[h][r] \in SessionState
  BY DEF JournalType
<1>2. e \in Envelope
  BY <1>1 DEF SessionState, Envelope, JournalType
<1>3. /\ sessions' = [sessions EXCEPT ![h][r].next = @ + 1,
                                      ![h][r].buf = IF journaled THEN Tailed(Append(@, e))
                                                    ELSE @]
      /\ pending' = [pending EXCEPT ![h] = @ \cup {e}]
      /\ \/ disk' = IF journaled THEN [disk EXCEPT ![h][r] = Append(@, e)] ELSE disk
         \/ UNCHANGED disk /\ lostLines < MaxLostLines
  BY DEF AppendTo
<1>4. pending' = [pending EXCEPT ![h] = pending[h] \cup {e}]
  BY <1>3
<1>5. \A q \in Rooms \ {r} : sessions'[h][q] = sessions[h][q] /\ disk'[h][q] = disk[h][q]
  BY <1>3 DEF JournalType
<1>6. \/ disk'[h][r] = IF journaled THEN Append(disk[h][r], e) ELSE disk[h][r]
      \/ disk'[h][r] = disk[h][r] /\ lostLines < MaxLostLines
  <2>1. CASE disk' = disk /\ (~journaled \/ lostLines < MaxLostLines)
    BY <2>1
  <2>2. CASE journaled /\ disk' = [disk EXCEPT ![h][r] = Append(@, e)]
    BY <2>2 DEF JournalType
  <2> QED  BY <1>3, <2>1, <2>2
<1>7. sessions'[h][r] = [[sessions[h][r] EXCEPT !.next = sessions[h][r].next + 1] EXCEPT
                           !.buf = IF journaled THEN Tailed(Append(sessions[h][r].buf, e))
                                   ELSE sessions[h][r].buf]
  BY <1>3 DEF JournalType, SessionState
<1>8. /\ sessions'[h][r].open /\ sessions'[h][r].next = sessions[h][r].next + 1
      /\ sessions'[h][r].buf = IF journaled THEN Tailed(Append(sessions[h][r].buf, e))
                               ELSE sessions[h][r].buf
  BY <1>1, <1>7 DEF SessionState
<1> QED  BY <1>2, <1>4, <1>5, <1>6, <1>8

-----------------------------------------------------------------------------
(* A seq identifies an event, on one host that is not restarted.           *)

\* Everything a host has journaled, is about to broadcast, has broadcast or has sent.
Kept(h, r) == Entries(disk[h][r]) \cup Entries(sessions[h][r].buf)

Known(h) ==
    (UNION {Kept(h, r) : r \in Rooms}) \cup pending[h] \cup Entries(channel[h])
        \cup UNION {clients[c].got : c \in Clients}

\* Clients, whatever their last_sent_seq is.
ClientWith(L) ==
    [status : {"off", "subscribed", "live"}, cursor : Nat, last : L, from : Nat,
     rooms : SUBSET Rooms, got : SUBSET Envelope, tries : Nat]

FeedShape ==
    /\ pending \in [Hosts -> SUBSET Envelope]
    /\ channel \in [Hosts -> Seq(Envelope)]
    /\ \E L : clients \in [Clients -> ClientWith(L)]

\* No host but h takes part, and it keeps running.
Undisturbed == pulling = {} /\ restarts = 0

\* What a room keeps is its own.
KeptApart(h) == \A r \in Rooms : \A e \in Kept(h, r) : e.room = r

\* The session that numbered an event is still open and has moved past it.
Numbered(h) ==
    \A e \in Known(h) : sessions[h][e.room].open /\ e.seq < sessions[h][e.room].next

OneEventPerSeq(h) ==
    \A e, f \in Known(h) : e.room = f.room /\ e.seq = f.seq => e = f

SeqInv(h) ==
    /\ JournalInv /\ FeedShape /\ Undisturbed
    /\ KeptApart(h) /\ Numbered(h) /\ OneEventPerSeq(h)

LEMMA KnownTypes ==
  ASSUME JournalType, FeedShape, NEW h \in Hosts
  PROVE  Known(h) \subseteq Envelope
<1>1. \A s \in Seq(Envelope) : Entries(s) \subseteq Envelope
  BY ElementOfSeq, LenProperties DEF Entries
<1>2. \A r \in Rooms : Kept(h, r) \subseteq Envelope
  BY <1>1 DEF JournalType, Kept, SessionState
<1>3. \A c \in Clients : clients[c].got \subseteq Envelope
  BY DEF FeedShape, ClientWith
<1>4. pending[h] \subseteq Envelope /\ Entries(channel[h]) \subseteq Envelope
  BY <1>1 DEF FeedShape
<1> QED  BY <1>2, <1>3, <1>4 DEF Known

\* A replay serves what the rooms keep.
LEMMA ReplayKept ==
  ASSUME NEW h \in Hosts, NEW from, NEW e \in ReplayAll(h, from)
  PROVE  \E r \in Rooms : sessions[h][r].open /\ e \in Kept(h, r)
<1>1. PICK r \in OpenRooms(h) : e \in Replay(h, r, from)
  BY DEF ReplayAll
<1>2. e \in Kept(h, r)
  BY <1>1 DEF Replay, ReplaySource, Kept, Entries
<1> QED  BY <1>1, <1>2 DEF OpenRooms

\* What a client step sends was known before.
LEMMA ClientGets ==
  ASSUME FeedAssumption, JournalType, FeedShape, NEW c \in Clients, NEW h, ServedBy[c] = h,
         ClientStep(c)
  PROVE  /\ FeedShape'
         /\ \A d \in Clients : clients'[d].got \subseteq clients[d].got \cup Known(h)
<1>1. ServedBy[c] = h /\ h \in Hosts
  BY DEF FeedAssumption
<1>2. PICK L : clients \in [Clients -> ClientWith(L)]
  BY DEF FeedShape
<1>3. UNCHANGED <<pending, channel>>
  BY DEF ClientStep, Subscribe, StartReplay, Receive, Lagged, Disconnect, feed
<1>4. ASSUME NEW from
      PROVE  ReplayAll(h, from) \subseteq Known(h)
  BY <1>1, ReplayKept DEF Known
<1>5. Known(h) \subseteq Envelope /\ Len(channel[h]) \in Nat
  BY <1>1, KnownTypes, LenProperties DEF FeedShape
<1>6. \E S, l : /\ S \subseteq Known(h)
                /\ clients'[c] \in ClientWith(L \cup {l})
                /\ clients'[c].got = clients[c].got \cup S
                /\ clients' = [clients EXCEPT ![c] = clients'[c]]
  <2>1. CASE Subscribe(c)
    <3>1. clients' = [clients EXCEPT ![c].status = "subscribed", ![c].tries = @ + 1,
                        ![c].last = -1, ![c].cursor = Len(channel[h]) + 1]
      BY <1>1, <2>1 DEF Subscribe
    <3>2. Len(channel[h]) + 1 \in Nat /\ clients[c].tries + 1 \in Nat
      BY <1>2, <1>5 DEF ClientWith
    <3>3. clients'[c] \in ClientWith(L \cup {-1}) /\ clients'[c].got = clients[c].got \cup {}
      BY SMTT(30), <1>2, <3>1, <3>2 DEF ClientWith
    <3>4. clients' = [clients EXCEPT ![c] = clients'[c]]
      BY <1>2, <3>1
    <3> QED  BY <3>3, <3>4
  <2>2. CASE StartReplay(c)
    <3>1. PICK from \in 0 .. events :
            clients' = [clients EXCEPT
              ![c].status = "live", ![c].from = from, ![c].rooms = OpenRooms(h),
              ![c].got = @ \cup ReplayAll(h, from),
              ![c].last = LastSeq(ReplayAll(h, from), -1)]
      BY <1>1, <2>2 DEF StartReplay
    <3> DEFINE S == ReplayAll(h, from)
               l == LastSeq(S, -1)
               open == OpenRooms(h)
    <3>2. S \subseteq Known(h) /\ S \subseteq Envelope /\ open \subseteq Rooms
          /\ from \in Nat
      BY <1>4, <1>5 DEF OpenRooms, JournalType
    <3>3. clients' = [clients EXCEPT ![c].status = "live", ![c].from = from,
                        ![c].rooms = open, ![c].got = @ \cup S, ![c].last = l]
      BY <3>1
    <3> HIDE DEF l, S, open
    <3>4. /\ clients'[c] \in ClientWith(L \cup {l}) /\ clients'[c].got = clients[c].got \cup S
          /\ \A d \in Clients \ {c} : clients'[d] = clients[d]
      BY ZenonT(60), <1>2, <3>2, <3>3 DEF ClientWith
    <3>5. clients' = [clients EXCEPT ![c] = clients'[c]]
      BY <1>2, <3>3
    <3> QED  BY <3>2, <3>4, <3>5
  <2>3. CASE Receive(c)
    <3> DEFINE i == clients[c].cursor
               e == channel[h][i]
    <3>1. /\ i \in Oldest(h) .. Len(channel[h])
          /\ clients' = [clients EXCEPT ![c].cursor = i + 1, ![c].got = @ \cup {e},
                                        ![c].last = e.seq]
      BY <1>1, <2>3 DEF Receive
    <3>2. i \in Nat /\ Oldest(h) \in Nat /\ Oldest(h) >= 1
      BY SMTT(30), <1>2, <1>5 DEF ClientWith, Oldest, FeedAssumption
    <3>3. i \in DOMAIN channel[h]
      BY <1>5, <3>1, <3>2, LenProperties DEF FeedShape
    <3>4. e \in Known(h) /\ e \in Envelope
      BY <1>5, <3>3 DEF Known, Entries
    <3>5. i + 1 \in Nat
      BY <3>2
    <3> DEFINE S == {e}
               l == e.seq
    <3>6. clients' = [clients EXCEPT ![c].cursor = i + 1, ![c].got = @ \cup S, ![c].last = l]
      BY <3>1
    <3>7. S \subseteq Known(h) /\ S \subseteq Envelope
      BY <3>4
    <3> HIDE DEF i, e, S, l
    <3>8. /\ clients'[c] \in ClientWith(L \cup {l}) /\ clients'[c].got = clients[c].got \cup S
          /\ \A d \in Clients \ {c} : clients'[d] = clients[d]
      BY ZenonT(60), <1>2, <3>5, <3>6, <3>7 DEF ClientWith
    <3> QED  BY <3>6, <3>7, <3>8
  <2>4. CASE Lagged(c)
    <3> DEFINE S == ReplayAll(h, clients[c].last + 1)
               l == LastSeq(S, clients[c].last)
               i == Oldest(h)
    <3>1. clients' = [clients EXCEPT ![c].cursor = i, ![c].got = @ \cup S, ![c].last = l]
      BY <1>1, <1>2, <2>4 DEF Lagged
    <3>2. i \in Nat /\ S \subseteq Known(h) /\ S \subseteq Envelope
      BY SMTT(30), <1>4, <1>5 DEF Oldest, FeedAssumption
    <3> HIDE DEF S, l, i
    <3>3. /\ clients'[c] \in ClientWith(L \cup {l}) /\ clients'[c].got = clients[c].got \cup S
          /\ \A d \in Clients \ {c} : clients'[d] = clients[d]
      BY ZenonT(60), <1>2, <3>1, <3>2 DEF ClientWith
    <3> QED  BY <3>1, <3>2, <3>3
  <2>5. CASE Disconnect(c)
    <3>1. clients' = [clients EXCEPT ![c].status = "off"]
      BY <2>5 DEF Disconnect
    <3>2. clients'[c] \in ClientWith(L \cup {0}) /\ clients'[c].got = clients[c].got \cup {}
      BY <1>2, <3>1 DEF ClientWith
    <3> QED  BY <1>2, <3>1, <3>2
  <2> QED  BY <2>1, <2>2, <2>3, <2>4, <2>5 DEF ClientStep
<1>7. PICK S, l : /\ S \subseteq Known(h)
                  /\ clients'[c] \in ClientWith(L \cup {l})
                  /\ clients'[c].got = clients[c].got \cup S
                  /\ clients' = [clients EXCEPT ![c] = clients'[c]]
  BY <1>6
<1>8. clients' \in [Clients -> ClientWith(L \cup {l})]
  <2>1. ClientWith(L) \subseteq ClientWith(L \cup {l})
    BY DEF ClientWith
  <2> QED  BY <1>2, <1>7, <2>1
<1>9. \A d \in Clients : clients'[d].got \subseteq clients[d].got \cup Known(h)
  BY <1>2, <1>7
<1> QED  BY <1>3, <1>8, <1>9 DEF FeedShape

\* Opening a session, restoring it from disk, keeps what the room keeps.
LEMMA OpenedKeeps ==
  ASSUME FeedAssumption, JournalType, NEW h \in Hosts, NEW r \in Rooms, ~sessions[h][r].open
  PROVE  /\ Opened(h, r).open
         /\ Entries(Opened(h, r).buf) \subseteq Entries(disk[h][r])
<1>1. disk[h][r] \in Seq(Envelope)
  BY DEF JournalType
<1>2. Opened(h, r).buf = Tailed(disk[h][r]) /\ Opened(h, r).open
  BY DEF Opened, Restored
<1> QED  BY <1>1, <1>2, TailedSuffix, SuffixEntries

\* What an append makes the room keep.
LEMMA AppendKeeps ==
  ASSUME FeedAssumption, JournalType, NEW h \in Hosts, NEW r \in Rooms,
         NEW journaled \in BOOLEAN, sessions[h][r].open, AppendTo(h, r, journaled),
         NEW e, e = [room |-> r, seq |-> sessions[h][r].next, id |-> events,
                     journaled |-> journaled]
  PROVE  \A q \in Rooms : Kept(h, q)' \subseteq Kept(h, q) \cup (IF q = r THEN {e} ELSE {})
<1>1. /\ e \in Envelope
      /\ sessions'[h][r].buf = IF journaled THEN Tailed(Append(sessions[h][r].buf, e))
                               ELSE sessions[h][r].buf
      /\ \A q \in Rooms \ {r} : sessions'[h][q] = sessions[h][q] /\ disk'[h][q] = disk[h][q]
      /\ \/ disk'[h][r] = IF journaled THEN Append(disk[h][r], e) ELSE disk[h][r]
         \/ disk'[h][r] = disk[h][r]
  BY SessionAfterAppend
<1>2. ASSUME NEW s \in Seq(Envelope)
      PROVE  /\ Append(s, e) \in Seq(Envelope)
             /\ Entries(Append(s, e)) \subseteq Entries(s) \cup {e}
  <2>1. /\ Append(s, e) \in Seq(Envelope) /\ Len(Append(s, e)) = Len(s) + 1
        /\ \A i \in 1 .. Len(s) : Append(s, e)[i] = s[i]
        /\ Append(s, e)[Len(s) + 1] = e
    BY <1>1, AppendProperties
  <2>2. /\ DOMAIN s = 1 .. Len(s) /\ Len(s) \in Nat
        /\ DOMAIN Append(s, e) = 1 .. Len(s) + 1
    BY <2>1, LenProperties
  <2>3. \A i \in DOMAIN Append(s, e) : i \in DOMAIN s \/ i = Len(s) + 1
    BY <2>2
  <2> QED  BY <2>1, <2>2, <2>3 DEF Entries
<1>3. sessions[h][r].buf \in Seq(Envelope) /\ disk[h][r] \in Seq(Envelope)
  BY DEF JournalType, SessionState
<1>4. Entries(disk'[h][r]) \subseteq Entries(disk[h][r]) \cup {e}
  <2>1. CASE disk'[h][r] = disk[h][r]
    BY <2>1
  <2>2. CASE disk'[h][r] = Append(disk[h][r], e)
    BY <1>2, <1>3, <2>2
  <2> QED  BY <1>1, <2>1, <2>2
<1>5. Entries(sessions'[h][r].buf) \subseteq Entries(sessions[h][r].buf) \cup {e}
  <2>1. CASE journaled
    <3> DEFINE longer == Append(sessions[h][r].buf, e)
    <3>1. longer \in Seq(Envelope) /\ Entries(longer) \subseteq Entries(sessions[h][r].buf) \cup {e}
      BY <1>2, <1>3
    <3>2. sessions'[h][r].buf = Tailed(longer)
      BY <1>1, <2>1
    <3> HIDE DEF longer
    <3>3. Entries(Tailed(longer)) \subseteq Entries(longer)
      BY <3>1, TailedSuffix, SuffixEntries
    <3> QED  BY <3>1, <3>2, <3>3
  <2>2. CASE ~journaled
    BY <1>1, <2>2
  <2> QED  BY <2>1, <2>2
<1> QED  BY <1>1, <1>4, <1>5 DEF Kept

\* A step of the one host that is never restarted: what it knows grows by at most the
\* event an open session numbers next.
LEMMA KnownMoves ==
  ASSUME FeedAssumption, NEW h, Hosts = {h}, MaxRestarts = 0, SeqInv(h), [Next]_vars
  PROVE  /\ FeedShape' /\ Undisturbed' /\ KeptApart(h)'
         /\ \A r \in Rooms : sessions[h][r].open => sessions'[h][r].open
         /\ \/ /\ Known(h)' \subseteq Known(h)
               /\ \A r \in Rooms : sessions[h][r].open =>
                    sessions'[h][r].next = sessions[h][r].next
            \/ \E r \in Rooms, e \in Envelope :
                 /\ sessions[h][r].open
                 /\ e.room = r /\ e.seq = sessions[h][r].next
                 /\ sessions'[h][r].next = sessions[h][r].next + 1
                 /\ \A q \in Rooms \ {r} : sessions'[h][q].next = sessions[h][q].next
                 /\ Known(h)' \subseteq Known(h) \cup {e}
<1> USE DEF SeqInv, JournalInv
<1> DEFINE Quiet ==
         /\ FeedShape' /\ Undisturbed' /\ KeptApart(h)'
         /\ \A r \in Rooms : sessions[h][r].open => sessions'[h][r].open
         /\ Known(h)' \subseteq Known(h)
         /\ \A r \in Rooms : sessions[h][r].open => sessions'[h][r].next = sessions[h][r].next
<1>1. h \in Hosts
  OBVIOUS
\* Steps that touch neither sessions nor files.
<1>2. ASSUME UNCHANGED <<sessions, disk, pulling, restarts>>, FeedShape',
             pending'[h] \cup Entries(channel'[h])
               \cup (UNION {clients'[c].got : c \in Clients}) \subseteq Known(h)
      PROVE  Quiet
  <2>1. \A r \in Rooms : Kept(h, r)' = Kept(h, r)
    BY <1>2 DEF Kept
  <2>2. Known(h)' \subseteq Known(h)
    BY <1>2, <2>1 DEF Known
  <2> QED  BY <1>2, <2>1, <2>2 DEF Undisturbed, KeptApart
<1>3. CASE UNCHANGED <<feed, clients, pulling, restarts>>
  <2>1. FeedShape'
    BY <1>3 DEF FeedShape, feed
  <2> QED  BY <1>2, <1>3, <2>1 DEF feed, Known
<1>4. ASSUME NEW c \in Clients, ClientStep(c)  PROVE Quiet
  <2>1. UNCHANGED <<feed, runs, faults>>
    BY <1>4 DEF ClientStep, Subscribe, StartReplay, Receive, Lagged, Disconnect
  <2>2. /\ FeedShape'
        /\ \A d \in Clients : clients'[d].got \subseteq clients[d].got \cup Known(h)
    <3>1. ServedBy[c] = h
      BY DEF FeedAssumption
    <3> QED  BY <1>4, <3>1, ClientGets
  <2>3. \A d \in Clients : clients'[d].got \subseteq Known(h)
    BY <2>2 DEF Known
  <2>4. pending'[h] \cup Entries(channel'[h])
          \cup (UNION {clients'[d].got : d \in Clients}) \subseteq Known(h)
    BY <2>1, <2>3 DEF feed, Known
  <2> QED  BY <1>2, <2>1, <2>2, <2>4 DEF feed, runs, faults
<1>5. CASE Broadcast(h)
  <2>1. PICK e \in pending[h] : /\ channel' = [channel EXCEPT ![h] = Append(@, e)]
                                /\ pending' = [pending EXCEPT ![h] = @ \ {e}]
    BY <1>5 DEF Broadcast
  <2>2. e \in Envelope /\ channel[h] \in Seq(Envelope)
    BY <1>1 DEF FeedShape
  <2>3. Append(channel[h], e) \in Seq(Envelope)
        /\ Entries(Append(channel[h], e)) \subseteq Entries(channel[h]) \cup {e}
    <3>1. /\ Append(channel[h], e) \in Seq(Envelope) /\ Len(Append(channel[h], e)) = Len(channel[h]) + 1
          /\ \A i \in 1 .. Len(channel[h]) : Append(channel[h], e)[i] = channel[h][i]
          /\ Append(channel[h], e)[Len(channel[h]) + 1] = e
      BY <2>2, AppendProperties
    <3>2. /\ DOMAIN channel[h] = 1 .. Len(channel[h]) /\ Len(channel[h]) \in Nat
          /\ DOMAIN Append(channel[h], e) = 1 .. Len(channel[h]) + 1
      BY <2>2, <3>1, LenProperties
    <3>3. \A i \in DOMAIN Append(channel[h], e) : i \in DOMAIN channel[h] \/ i = Len(channel[h]) + 1
      BY <3>2
    <3> QED  BY <3>1, <3>2, <3>3 DEF Entries
  <2>4. /\ channel'[h] = Append(channel[h], e) /\ pending'[h] \subseteq pending[h]
        /\ clients' = clients /\ UNCHANGED <<sessions, disk, pulling, restarts>>
    BY <1>1, <1>5, <2>1 DEF Broadcast, FeedShape, runs, faults
  <2>5. FeedShape'
    BY <1>1, <2>1, <2>3, <2>4 DEF FeedShape
  <2>6. pending'[h] \cup Entries(channel'[h])
          \cup (UNION {clients'[d].got : d \in Clients}) \subseteq Known(h)
    BY <2>3, <2>4 DEF Known
  <2> QED  BY <1>2, <2>4, <2>5, <2>6
<1>6. ASSUME NEW r \in Rooms, OpenSession(h, r)  PROVE Quiet
  <2>1. /\ sessions' = [sessions EXCEPT ![h][r] = Opened(h, r)] /\ ~sessions[h][r].open
        /\ UNCHANGED <<disk, pending, channel, clients, pulling, restarts>>
    BY <1>6 DEF OpenSession, runs, faults
  <2>2. /\ sessions'[h][r] = Opened(h, r)
        /\ \A q \in Rooms \ {r} : sessions'[h][q] = sessions[h][q]
    BY <1>1, <2>1 DEF JournalType
  <2>3. \A q \in Rooms : Kept(h, q)' \subseteq Kept(h, q)
    BY <1>1, <2>1, <2>2, OpenedKeeps DEF Kept
  <2>4. FeedShape' /\ Undisturbed' /\ KeptApart(h)'
    BY <2>1, <2>3 DEF FeedShape, Undisturbed, KeptApart
  <2>5. Known(h)' \subseteq Known(h)
    BY <2>1, <2>3 DEF Known
  <2>6. \A q \in Rooms : sessions[h][q].open =>
          sessions'[h][q].open /\ sessions'[h][q].next = sessions[h][q].next
    BY <2>1, <2>2
  <2> QED  BY <2>4, <2>5, <2>6
<1>7. ASSUME NEW r \in Rooms, Publish(h, r)
      PROVE  /\ FeedShape' /\ Undisturbed' /\ KeptApart(h)'
             /\ \A q \in Rooms : sessions[h][q].open => sessions'[h][q].open
             /\ \E e \in Envelope :
                 /\ sessions[h][r].open
                 /\ e.room = r /\ e.seq = sessions[h][r].next
                 /\ sessions'[h][r].next = sessions[h][r].next + 1
                 /\ \A q \in Rooms \ {r} : sessions'[h][q].next = sessions[h][q].next
                 /\ Known(h)' \subseteq Known(h) \cup {e}
  <2>1. PICK journaled \in BOOLEAN : AppendTo(h, r, journaled)
    BY <1>7 DEF Publish
  <2>2. sessions[h][r].open /\ UNCHANGED <<channel, clients, pulling, restarts>>
    BY <1>7 DEF Publish, runs
  <2>3. PICK e : e = [room |-> r, seq |-> sessions[h][r].next, id |-> events,
                      journaled |-> journaled]
    OBVIOUS
  <2>4. /\ e \in Envelope
        /\ sessions'[h][r].open /\ sessions'[h][r].next = sessions[h][r].next + 1
        /\ \A q \in Rooms \ {r} : sessions'[h][q] = sessions[h][q]
        /\ pending' = [pending EXCEPT ![h] = pending[h] \cup {e}]
    BY <1>1, <2>1, <2>2, <2>3, SessionAfterAppend
  <2>5. \A q \in Rooms : Kept(h, q)' \subseteq Kept(h, q) \cup (IF q = r THEN {e} ELSE {})
    BY <1>1, <2>1, <2>2, <2>3, AppendKeeps
  <2>6. KeptApart(h)'
    <3>1. e.room = r
      BY <2>3
    <3>2. KeptApart(h)
      OBVIOUS
    <3> SUFFICES ASSUME NEW q \in Rooms, NEW x \in Kept(h, q)'  PROVE x.room = q
      BY DEF KeptApart
    <3>3. x \in Kept(h, q) \/ (q = r /\ x = e)
      BY <2>5
    <3> QED  BY <3>1, <3>2, <3>3 DEF KeptApart
  <2>7. FeedShape' /\ Undisturbed' /\ pending'[h] = pending[h] \cup {e}
    BY <1>1, <2>2, <2>4 DEF FeedShape, Undisturbed
  <2>8. Known(h)' \subseteq Known(h) \cup {e}
    BY <2>2, <2>5, <2>7 DEF Known
  <2> QED  BY <2>2, <2>3, <2>4, <2>6, <2>7, <2>8
<1>8. ASSUME NEW r \in Rooms,
             AttachRoom(h, r) \/ CommitTurn(h, r) \/ LeaveRoom(h, r) \/ ServeHandoff(h, r)
             \/ DropAck(r)
      PROVE  UNCHANGED <<feed, clients, pulling, restarts>>
  BY <1>8 DEF AttachRoom, CommitTurn, LeaveRoom, ServeHandoff, DropAck, faults
<1>9. ~Restart(h)
  BY DEF Restart, Undisturbed
<1>10. \A r \in Rooms : ~Pull(h, r) /\ ~PullTimeout(h, r) /\ ~ResumeNode(h, r)
  BY DEF Pull, PullTimeout, ResumeNode, Undisturbed
<1>11. CASE UNCHANGED vars
  BY <1>3, <1>11 DEF vars, runs, faults
<1>12. CASE Next /\ ~UNCHANGED <<feed, clients, pulling, restarts>>
  <2>1. CASE \E c \in Clients : ClientStep(c)
    BY <1>4, <2>1
  <2>2. CASE HostStep(h)
    BY <1>5, <1>6, <1>7, <1>8, <1>9, <1>10, <1>12, <2>2 DEF HostStep
  <2> QED  BY <1>8, <1>12, <2>1, <2>2 DEF Next
<1> QED  BY <1>3, <1>11, <1>12

LEMMA SeqInvStep ==
  ASSUME FeedAssumption, NEW h, Hosts = {h}, MaxRestarts = 0, SeqInv(h), [Next]_vars
  PROVE  SeqInv(h)'
<1>1. JournalInv'
  BY JournalStep DEF SeqInv
<1>2. /\ FeedShape' /\ Undisturbed' /\ KeptApart(h)'
      /\ \A r \in Rooms : sessions[h][r].open => sessions'[h][r].open
  BY KnownMoves
<1>3. Known(h) \subseteq Envelope /\ \A e \in Envelope : e.room \in Rooms /\ e.seq \in Nat
  BY KnownTypes DEF SeqInv, JournalInv, Envelope
<1>4. \A r \in Rooms : sessions[h][r].next \in Nat
  BY DEF SeqInv, JournalInv, JournalType, SessionState
<1>5. CASE /\ Known(h)' \subseteq Known(h)
           /\ \A r \in Rooms : sessions[h][r].open =>
                sessions'[h][r].next = sessions[h][r].next
  <2>1. Numbered(h)' /\ OneEventPerSeq(h)'
    BY <1>2, <1>3, <1>5 DEF SeqInv, Numbered, OneEventPerSeq
  <2> QED  BY <1>1, <1>2, <2>1 DEF SeqInv
<1>6. ASSUME NEW r \in Rooms, NEW e \in Envelope, sessions[h][r].open,
             e.room = r, e.seq = sessions[h][r].next,
             sessions'[h][r].next = sessions[h][r].next + 1,
             \A q \in Rooms \ {r} : sessions'[h][q].next = sessions[h][q].next,
             Known(h)' \subseteq Known(h) \cup {e}
      PROVE  SeqInv(h)'
  <2>1. \A f \in Known(h) : sessions[h][f.room].open /\ f.seq < sessions[h][f.room].next
    BY DEF SeqInv, Numbered
  <2>2. ASSUME NEW f \in Known(h)'
        PROVE  sessions'[h][f.room].open /\ f.seq < sessions'[h][f.room].next
    <3>1. CASE f = e
      BY <1>2, <1>4, <1>6, <3>1
    <3>2. CASE f \in Known(h)
      <4>1. f.room \in Rooms /\ f.seq \in Nat /\ sessions[h][f.room].next \in Nat
            /\ sessions[h][f.room].open /\ f.seq < sessions[h][f.room].next
        BY <1>3, <1>4, <2>1, <3>2
      <4>2. sessions'[h][f.room].next = sessions[h][f.room].next
            \/ sessions'[h][f.room].next = sessions[h][f.room].next + 1
        BY <1>6, <4>1
      <4>3. \A s, n \in Nat : s < n => s < n + 1
        OBVIOUS
      <4>4. f.seq < sessions[h][f.room].next + 1
        BY <4>1, <4>3
      <4>5. f.seq < sessions'[h][f.room].next
        BY <4>1, <4>2, <4>4
      <4> QED  BY <1>2, <4>1, <4>5
    <3> QED  BY <1>6, <2>2, <3>1, <3>2
  <2>3. ASSUME NEW f \in Known(h), f.room = r  PROVE f.seq # e.seq
    BY <1>3, <1>4, <1>6, <2>1, <2>3
  <2>4. ASSUME NEW f \in Known(h)', NEW g \in Known(h)', f.room = g.room, f.seq = g.seq
        PROVE  f = g
    <3>1. CASE f \in Known(h) /\ g \in Known(h)
      BY <2>4, <3>1 DEF SeqInv, OneEventPerSeq
    <3>2. CASE f = e \/ g = e
      BY <1>6, <2>3, <2>4, <3>2
    <3> QED  BY <1>6, <2>4, <3>1, <3>2
  <2>5. Numbered(h)'
    BY <2>2 DEF Numbered
  <2>6. OneEventPerSeq(h)'
    BY <2>4 DEF OneEventPerSeq
  <2> QED  BY <1>1, <1>2, <2>5, <2>6 DEF SeqInv
<1> QED  BY <1>5, <1>6, KnownMoves

LEMMA SeqInvInit ==
  ASSUME FeedAssumption, NEW h, Hosts = {h}, Init
  PROVE  SeqInv(h)
<1>1. JournalInv
  BY JournalInit
<1>2. Offline \in ClientWith({-1})
  BY DEF Offline, ClientWith
<1>3. FeedShape
  BY <1>2, EmptySeq DEF Init, FeedShape
<1>4. \A r \in Rooms : Kept(h, r) = {}
  BY EmptySeq DEF Init, Kept, Closed, Entries
<1>5. Known(h) = {}
  <2>1. /\ pending[h] = {} /\ channel[h] = <<>> /\ \A c \in Clients : clients[c].got = {}
    BY DEF Init, Offline
  <2> QED  BY <1>4, <2>1, EmptySeq DEF Known, Entries
<1> QED  BY <1>1, <1>3, <1>4, <1>5 DEF SeqInv, Undisturbed, KeptApart, Numbered,
          OneEventPerSeq, Init

\* On one host that is not restarted the seq is the identity clients take it for: among
\* all that a client was ever sent, over all its connections, no other event carries the
\* room and seq of a journaled one; and so for any rooms, publishers that overtake each
\* other, failed writes, lags and reconnects (session.rs append, ws.rs client_connection).
THEOREM SeqsIdentifyEvents ==
  ASSUME MaxRestarts = 0, NEW h, Hosts = {h}
  PROVE  Spec => []SeqIdentifiesEvent
<1>1. Init => SeqInv(h)
  BY FeedAssumption, SeqInvInit
<1>2. SeqInv(h) /\ [Next]_vars => SeqInv(h)'
  BY FeedAssumption, SeqInvStep
<1>3. SeqInv(h) => SeqIdentifiesEvent
  BY DEF SeqInv, OneEventPerSeq, Known, SeqIdentifiesEvent
<1> QED  BY <1>1, <1>2, <1>3, PTL DEF Spec

-----------------------------------------------------------------------------
(* The feed is complete: one host, one room, one publisher at a time.      *)

\* What the receiver of a client has yet to read.
Ahead(client, ch) == {ch[i] : i \in client.cursor .. Len(ch)}

\* Every line of the file from the replay on was sent, or is still to come.
Complete(client, lines, p, ch) ==
    \A e \in Entries(lines) :
        e.seq >= client.from => e \in client.got \cup p \cup Ahead(client, ch)

\* A line still to come is past the last seq sent, so a catch-up replay includes it.
NoneSkipped(client, lines, p, ch) ==
    \A e \in Entries(lines) \cap (p \cup Ahead(client, ch)) :
        e.seq >= client.from => e.seq > client.last \/ e \in client.got

Follows(client, session, lines, p, ch, r) ==
    client.status # "off" =>
        /\ client.cursor \in 1 .. Len(ch) + 1
        /\ client.status = "live" /\ r \in client.rooms =>
             /\ session.open /\ client.last < session.next
             /\ Complete(client, lines, p, ch)
             /\ NoneSkipped(client, lines, p, ch)

\* The channel carries the events of the open session in the order of their seqs.
Ordered(session, lines, p, ch) ==
    /\ session.open => Suffix(session.buf, lines)
    /\ p = {} \/ \E e \in Envelope : p = {e}
    /\ ~session.open => p = {} /\ ch = <<>>
    /\ Increasing(ch)
    /\ \A e \in p : Below(ch, e.seq) /\ e.seq < session.next
    /\ Below(ch, session.next)

FeedTypes ==
    /\ pending \in [Hosts -> SUBSET Envelope]
    /\ channel \in [Hosts -> Seq(Envelope)]
    /\ clients \in [Clients -> Client]

FeedInv(h, r) ==
    /\ JournalInv /\ FeedTypes
    /\ pulling = {} /\ lostLines = 0
    /\ Ordered(sessions[h][r], disk[h][r], pending[h], channel[h])
    /\ \A c \in Clients :
         Follows(clients[c], sessions[h][r], disk[h][r], pending[h], channel[h], r)

-----------------------------------------------------------------------------
(* Replays.                                                                *)

\* From the buffer or from the file, a replay is the lines of the file from a seq on.
From(lines, from) == {e \in Entries(lines) : e.seq >= from}

LEMMA ReplayLines ==
  ASSUME JournalInv, NEW h \in Hosts, NEW r \in Rooms,
         Suffix(sessions[h][r].buf, disk[h][r]), NEW from \in Nat
  PROVE  Replay(h, r, from) = From(disk[h][r], from)
<1> DEFINE s == sessions[h][r].buf
           d == disk[h][r]
<1>1. /\ s \in Seq(Envelope) /\ d \in Seq(Envelope) /\ Increasing(d)
      /\ Suffix(s, d)
  BY DEF JournalInv, JournalType, JournalOrdered, SessionState
<1>2. Replay(h, r, from) =
        {e \in Entries(IF s = <<>> \/ from >= s[1].seq THEN s ELSE d) : e.seq >= from}
  BY DEF Replay, ReplaySource, Entries
<1> HIDE DEF s, d
<1>3. CASE s = <<>>
  BY <1>1, <1>2, <1>3 DEF Suffix, d, From
<1>4. CASE s # <<>> /\ ~(from >= s[1].seq)
  BY <1>2, <1>4 DEF d, From
<1>5. CASE s # <<>> /\ from >= s[1].seq
  <2>1. /\ Len(s) \in Nat /\ Len(d) \in Nat /\ Len(s) > 0 /\ Len(s) <= Len(d)
        /\ DOMAIN s = 1 .. Len(s) /\ DOMAIN d = 1 .. Len(d)
    <3>1. Len(s) # 0 /\ Len(s) \in Nat /\ Len(d) \in Nat
      BY <1>1, <1>5, LenProperties, EmptySeq
    <3> QED  BY <1>1, <3>1, LenProperties DEF Suffix
  <2>2. \A i \in DOMAIN d : d[i].seq \in Nat
    <3>1. \A i \in DOMAIN d : d[i] \in Envelope
      BY <1>1, <2>1, ElementOfSeq
    <3> QED  BY <3>1 DEF Envelope
  <2> DEFINE first == Len(d) - Len(s) + 1
  <2>3. first \in DOMAIN d /\ s[1] = d[first]
    BY <1>1, <2>1 DEF Suffix
  <2>4. ASSUME NEW e \in Entries(d), e.seq >= from  PROVE e \in Entries(s)
    <3>1. PICK i \in DOMAIN d : e = d[i]
      BY DEF Entries
    <3>2. d[i].seq >= d[first].seq
      BY <1>5, <2>2, <2>3, <2>4, <3>1
    <3>3. ~(i < first)
      <4>1. i < first => d[i].seq < d[first].seq
        BY <1>1, <2>3, <3>1 DEF Increasing
      <4> QED  BY <2>2, <2>3, <3>1, <3>2, <4>1
    <3> DEFINE j == i - (Len(d) - Len(s))
    <3>4. j \in DOMAIN s /\ Len(d) - Len(s) + j = i
      BY <2>1, <3>3
    <3> HIDE DEF j
    <3>5. s[j] = d[i]
      BY <1>1, <3>4 DEF Suffix
    <3> QED  BY <3>1, <3>4, <3>5 DEF Entries
  <2>5. Entries(s) \subseteq Entries(d)
    BY <1>1, SuffixEntries
  <2> QED  BY <1>2, <1>5, <2>4, <2>5 DEF d, From
<1> QED  BY <1>3, <1>4, <1>5

\* last_sent_seq after a replay is that of a line of the replay.
LEMMA LastOfReplay ==
  ASSUME NEW d \in Seq(Envelope), NEW from \in Nat, NEW before, Increasing(d),
         \A e, f \in Entries(d) : e.room = f.room
  PROVE  \/ LastSeq(From(d, from), before) = before
         \/ \E e \in From(d, from) : LastSeq(From(d, from), before) = e.seq
<1> DEFINE es == From(d, from)
<1>0. es = {e \in Entries(d) : e.seq >= from}
  BY DEF From
<1> SUFFICES LastSeq(es, before) = before \/ \E e \in es : LastSeq(es, before) = e.seq
  OBVIOUS
<1> HIDE DEF es
<1>1. CASE es = {}
  BY <1>1 DEF LastSeq
<1>2. CASE es # {}
  <2> USE <1>0
  <2>1. /\ Len(d) \in Nat /\ DOMAIN d = 1 .. Len(d)
        /\ \A i \in DOMAIN d : d[i] \in Envelope
    BY LenProperties, ElementOfSeq
  <2>2. /\ \A i \in DOMAIN d : d[i].seq \in Nat
        /\ \A i, j \in DOMAIN d : d[i].room = d[j].room
    BY <2>1 DEF Envelope, Entries
  <2>3. PICK i \in DOMAIN d : d[i].seq >= from
    BY <1>2 DEF Entries
  <2> DEFINE last == d[Len(d)]
  <2>4. Len(d) \in DOMAIN d
    BY <2>1, <2>3
  <2>5. \A j \in DOMAIN d : d[j].seq <= last.seq
    <3> SUFFICES ASSUME NEW j \in DOMAIN d  PROVE d[j].seq <= last.seq
      OBVIOUS
    <3>1. CASE j = Len(d)
      BY <2>2, <2>4, <3>1
    <3>2. CASE j # Len(d)
      <4>1. j < Len(d)
        BY <2>1, <3>2
      <4>2. d[j].seq < last.seq
        BY <2>4, <4>1 DEF Increasing
      <4> QED  BY <2>2, <2>4, <4>2
    <3> QED  BY <3>1, <3>2
  <2>6. last.seq >= from
    BY <2>2, <2>3, <2>4, <2>5
  <2>7. last \in es
    BY <2>4, <2>6 DEF Entries
  <2>8. \A x \in es : x.room = last.room /\ x.seq <= last.seq
    BY <2>2, <2>4, <2>5 DEF Entries
  <2>9. \E e \in es : \A x \in es : x.room < e.room \/ (x.room = e.room /\ x.seq <= e.seq)
    BY <2>7, <2>8
  <2> QED  BY <1>2, <2>9 DEF LastSeq
<1> QED  BY <1>1, <1>2

\* What a replay sends, and the last_sent_seq it leaves.
LEMMA ReplayOfRoom ==
  ASSUME NEW h, NEW r, Hosts = {h}, Rooms = {r}, JournalInv, NEW from \in Nat, NEW before,
         sessions[h][r].open => Suffix(sessions[h][r].buf, disk[h][r])
  PROVE  /\ ReplayAll(h, from) = IF sessions[h][r].open THEN From(disk[h][r], from) ELSE {}
         /\ ReplayAll(h, from) \subseteq Envelope
         /\ \/ LastSeq(ReplayAll(h, from), before) = before
            \/ \E e \in Entries(disk[h][r]) :
                 e.seq \in Nat /\ LastSeq(ReplayAll(h, from), before) = e.seq
<1>1. h \in Hosts /\ r \in Rooms
  OBVIOUS
<1>2. CASE ~sessions[h][r].open
  <2>1. ReplayAll(h, from) = {}
    BY <1>2 DEF ReplayAll, OpenRooms
  <2> QED  BY <1>2, <2>1 DEF LastSeq
<1>3. CASE sessions[h][r].open
  <2>1. ReplayAll(h, from) = From(disk[h][r], from)
    BY <1>1, <1>3, ReplayLines DEF ReplayAll, OpenRooms
  <2>2. disk[h][r] \in Seq(Envelope) /\ Increasing(disk[h][r])
    BY <1>1 DEF JournalInv, JournalType, JournalOrdered
  <2>3. \A e \in Entries(disk[h][r]) : e \in Envelope
    BY <2>2, ElementOfSeq, LenProperties DEF Entries
  <2>4. \A e \in Entries(disk[h][r]) : e.seq \in Nat /\ e.room = r
    BY <2>3 DEF Envelope
  <2>5. \A e, f \in Entries(disk[h][r]) : e.room = f.room
    BY <2>4
  <2>6. \/ LastSeq(From(disk[h][r], from), before) = before
        \/ \E e \in From(disk[h][r], from) : LastSeq(From(disk[h][r], from), before) = e.seq
    BY <2>2, <2>5, LastOfReplay
  <2>7. From(disk[h][r], from) \subseteq Entries(disk[h][r])
    BY DEF From
  <2> QED  BY <1>3, <2>1, <2>3, <2>4, <2>6, <2>7
<1> QED  BY <1>2, <1>3

-----------------------------------------------------------------------------
(* Steps of the host.                                                      *)

\* A broadcast moves an event from the publishers to what receivers have yet to read.
LEMMA AheadGrows ==
  ASSUME NEW ch \in Seq(Envelope), NEW e \in Envelope, NEW client,
         client.cursor \in 1 .. Len(ch) + 1
  PROVE  /\ Ahead(client, Append(ch, e)) = Ahead(client, ch) \cup {e}
         /\ client.cursor \in 1 .. Len(Append(ch, e)) + 1
<1>1. /\ Len(ch) \in Nat /\ Len(Append(ch, e)) = Len(ch) + 1
      /\ \A i \in 1 .. Len(ch) : Append(ch, e)[i] = ch[i]
      /\ Append(ch, e)[Len(ch) + 1] = e
  BY LenProperties, AppendProperties
<1>2. /\ client.cursor .. Len(ch) + 1 = (client.cursor .. Len(ch)) \cup {Len(ch) + 1}
      /\ client.cursor .. Len(ch) \subseteq 1 .. Len(ch)
  BY <1>1
<1> QED  BY <1>1, <1>2 DEF Ahead

LEMMA BroadcastFollows ==
  ASSUME NEW h, NEW r, Hosts = {h}, Rooms = {r}, FeedInv(h, r), Broadcast(h)
  PROVE  FeedTypes'
         /\ Ordered(sessions[h][r], disk[h][r], pending'[h], channel'[h])
         /\ \A c \in Clients :
              Follows(clients[c], sessions[h][r], disk[h][r], pending'[h], channel'[h], r)
<1> DEFINE s == sessions[h][r]
           d == disk[h][r]
<1>1. h \in Hosts /\ r \in Rooms
  OBVIOUS
<1>2. PICK e \in pending[h] : /\ channel' = [channel EXCEPT ![h] = Append(@, e)]
                              /\ pending' = [pending EXCEPT ![h] = @ \ {e}]
  BY DEF Broadcast
<1>3. /\ channel[h] \in Seq(Envelope) /\ e \in Envelope /\ e.seq \in Nat
      /\ channel'[h] = Append(channel[h], e) /\ pending'[h] = pending[h] \ {e}
  BY <1>1, <1>2 DEF FeedInv, FeedTypes, Envelope
<1>4. s.next \in Nat /\ clients' = clients
  BY <1>1 DEF FeedInv, JournalInv, JournalType, SessionState, Broadcast
<1>5. Ordered(s, d, pending[h], channel[h])
  BY DEF FeedInv
<1> HIDE DEF s, d
<1>6. pending[h] = {e} /\ s.open /\ Below(channel[h], e.seq) /\ e.seq < s.next
      /\ Increasing(channel[h])
  BY <1>5 DEF Ordered
<1>7. /\ Append(channel[h], e) \in Seq(Envelope) /\ Increasing(Append(channel[h], e))
      /\ Below(Append(channel[h], e), e.seq + 1)
  BY <1>3, <1>6, AppendIncreasing
<1>8. Below(Append(channel[h], e), s.next)
  <2>1. ASSUME NEW i \in DOMAIN Append(channel[h], e)
        PROVE  Append(channel[h], e)[i].seq < s.next
    <3>1. Append(channel[h], e)[i] \in Envelope
      BY <1>7, ElementOfSeq, LenProperties
    <3>2. Append(channel[h], e)[i].seq \in Nat /\ Append(channel[h], e)[i].seq < e.seq + 1
      BY <1>7, <3>1 DEF Envelope, Below
    <3> QED  BY <1>3, <1>4, <1>6, <3>2
  <2> QED  BY <2>1 DEF Below
<1>9. pending'[h] = {}
  BY <1>3, <1>6
<1>10. Ordered(s, d, {}, Append(channel[h], e))
  BY <1>5, <1>6, <1>7, <1>8 DEF Ordered
<1>11. ASSUME NEW c \in Clients
       PROVE  Follows(clients[c], s, d, {}, Append(channel[h], e), r)
  <2>1. Follows(clients[c], s, d, {e}, channel[h], r)
    BY <1>6 DEF FeedInv, s, d
  <2>2. CASE clients[c].status = "off"
    BY <2>2 DEF Follows
  <2>3. CASE clients[c].status # "off"
    <3>1. /\ Ahead(clients[c], Append(channel[h], e)) = Ahead(clients[c], channel[h]) \cup {e}
          /\ clients[c].cursor \in 1 .. Len(Append(channel[h], e)) + 1
      BY <1>3, <2>1, <2>3, AheadGrows DEF Follows
    <3>2. \A x : x \in {} \cup Ahead(clients[c], Append(channel[h], e))
                   <=> x \in {e} \cup Ahead(clients[c], channel[h])
      BY <3>1
    <3>3. Complete(clients[c], d, {e}, channel[h])
            => Complete(clients[c], d, {}, Append(channel[h], e))
      BY <3>2 DEF Complete
    <3>4. NoneSkipped(clients[c], d, {e}, channel[h])
            => NoneSkipped(clients[c], d, {}, Append(channel[h], e))
      BY <3>2 DEF NoneSkipped
    <3> QED  BY <2>1, <2>3, <3>1, <3>3, <3>4 DEF Follows
  <2> QED  BY <2>2, <2>3
<1>12. FeedTypes'
  BY <1>1, <1>2, <1>4, <1>7 DEF FeedInv, FeedTypes
<1> QED  BY <1>3, <1>9, <1>10, <1>11, <1>12 DEF s, d

\* What an append leaves of a buffer, against the file it was written to.
LEMMA AppendedTail ==
  ASSUME FeedAssumption, NEW s \in Seq(Envelope), NEW d \in Seq(Envelope), NEW e \in Envelope,
         Suffix(s, d)
  PROVE  /\ Suffix(Tailed(Append(s, e)), Append(d, e))
         /\ Entries(Append(d, e)) \subseteq Entries(d) \cup {e}
<1>1. /\ Append(s, e) \in Seq(Envelope) /\ Append(d, e) \in Seq(Envelope)
      /\ Suffix(Append(s, e), Append(d, e))
  BY SuffixAppend, AppendProperties
<1>2. /\ Tailed(Append(s, e)) \in Seq(Envelope)
      /\ Suffix(Tailed(Append(s, e)), Append(s, e))
  BY <1>1, TailedSuffix
<1>3. Suffix(Tailed(Append(s, e)), Append(d, e))
  BY <1>1, <1>2, SuffixTransitive
<1>4. /\ Len(d) \in Nat /\ DOMAIN d = 1 .. Len(d)
      /\ Append(d, e) \in Seq(Envelope) /\ Len(Append(d, e)) = Len(d) + 1
      /\ \A i \in 1 .. Len(d) : Append(d, e)[i] = d[i]
      /\ Append(d, e)[Len(d) + 1] = e
  BY LenProperties, AppendProperties
<1>5. DOMAIN Append(d, e) = 1 .. Len(d) + 1
  BY <1>4, LenProperties
<1>6. \A i \in 1 .. Len(d) + 1 : i \in 1 .. Len(d) \/ i = Len(d) + 1
  BY <1>4
<1>7. Entries(Append(d, e)) \subseteq Entries(d) \cup {e}
  BY <1>4, <1>5, <1>6 DEF Entries
<1> QED  BY <1>3, <1>7

\* A publisher is alone, and its event follows all that were broadcast.
LEMMA PublishFollows ==
  ASSUME FeedAssumption, NEW h, NEW r, Hosts = {h}, Rooms = {r}, MaxPublishers = 1,
         MaxLostLines = 0, FeedInv(h, r), Publish(h, r)
  PROVE  /\ FeedTypes' /\ lostLines' = 0
         /\ Ordered(sessions'[h][r], disk'[h][r], pending'[h], channel[h])
         /\ \A c \in Clients :
              Follows(clients[c], sessions'[h][r], disk'[h][r], pending'[h], channel[h], r)
<1> DEFINE s == sessions[h][r]
           d == disk[h][r]
           ch == channel[h]
<1>1. h \in Hosts /\ r \in Rooms /\ JournalType
  BY DEF FeedInv, JournalInv
<1>2. pending[h] = {}
  <2>1. Cardinality(pending[h]) < 1
    BY DEF Publish
  <2>2. \A e : Cardinality({e}) = 1
    BY FS_Singleton
  <2>3. pending[h] = {} \/ \E e \in Envelope : pending[h] = {e}
    BY DEF FeedInv, Ordered
  <2>4. ~(1 < 1)
    OBVIOUS
  <2> QED  BY <2>1, <2>2, <2>3, <2>4
<1>3. s.open /\ UNCHANGED <<channel, clients>>
  BY DEF Publish
<1>4. PICK journaled \in BOOLEAN : AppendTo(h, r, journaled)
  BY DEF Publish
<1>5. PICK e : e = [room |-> r, seq |-> s.next, id |-> events, journaled |-> journaled]
  OBVIOUS
<1>6. /\ e \in Envelope
      /\ sessions'[h][r].open /\ sessions'[h][r].next = s.next + 1
      /\ sessions'[h][r].buf = IF journaled THEN Tailed(Append(s.buf, e)) ELSE s.buf
      /\ pending' = [pending EXCEPT ![h] = pending[h] \cup {e}]
      /\ \/ disk'[h][r] = IF journaled THEN Append(d, e) ELSE d
         \/ disk'[h][r] = d /\ lostLines < MaxLostLines
  BY <1>1, <1>3, <1>4, <1>5, SessionAfterAppend
<1>7. lostLines' = 0 /\ disk'[h][r] = IF journaled THEN Append(d, e) ELSE d
  BY <1>4, <1>6 DEF AppendTo, FeedInv
<1>8. pending'[h] = {e} /\ e.seq = s.next
  BY <1>1, <1>2, <1>5, <1>6 DEF FeedInv, FeedTypes
<1>9. /\ s.next \in Nat /\ s.buf \in Seq(Envelope) /\ d \in Seq(Envelope)
      /\ ch \in Seq(Envelope)
  BY <1>1 DEF JournalType, SessionState, FeedInv, FeedTypes
<1>10. Ordered(s, d, {}, ch)
  BY <1>2 DEF FeedInv
<1>11. \A c \in Clients : Follows(clients[c], s, d, {}, ch, r) /\ clients[c] \in Client
  BY <1>2 DEF FeedInv, FeedTypes
<1> DEFINE t == sessions'[h][r]
           longer == disk'[h][r]
<1>12. t.open /\ t.next = s.next + 1
  BY <1>6
<1>13. longer = IF journaled THEN Append(d, e) ELSE d
  BY <1>7
<1>14. t.buf = IF journaled THEN Tailed(Append(s.buf, e)) ELSE s.buf
  BY <1>6
<1> HIDE DEF s, d, ch, t, longer
<1>15. Suffix(t.buf, longer) /\ Entries(longer) \subseteq Entries(d) \cup {e}
  <2>1. Suffix(s.buf, d)
    BY <1>3, <1>10 DEF Ordered
  <2>2. CASE journaled
    BY <1>6, <1>9, <1>13, <1>14, <2>1, <2>2, AppendedTail
  <2>3. CASE ~journaled
    BY <1>13, <1>14, <2>1, <2>3
  <2> QED  BY <2>2, <2>3
<1>17. Below(ch, t.next)
  <2>1. Below(ch, s.next)
    BY <1>10 DEF Ordered
  <2>2. ASSUME NEW i \in DOMAIN ch  PROVE ch[i].seq < s.next + 1
    <3>1. ch[i] \in Envelope
      BY <1>9, ElementOfSeq, LenProperties
    <3>2. ch[i].seq \in Nat /\ ch[i].seq < s.next
      BY <2>1, <3>1 DEF Below, Envelope
    <3> QED  BY <1>9, <3>2
  <2> QED  BY <1>12, <2>2 DEF Below
<1>18. Ordered(t, longer, {e}, ch)
  <2>1. Below(ch, e.seq) /\ e.seq < t.next /\ Increasing(ch)
    BY <1>8, <1>9, <1>10, <1>12 DEF Ordered
  <2> QED  BY <1>6, <1>12, <1>15, <1>17, <2>1 DEF Ordered
<1>19. ASSUME NEW c \in Clients  PROVE Follows(clients[c], t, longer, {e}, ch, r)
  <2>1. Follows(clients[c], s, d, {}, ch, r) /\ clients[c].last \in Int
    BY <1>11 DEF Client
  <2>2. Complete(clients[c], d, {}, ch) => Complete(clients[c], longer, {e}, ch)
    BY <1>15 DEF Complete
  <2>3. NoneSkipped(clients[c], d, {}, ch) /\ clients[c].last < s.next
          => NoneSkipped(clients[c], longer, {e}, ch)
    BY <1>8, <1>9, <1>15, <2>1 DEF NoneSkipped
  <2>4. clients[c].last < s.next => clients[c].last < t.next
    BY <1>9, <1>12, <2>1
  <2> QED  BY <1>12, <2>1, <2>2, <2>3, <2>4 DEF Follows
<1>20. FeedTypes'
  BY <1>1, <1>3, <1>6 DEF FeedInv, FeedTypes
<1> QED  BY <1>7, <1>8, <1>18, <1>19, <1>20 DEF t, longer, ch

\* A closed session has published nothing yet, and nobody follows it.
LEMMA OpenFollows ==
  ASSUME FeedAssumption, NEW h, NEW r, Hosts = {h}, Rooms = {r}, FeedInv(h, r),
         OpenSession(h, r)
  PROVE  /\ FeedTypes'
         /\ Ordered(sessions'[h][r], disk[h][r], pending[h], channel[h])
         /\ \A c \in Clients :
              Follows(clients[c], sessions'[h][r], disk[h][r], pending[h], channel[h], r)
<1>1. h \in Hosts /\ r \in Rooms /\ JournalType
  BY DEF FeedInv, JournalInv
<1>2. /\ ~sessions[h][r].open /\ UNCHANGED <<pending, channel, clients>>
      /\ sessions'[h][r] = Opened(h, r)
  BY <1>1 DEF OpenSession, JournalType
<1>3. disk[h][r] \in Seq(Envelope)
  BY <1>1 DEF JournalType
<1>4. /\ sessions'[h][r].open /\ sessions'[h][r].buf = Tailed(disk[h][r])
  BY <1>2 DEF Opened, Restored
<1>5. Suffix(sessions'[h][r].buf, disk[h][r])
  BY <1>3, <1>4, TailedSuffix
<1>6. pending[h] = {} /\ channel[h] = <<>>
  BY <1>2 DEF FeedInv, Ordered
<1>7. Ordered(sessions'[h][r], disk[h][r], {}, <<>>)
  BY <1>4, <1>5, EmptySeq DEF Ordered, Increasing, Below
<1>8. \A c \in Clients :
        clients[c].status # "off" =>
          /\ clients[c].cursor \in 1 .. Len(channel[h]) + 1
          /\ ~(clients[c].status = "live" /\ r \in clients[c].rooms)
  BY <1>2 DEF FeedInv, Follows
<1>9. FeedTypes'
  BY <1>2 DEF FeedInv, FeedTypes
<1> QED  BY <1>6, <1>7, <1>8, <1>9 DEF Follows

\* After a restart the file is the session's past, and every client connects anew.
LEMMA RestartFollows ==
  ASSUME FeedAssumption, NEW h, NEW r, Hosts = {h}, Rooms = {r}, FeedInv(h, r), Restart(h)
  PROVE  /\ FeedTypes' /\ pulling' = {}
         /\ Ordered(sessions'[h][r], disk[h][r], pending'[h], channel'[h])
         /\ \A c \in Clients :
              Follows(clients'[c], sessions'[h][r], disk[h][r], pending'[h], channel'[h], r)
<1>1. h \in Hosts /\ r \in Rooms /\ JournalType
  BY DEF FeedInv, JournalInv
<1>2. sessions'[h][r] = Closed /\ pending'[h] = {} /\ channel'[h] = <<>>
  BY <1>1 DEF Restart, JournalType, FeedInv, FeedTypes
<1>3. Ordered(sessions'[h][r], disk[h][r], pending'[h], channel'[h])
  <2>1. ~Closed.open /\ Closed.next \in Int
    BY DEF Closed
  <2> QED  BY <1>2, <2>1, EmptySeq DEF Ordered, Increasing, Below
<1>4. \A c \in Clients : clients'[c] = [clients[c] EXCEPT !.status = "off"]
  BY DEF Restart, FeedAssumption
<1>5. ASSUME NEW c \in Clients  PROVE clients'[c] \in Client /\ clients'[c].status = "off"
  <2>1. clients[c] \in Client
    BY DEF FeedInv, FeedTypes
  <2>2. \A x \in Client : LET y == [x EXCEPT !.status = "off"]
                         IN  y \in Client /\ y.status = "off"
    BY DEF Client
  <2>3. clients'[c] = [clients[c] EXCEPT !.status = "off"]
    BY <1>4
  <2> QED  BY <2>1, <2>2, <2>3
<1>6. FeedTypes'
  <2>1. clients' = [c \in Clients |-> clients'[c]]
    BY DEF Restart
  <2>2. clients' \in [Clients -> Client]
    BY <1>5, <2>1
  <2>3. /\ pending' \in [Hosts -> SUBSET Envelope] /\ channel' \in [Hosts -> Seq(Envelope)]
    BY EmptySeq DEF Restart, FeedInv, FeedTypes
  <2> QED  BY <2>2, <2>3 DEF FeedTypes
<1>7. pulling' = {}
  BY DEF Restart, FeedInv
<1> QED  BY <1>3, <1>5, <1>6, <1>7 DEF Follows

-----------------------------------------------------------------------------
(* Steps of a client.                                                      *)

\* A receiver reads the oldest event it has not read, and later ones have larger seqs.
LEMMA AheadMoves ==
  ASSUME NEW ch \in Seq(Envelope), NEW client,
         client.cursor \in 1 .. Len(ch), NEW next, next.cursor = client.cursor + 1
  PROVE  /\ Ahead(client, ch) = {ch[client.cursor]} \cup Ahead(next, ch)
         /\ Increasing(ch) => \A x \in Ahead(next, ch) : x.seq > ch[client.cursor].seq
<1> DEFINE i == client.cursor
<1>1. Len(ch) \in Nat /\ DOMAIN ch = 1 .. Len(ch) /\ i \in 1 .. Len(ch)
  BY LenProperties
<1>2. \A j \in 1 .. Len(ch) : ch[j].seq \in Nat
  <2>1. \A j \in 1 .. Len(ch) : ch[j] \in Envelope
    BY <1>1, ElementOfSeq
  <2> QED  BY <2>1 DEF Envelope
<1> HIDE DEF i
<1>3. i .. Len(ch) = {i} \cup (i + 1 .. Len(ch))
  BY <1>1
<1>4. Ahead(client, ch) = {ch[i]} \cup {ch[j] : j \in i + 1 .. Len(ch)}
  BY <1>3 DEF Ahead, i
<1>5. Ahead(next, ch) = {ch[j] : j \in i + 1 .. Len(ch)}
  BY DEF Ahead, i
<1>6. ASSUME Increasing(ch), NEW j \in i + 1 .. Len(ch)  PROVE ch[j].seq > ch[i].seq
  <2>1. j \in 1 .. Len(ch) /\ i < j
    BY <1>1
  <2> QED  BY <1>1, <1>2, <1>6, <2>1 DEF Increasing
<1> QED  BY <1>4, <1>5, <1>6 DEF i

LEMMA ClientFollows ==
  ASSUME FeedAssumption, NEW h, NEW r, Hosts = {h}, Rooms = {r}, FeedInv(h, r),
         NEW c \in Clients, ClientStep(c)
  PROVE  /\ clients' = [clients EXCEPT ![c] = clients'[c]]
         /\ clients'[c] \in Client
         /\ Follows(clients'[c], sessions[h][r], disk[h][r], pending[h], channel[h], r)
<1> DEFINE s == sessions[h][r]
           d == disk[h][r]
           p == pending[h]
           ch == channel[h]
           old == clients[c]
           new == clients'[c]
           Goal == clients' = [clients EXCEPT ![c] = new] /\ new \in Client
                   /\ Follows(new, s, d, p, ch, r)
<1>1. h \in Hosts /\ r \in Rooms /\ ServedBy[c] = h /\ JournalInv /\ events \in Nat
  BY DEF FeedInv, JournalInv, JournalType, FeedAssumption
<1>2. /\ clients \in [Clients -> Client] /\ old \in Client /\ ch \in Seq(Envelope)
      /\ s.next \in Nat
  BY <1>1 DEF FeedInv, FeedTypes, JournalInv, JournalType, SessionState
<1>3. /\ old.cursor \in Nat /\ old.last \in Int /\ old.last + 1 \in Nat
      /\ old.last \in Nat \cup {-1} /\ old.got \subseteq Envelope
  BY SMTT(30), <1>2 DEF Client
<1>4. Follows(old, s, d, p, ch, r) /\ Ordered(s, d, p, ch)
  BY DEF FeedInv
<1>5. /\ Len(ch) \in Nat /\ DOMAIN ch = 1 .. Len(ch)
      /\ \A i \in 1 .. Len(ch) : ch[i] \in Envelope /\ ch[i].seq \in Nat
  <2>1. /\ Len(ch) \in Nat /\ DOMAIN ch = 1 .. Len(ch)
        /\ \A i \in 1 .. Len(ch) : ch[i] \in Envelope
    BY <1>2, ElementOfSeq, LenProperties
  <2> QED  BY <2>1 DEF Envelope
<1>6. \A e \in Entries(d) : s.open => e.seq < s.next
  BY <1>1 DEF JournalInv, JournalOrdered
<1>7. Oldest(h) \in Nat /\ Oldest(h) \in 1 .. Len(ch) + 1
  BY <1>5 DEF Oldest, FeedAssumption
<1>8. ASSUME NEW from \in Nat, NEW before
      PROVE  /\ ReplayAll(h, from) = IF s.open THEN From(d, from) ELSE {}
             /\ ReplayAll(h, from) \subseteq Envelope
             /\ \/ LastSeq(ReplayAll(h, from), before) = before
                \/ \E e \in Entries(d) :
                     e.seq \in Nat /\ LastSeq(ReplayAll(h, from), before) = e.seq
  <2>1. s.open => Suffix(s.buf, d)
    BY <1>4 DEF Ordered
  <2> QED  BY <1>1, <2>1, ReplayOfRoom
<1>9. ASSUME Subscribe(c)  PROVE Goal
  <2>1. clients' = [clients EXCEPT ![c].status = "subscribed", ![c].tries = @ + 1,
                      ![c].last = -1, ![c].cursor = Len(ch) + 1]
    BY <1>1, <1>9 DEF Subscribe
  <2> HIDE DEF ch, s, d, p
  <2>2. Len(ch) + 1 \in Nat /\ old.tries + 1 \in Nat
    BY SMTT(30), <1>2, <1>5 DEF Client
  <2>3. new.status = "subscribed" /\ new.cursor = Len(ch) + 1 /\ new \in Client
    BY <1>2, <2>1, <2>2 DEF Client
  <2>4. clients' = [clients EXCEPT ![c] = new]
    BY <1>2, <2>1
  <2>5. new.cursor \in 1 .. Len(ch) + 1
    BY <1>5, <2>3
  <2> QED  BY <2>3, <2>4, <2>5 DEF Follows
<1>10. ASSUME StartReplay(c)  PROVE Goal
  <2>1. PICK from \in 0 .. events :
          clients' = [clients EXCEPT
            ![c].status = "live", ![c].from = from, ![c].rooms = OpenRooms(h),
            ![c].got = @ \cup ReplayAll(h, from),
            ![c].last = LastSeq(ReplayAll(h, from), -1)]
        /\ old.status = "subscribed"
    BY <1>1, <1>10 DEF StartReplay
  <2> DEFINE es == ReplayAll(h, from)
             l == LastSeq(es, -1)
             open == OpenRooms(h)
  <2>2. from \in Nat
    BY <1>1, <2>1
  <2>3. /\ es = (IF s.open THEN From(d, from) ELSE {}) /\ es \subseteq Envelope
        /\ l = -1 \/ \E e \in Entries(d) : e.seq \in Nat /\ l = e.seq
    BY <1>8, <2>2
  <2>4. l \in Nat \cup {-1} /\ open \subseteq Rooms /\ (r \in open => s.open)
    BY <2>3 DEF OpenRooms
  <2>5. clients' = [clients EXCEPT ![c].status = "live", ![c].from = from,
                      ![c].rooms = open, ![c].got = @ \cup es, ![c].last = l]
    BY <2>1
  <2> HIDE DEF es, l, open, ch, s, d, p
  <2>6. /\ new.status = "live" /\ new.from = from /\ new.rooms = open
        /\ new.got = old.got \cup es /\ new.last = l /\ new.cursor = old.cursor
        /\ new \in Client
        /\ clients' = [clients EXCEPT ![c] = new]
    BY ZenonT(60), <1>2, <2>2, <2>3, <2>4, <2>5 DEF Client
  <2>7. s.open => Complete(new, d, p, ch) /\ NoneSkipped(new, d, p, ch)
    BY <2>3, <2>6 DEF Complete, NoneSkipped, From
  <2>8. s.open => new.last < s.next
    BY <1>2, <1>6, <2>3, <2>6
  <2>9. new.cursor \in 1 .. Len(ch) + 1
    BY <1>4, <2>1, <2>6 DEF Follows
  <2> QED  BY <2>4, <2>6, <2>7, <2>8, <2>9 DEF Follows
<1>11. ASSUME Receive(c)  PROVE Goal
  <2> DEFINE i == old.cursor
             e == ch[i]
  <2>1. /\ old.status = "live" /\ i \in Oldest(h) .. Len(ch)
        /\ clients' = [clients EXCEPT ![c].cursor = i + 1, ![c].got = @ \cup {e},
                                      ![c].last = e.seq]
    BY <1>1, <1>11 DEF Receive
  <2>2. i \in 1 .. Len(ch) /\ i + 1 \in Nat /\ e \in Envelope /\ e.seq \in Nat
    <3>1. \A m, n, k \in Nat : m \in 1 .. n + 1 /\ k \in m .. n => k \in 1 .. n
      OBVIOUS
    <3>2. i \in Nat /\ i + 1 \in Nat
      BY <1>3
    <3>3. Len(ch) \in Nat
      BY <1>5
    <3> HIDE DEF i, ch
    <3>4. i \in 1 .. Len(ch)
      BY <1>7, <2>1, <3>1, <3>2, <3>3
    <3> QED  BY <1>5, <3>2, <3>4
  <2> HIDE DEF e, ch, s, d, p
  <2>3. /\ new.status = "live" /\ new.from = old.from /\ new.rooms = old.rooms
        /\ new.got = old.got \cup {e} /\ new.last = e.seq /\ new.cursor = i + 1
        /\ new \in Client
        /\ clients' = [clients EXCEPT ![c] = new]
    BY <1>2, <2>1, <2>2 DEF Client
  <2>4. Ahead(old, ch) = {e} \cup Ahead(new, ch) /\ \A x \in Ahead(new, ch) : x.seq > e.seq
    BY <1>2, <1>4, <2>2, <2>3, AheadMoves DEF Ordered, e
  <2>5. Complete(old, d, p, ch) => Complete(new, d, p, ch)
    BY <2>3, <2>4 DEF Complete
  <2>6. \A x \in p \cup Ahead(new, ch) : x.seq > e.seq
    <3>1. ASSUME NEW x \in p  PROVE x.seq > e.seq
      <4>1. ch[i].seq < x.seq
        BY <1>4, <1>5, <2>2 DEF Ordered, Below
      <4>2. x.seq \in Nat
        BY <1>1 DEF FeedInv, FeedTypes, Envelope, p
      <4> QED  BY <2>2, <4>1, <4>2 DEF e
    <3> QED  BY <2>4, <3>1
  <2>7. NoneSkipped(new, d, p, ch)
    BY <2>3, <2>6 DEF NoneSkipped
  <2>8. e.seq < s.next
    BY <1>4, <1>5, <2>2 DEF Ordered, Below, e
  <2>9. new.cursor \in 1 .. Len(ch) + 1
    BY SMTT(30), <1>5, <2>2, <2>3
  <2> QED  BY <1>4, <2>1, <2>3, <2>5, <2>7, <2>8, <2>9 DEF Follows
<1>12. ASSUME Lagged(c)  PROVE Goal
  <2> DEFINE from == old.last + 1
             es == ReplayAll(h, from)
             l == LastSeq(es, old.last)
             i == Oldest(h)
  <2>1. /\ old.status = "live" /\ old.cursor < i
        /\ clients' = [clients EXCEPT ![c].cursor = i, ![c].got = @ \cup es, ![c].last = l]
    BY <1>1, <1>2, <1>12 DEF Lagged
  <2>2. /\ es = (IF s.open THEN From(d, from) ELSE {}) /\ es \subseteq Envelope
        /\ l = old.last \/ \E e \in Entries(d) : e.seq \in Nat /\ l = e.seq
    BY <1>3, <1>8
  <2>3. l \in Nat \cup {-1}
    BY <1>3, <2>2
  <2>4. i \in Nat /\ i \in 1 .. Len(ch) + 1
    BY <1>7
  <2>5. from = old.last + 1
    OBVIOUS
  <2> HIDE DEF es, l, i, from, ch, s, d, p
  <2>6. /\ new.status = "live" /\ new.from = old.from /\ new.rooms = old.rooms
        /\ new.got = old.got \cup es /\ new.last = l /\ new.cursor = i
        /\ new \in Client
        /\ clients' = [clients EXCEPT ![c] = new]
    BY <1>2, <2>1, <2>2, <2>3, <2>4 DEF Client
  <2>7. Ahead(new, ch) \subseteq Ahead(old, ch)
    <3>1. i .. Len(ch) \subseteq old.cursor .. Len(ch)
      BY SMTT(30), <1>3, <1>5, <2>1, <2>4
    <3> QED  BY <2>6, <3>1 DEF Ahead
  <2>8. ASSUME s.open, Complete(old, d, p, ch), NoneSkipped(old, d, p, ch)
        PROVE  Complete(new, d, p, ch) /\ NoneSkipped(new, d, p, ch)
    <3>1. ASSUME NEW e \in Entries(d), e.seq > old.last  PROVE e \in es
      <4>1. e.seq \in Nat
        <5>1. d \in Seq(Envelope)
          BY <1>1 DEF JournalInv, JournalType, d
        <5>2. \A j \in DOMAIN d : d[j] \in Envelope
          BY <5>1, ElementOfSeq, LenProperties
        <5> QED  BY <5>2 DEF Entries, Envelope
      <4>2. e.seq >= from
        BY <1>3, <2>5, <3>1, <4>1
      <4> QED  BY <2>2, <2>8, <4>2 DEF From
    <3>2. ASSUME NEW e \in Entries(d), e.seq >= old.from, e \in p \cup Ahead(old, ch)
          PROVE  e \in new.got
      BY <2>6, <2>8, <3>1, <3>2 DEF NoneSkipped
    <3>3. Complete(new, d, p, ch)
      BY <2>6, <2>8, <3>2 DEF Complete
    <3>4. NoneSkipped(new, d, p, ch)
      BY <2>6, <2>7, <3>2 DEF NoneSkipped
    <3> QED  BY <3>3, <3>4
  <2>9. s.open /\ old.last < s.next => l < s.next
    BY <1>6, <2>2
  <2> QED  BY <1>4, <2>1, <2>4, <2>6, <2>8, <2>9 DEF Follows
<1>13. ASSUME Disconnect(c)  PROVE Goal
  <2>1. clients' = [clients EXCEPT ![c].status = "off"]
    BY <1>13 DEF Disconnect
  <2>2. new.status = "off" /\ new \in Client /\ clients' = [clients EXCEPT ![c] = new]
    BY <1>2, <2>1 DEF Client
  <2> QED  BY <2>2 DEF Follows
<1> HIDE DEF Goal
<1>14. Goal
  BY <1>9, <1>10, <1>11, <1>12, <1>13 DEF ClientStep
<1> QED  BY <1>14 DEF Goal

-----------------------------------------------------------------------------
\* Nobody waits for an ack of another host, and every write succeeds.
LEMMA FeedInvStep ==
  ASSUME FeedAssumption, NEW h, NEW r, Hosts = {h}, Rooms = {r}, MaxPublishers = 1,
         MaxLostLines = 0, FeedInv(h, r), [Next]_vars
  PROVE  FeedInv(h, r)'
<1>1. h \in Hosts /\ r \in Rooms /\ JournalInv /\ FeedTypes
      /\ pulling = {} /\ lostLines = 0
  BY DEF FeedInv
<1>2. JournalInv'
  BY <1>1, JournalStep
<1> DEFINE Stays ==
         /\ FeedTypes' /\ pulling' = {} /\ lostLines' = 0
         /\ Ordered(sessions'[h][r], disk'[h][r], pending'[h], channel'[h])
         /\ \A c \in Clients :
              Follows(clients'[c], sessions'[h][r], disk'[h][r], pending'[h], channel'[h], r)
<1>3. ASSUME UNCHANGED <<feed, clients, pulling, lostLines>>  PROVE Stays
  BY <1>1, <1>3 DEF FeedInv, FeedTypes, feed
<1>4. ASSUME Publish(h, r)  PROVE Stays
  <2>1. UNCHANGED <<channel, clients, pulling>>
    BY <1>4 DEF Publish, runs
  <2> QED  BY <1>1, <1>4, <2>1, PublishFollows
<1>5. ASSUME Broadcast(h)  PROVE Stays
  <2>1. UNCHANGED <<sessions, disk, clients, pulling, lostLines>>
    BY <1>5 DEF Broadcast, runs, faults
  <2> QED  BY <1>1, <1>5, <2>1, BroadcastFollows
<1>6. ASSUME OpenSession(h, r)  PROVE Stays
  <2>1. UNCHANGED <<disk, pending, channel, clients, pulling, lostLines>>
    BY <1>6 DEF OpenSession, runs, faults
  <2> QED  BY <1>1, <1>6, <2>1, OpenFollows
<1>7. ASSUME Restart(h)  PROVE Stays
  <2>1. UNCHANGED <<disk, lostLines>>
    BY <1>7 DEF Restart
  <2> QED  BY <1>1, <1>7, <2>1, RestartFollows
<1>8. ASSUME NEW c \in Clients, ClientStep(c)  PROVE Stays
  <2>1. UNCHANGED <<feed, pulling, lostLines>>
    BY <1>8 DEF ClientStep, Subscribe, StartReplay, Receive, Lagged, Disconnect, runs, faults
  <2>2. UNCHANGED <<sessions, disk, pending, channel>>
    BY <2>1 DEF feed
  <2>3. /\ clients' = [clients EXCEPT ![c] = clients'[c]]
        /\ clients'[c] \in Client
        /\ Follows(clients'[c], sessions[h][r], disk[h][r], pending[h], channel[h], r)
    BY <1>8, ClientFollows
  <2>4. \A x \in Clients \ {c} : clients'[x] = clients[x]
    BY <1>1, <2>3 DEF FeedTypes
  <2>5. FeedTypes'
    BY <1>1, <2>2, <2>3 DEF FeedTypes
  <2>6. \A x \in Clients :
          Follows(clients'[x], sessions[h][r], disk[h][r], pending[h], channel[h], r)
    BY <2>3, <2>4 DEF FeedInv
  <2> QED  BY <1>1, <2>1, <2>2, <2>5, <2>6 DEF FeedInv
<1>9. ASSUME AttachRoom(h, r) \/ CommitTurn(h, r) \/ LeaveRoom(h, r) \/ ServeHandoff(h, r)
             \/ DropAck(r)
      PROVE  Stays
  <2>1. UNCHANGED <<feed, clients, pulling, lostLines>>
    BY <1>9 DEF AttachRoom, CommitTurn, LeaveRoom, ServeHandoff, DropAck, faults
  <2> QED  BY <1>3, <2>1
<1>10. ~Pull(h, r) /\ ~PullTimeout(h, r) /\ ~ResumeNode(h, r)
  BY <1>1 DEF Pull, PullTimeout, ResumeNode
<1>11. ASSUME UNCHANGED vars  PROVE Stays
  BY <1>3, <1>11 DEF vars, runs, faults
<1>12. Stays
  <2>1. CASE HostStep(h)
    BY <1>4, <1>5, <1>6, <1>7, <1>9, <1>10, <2>1 DEF HostStep
  <2> QED  BY <1>8, <1>9, <1>11, <2>1 DEF Next
<1> QED  BY <1>2, <1>12 DEF FeedInv

LEMMA FeedInvInit ==
  ASSUME FeedAssumption, NEW h, NEW r, Hosts = {h}, Rooms = {r}, Init
  PROVE  FeedInv(h, r)
<1>1. JournalInv
  BY JournalInit
<1>2. /\ sessions[h][r] = Closed /\ disk[h][r] = <<>> /\ pending[h] = {} /\ channel[h] = <<>>
      /\ \A c \in Clients : clients[c] = Offline
  BY DEF Init
<1>3. Offline \in Client /\ Offline.status = "off"
  BY DEF Offline, Client
<1>4. FeedTypes
  BY <1>3, EmptySeq DEF Init, FeedTypes
<1>5. Ordered(Closed, <<>>, {}, <<>>)
  <2>1. ~Closed.open
    BY DEF Closed
  <2> QED  BY <2>1, EmptySeq DEF Ordered, Increasing, Below
<1>6. \A c \in Clients : Follows(Offline, Closed, <<>>, {}, <<>>, r)
  BY <1>3 DEF Follows
<1> QED  BY <1>1, <1>2, <1>4, <1>5, <1>6 DEF FeedInv, Init

LEMMA FeedInvComplete ==
  ASSUME FeedAssumption, NEW h, NEW r, Hosts = {h}, Rooms = {r}, FeedInv(h, r)
  PROVE  FeedComplete
<1> SUFFICES ASSUME NEW c \in Clients, clients[c].status = "live", r \in clients[c].rooms,
                    NEW e \in Entries(disk[h][r]) \cup Entries(sessions[h][r].buf),
                    e.seq >= clients[c].from
             PROVE  \/ e \in clients[c].got \/ e \in pending[h]
                    \/ \E i \in clients[c].cursor .. Len(channel[h]) : channel[h][i] = e
  <2>1. \A x \in Clients : ServedBy[x] = h /\ clients[x].rooms \subseteq {r}
    BY DEF FeedInv, FeedTypes, Client, FeedAssumption
  <2> QED  BY <2>1 DEF FeedComplete
<1>1. h \in Hosts /\ r \in Rooms
  OBVIOUS
<1>2. /\ sessions[h][r].open
      /\ Complete(clients[c], disk[h][r], pending[h], channel[h])
  BY DEF FeedInv, Follows
<1>3. Entries(sessions[h][r].buf) \subseteq Entries(disk[h][r])
  <2>1. sessions[h][r].buf \in Seq(Envelope) /\ disk[h][r] \in Seq(Envelope)
    BY <1>1 DEF FeedInv, JournalInv, JournalType, SessionState
  <2>2. Suffix(sessions[h][r].buf, disk[h][r])
    BY <1>2 DEF FeedInv, Ordered
  <2> QED  BY <2>1, <2>2, SuffixEntries
<1> QED  BY <1>2, <1>3 DEF Complete, Ahead

\* On one host with one room and one publisher at a time, and with every line written,
\* a live client misses no journaled event of the room from its replay on, however often
\* it falls behind, reconnects, or the host restarts (ws.rs client_connection: subscribe
\* before the replay, catch up from last_sent_seq; session.rs replay_from).
THEOREM FeedsComplete ==
  ASSUME NEW h, NEW r, Hosts = {h}, Rooms = {r}, MaxPublishers = 1, MaxLostLines = 0
  PROVE  Spec => []FeedComplete
<1>1. Init => FeedInv(h, r)
  BY FeedAssumption, FeedInvInit
<1>2. FeedInv(h, r) /\ [Next]_vars => FeedInv(h, r)'
  BY FeedAssumption, FeedInvStep
<1>3. FeedInv(h, r) => FeedComplete
  BY FeedAssumption, FeedInvComplete
<1> QED  BY <1>1, <1>2, <1>3, PTL DEF Spec

-----------------------------------------------------------------------------
(* The feed is complete: no client falls behind.                           *)

\* What a client gets of the rooms of its host, whatever the order it comes in.
Attends(client, ss, ds, p, ch) ==
    client.status # "off" =>
        /\ client.cursor \in 1 .. Len(ch) + 1
        /\ client.status = "live" => \A r \in client.rooms :
               ss[r].open /\ Complete(client, ds[r], p, ch)

Tails(ss, ds) == \A r \in Rooms : ss[r].open => Suffix(ss[r].buf, ds[r])

UnlaggedInv ==
    /\ JournalInv /\ FeedShape /\ lostLines = 0
    /\ \A h \in Hosts : Tails(sessions[h], disk[h])
    /\ \A c \in Clients : LET h == ServedBy[c] IN
         Attends(clients[c], sessions[h], disk[h], pending[h], channel[h])

\* A step of a host that loses nothing: sessions stay open, what is written is also
\* pending, and what is no longer pending is in the channel.
LoseNothing(h) ==
    /\ \A r \in Rooms : sessions[h][r].open =>
         /\ sessions'[h][r].open
         /\ Entries(disk'[h][r]) \subseteq Entries(disk[h][r]) \cup pending'[h]
    /\ \/ channel'[h] = channel[h] /\ pending[h] \subseteq pending'[h]
       \/ \E e \in Envelope : /\ channel'[h] = Append(channel[h], e)
                              /\ pending[h] \subseteq pending'[h] \cup {e}
    /\ Tails(sessions'[h], disk'[h])

LEMMA AttendsOn ==
  ASSUME FeedAssumption, UnlaggedInv, NEW c \in Clients, NEW h \in Hosts, ServedBy[c] = h,
         clients[c].rooms \subseteq Rooms, LoseNothing(h)
  PROVE  Attends(clients[c], sessions'[h], disk'[h], pending'[h], channel'[h])
<1> DEFINE old == clients[c]
<1>1. Attends(old, sessions[h], disk[h], pending[h], channel[h])
  BY DEF UnlaggedInv
<1>2. channel[h] \in Seq(Envelope)
  BY DEF UnlaggedInv, FeedShape
<1> HIDE DEF old
<1>3. ASSUME old.status # "off"
      PROVE  /\ old.cursor \in 1 .. Len(channel'[h]) + 1
             /\ \A x \in pending[h] \cup Ahead(old, channel[h]) :
                  x \in pending'[h] \cup Ahead(old, channel'[h])
  <2>1. old.cursor \in 1 .. Len(channel[h]) + 1
    BY <1>1, <1>3 DEF Attends
  <2>2. CASE channel'[h] = channel[h] /\ pending[h] \subseteq pending'[h]
    BY <2>1, <2>2
  <2>3. ASSUME NEW e \in Envelope, channel'[h] = Append(channel[h], e),
               pending[h] \subseteq pending'[h] \cup {e}
        PROVE  /\ old.cursor \in 1 .. Len(channel'[h]) + 1
               /\ \A x \in pending[h] \cup Ahead(old, channel[h]) :
                    x \in pending'[h] \cup Ahead(old, channel'[h])
    <3>1. /\ Ahead(old, Append(channel[h], e)) = Ahead(old, channel[h]) \cup {e}
          /\ old.cursor \in 1 .. Len(Append(channel[h], e)) + 1
      BY <1>2, <2>1, AheadGrows
    <3> QED  BY <2>3, <3>1
  <2> QED  BY <2>2, <2>3 DEF LoseNothing
<1>4. ASSUME old.status = "live", NEW r \in old.rooms
      PROVE  sessions'[h][r].open /\ Complete(old, disk'[h][r], pending'[h], channel'[h])
  <2>1. r \in Rooms
    BY DEF old
  <2>2. sessions[h][r].open /\ Complete(old, disk[h][r], pending[h], channel[h])
    BY <1>1, <1>4 DEF Attends
  <2>3. /\ sessions'[h][r].open
        /\ Entries(disk'[h][r]) \subseteq Entries(disk[h][r]) \cup pending'[h]
    BY <2>1, <2>2 DEF LoseNothing
  <2> QED  BY <1>3, <1>4, <2>2, <2>3 DEF Complete
<1>5. Attends(old, sessions'[h], disk'[h], pending'[h], channel'[h])
  BY <1>3, <1>4 DEF Attends
<1> QED  BY <1>5 DEF old

\* Only a restart loses what a host has published.
LEMMA HostLosesNothing ==
  ASSUME FeedAssumption, MaxLostLines = 0, UnlaggedInv, NEW h \in Hosts, HostStep(h),
         ~Restart(h), NEW g \in Hosts
  PROVE  LoseNothing(g) /\ clients' = clients
<1> USE DEF UnlaggedInv, JournalInv
<1>1. /\ JournalType /\ Tails(sessions[g], disk[g])
      /\ pending \in [Hosts -> SUBSET Envelope] /\ channel \in [Hosts -> Seq(Envelope)]
  BY DEF FeedShape
<1>2. ASSUME UNCHANGED <<feed, clients>>  PROVE LoseNothing(g) /\ clients' = clients
  BY <1>1, <1>2 DEF feed, LoseNothing
<1>3. ASSUME NEW r \in Rooms, OpenSession(h, r) \/ Pull(h, r)
      PROVE  LoseNothing(g) /\ clients' = clients
  <2>1. /\ sessions' = [sessions EXCEPT ![h][r] = Opened(h, r)]
        /\ UNCHANGED <<disk, pending, clients>>
        /\ channel' = channel \/ channel' = [channel EXCEPT ![h] = Append(@, RequestEnvelope(r))]
    BY <1>3 DEF OpenSession, Pull
  <2>2. RequestEnvelope(r) \in Envelope
    BY <1>1 DEF RequestEnvelope, Envelope, JournalType
  <2>3. \/ channel'[g] = channel[g]
        \/ channel'[g] = Append(channel[g], RequestEnvelope(r))
    BY <1>1, <2>1
  <2>4. ASSUME NEW q \in Rooms
        PROVE  /\ sessions[g][q].open => sessions'[g][q].open
               /\ sessions'[g][q].open => Suffix(sessions'[g][q].buf, disk[g][q])
    <3>1. CASE g = h /\ q = r /\ ~sessions[h][r].open
      <4>1. sessions'[g][q] = Opened(h, r)
        BY <1>1, <2>1, <3>1 DEF JournalType
      <4>2. Opened(h, r).buf = Tailed(disk[h][r])
        BY <3>1 DEF Opened, Restored
      <4>3. disk[h][r] \in Seq(Envelope)
        BY <1>1 DEF JournalType
      <4> QED  BY <3>1, <4>1, <4>2, <4>3, TailedSuffix
    <3>2. CASE ~(g = h /\ q = r /\ ~sessions[h][r].open)
      <4>1. sessions'[g][q] = sessions[g][q]
        BY <1>1, <2>1, <3>2 DEF JournalType, Opened
      <4> QED  BY <1>1, <4>1 DEF Tails
    <3> QED  BY <3>1, <3>2
  <2> QED  BY <2>1, <2>2, <2>3, <2>4 DEF LoseNothing, Tails
<1>4. ASSUME NEW r \in Rooms, Publish(h, r)  PROVE LoseNothing(g) /\ clients' = clients
  <2>1. PICK journaled \in BOOLEAN : AppendTo(h, r, journaled)
    BY <1>4 DEF Publish
  <2>2. sessions[h][r].open /\ UNCHANGED <<channel, clients>>
    BY <1>4 DEF Publish
  <2>3. CASE g # h
    <3>1. /\ sessions'[g] = sessions[g] /\ disk'[g] = disk[g] /\ pending'[g] = pending[g]
      BY <1>1, <2>1, <2>3 DEF AppendTo, JournalType
    <3> QED  BY <1>1, <2>2, <3>1 DEF LoseNothing
  <2>4. CASE g = h
    <3>1. PICK e : e = [room |-> r, seq |-> sessions[h][r].next, id |-> events,
                        journaled |-> journaled]
      OBVIOUS
    <3>2. /\ e \in Envelope
          /\ sessions'[h][r].open
          /\ sessions'[h][r].buf = IF journaled THEN Tailed(Append(sessions[h][r].buf, e))
                                   ELSE sessions[h][r].buf
          /\ \A q \in Rooms \ {r} : sessions'[h][q] = sessions[h][q] /\ disk'[h][q] = disk[h][q]
          /\ pending' = [pending EXCEPT ![h] = pending[h] \cup {e}]
          /\ \/ disk'[h][r] = IF journaled THEN Append(disk[h][r], e) ELSE disk[h][r]
             \/ lostLines < MaxLostLines
      BY <1>1, <2>1, <2>2, <3>1, SessionAfterAppend
    <3>3. disk'[h][r] = IF journaled THEN Append(disk[h][r], e) ELSE disk[h][r]
      BY <3>2
    <3>4. pending'[h] = pending[h] \cup {e}
      BY <1>1, <3>2
    <3>5. /\ sessions[h][r].buf \in Seq(Envelope) /\ disk[h][r] \in Seq(Envelope)
          /\ Suffix(sessions[h][r].buf, disk[h][r])
      BY <1>1, <2>2, <2>4 DEF JournalType, SessionState, Tails
    <3>6. /\ Suffix(sessions'[h][r].buf, disk'[h][r])
          /\ Entries(disk'[h][r]) \subseteq Entries(disk[h][r]) \cup {e}
      <4>1. CASE journaled
        BY <3>2, <3>3, <3>5, <4>1, AppendedTail
      <4>2. CASE ~journaled
        BY <3>2, <3>3, <3>5, <4>2
      <4> QED  BY <4>1, <4>2
    <3>7. Tails(sessions'[h], disk'[h])
      BY <1>1, <2>4, <3>2, <3>6 DEF Tails
    <3>8. \A q \in Rooms : sessions[h][q].open =>
            /\ sessions'[h][q].open
            /\ Entries(disk'[h][q]) \subseteq Entries(disk[h][q]) \cup pending'[h]
      BY <3>2, <3>4, <3>6
    <3> QED  BY <2>2, <2>4, <3>4, <3>7, <3>8 DEF LoseNothing
  <2> QED  BY <2>3, <2>4
<1>5. ASSUME Broadcast(h)  PROVE LoseNothing(g) /\ clients' = clients
  <2>1. PICK e \in pending[h] : /\ channel' = [channel EXCEPT ![h] = Append(@, e)]
                                /\ pending' = [pending EXCEPT ![h] = @ \ {e}]
    BY <1>5 DEF Broadcast
  <2>2. e \in Envelope /\ UNCHANGED <<sessions, disk, clients>>
    BY <1>1, <1>5 DEF Broadcast
  <2>3. \/ channel'[g] = channel[g] /\ pending[g] \subseteq pending'[g]
        \/ channel'[g] = Append(channel[g], e) /\ pending[g] \subseteq pending'[g] \cup {e}
    BY <1>1, <2>1
  <2> QED  BY <1>1, <2>2, <2>3 DEF LoseNothing
<1>6. ASSUME NEW r \in Rooms, ResumeNode(h, r)  PROVE LoseNothing(g) /\ clients' = clients
  <2>1. /\ UNCHANGED <<sessions, pending, channel, clients>>
        /\ disk' = disk \/ disk' = Seeded(h, r)
    BY <1>6 DEF ResumeNode
  <2>2. \A q \in Rooms : sessions[g][q].open => disk'[g][q] = disk[g][q]
    <3>1. CASE disk' = disk
      BY <3>1
    <3>2. CASE ~sessions[h][r].open /\ disk' = [disk EXCEPT ![h][r] = committed[r]]
      BY <1>1, <3>2 DEF JournalType
    <3> QED  BY <2>1, <3>1, <3>2 DEF Seeded
  <2> QED  BY <1>1, <2>1, <2>2 DEF LoseNothing, Tails
<1>7. ASSUME NEW r \in Rooms,
             AttachRoom(h, r) \/ CommitTurn(h, r) \/ LeaveRoom(h, r) \/ PullTimeout(h, r)
             \/ ServeHandoff(h, r)
      PROVE  LoseNothing(g) /\ clients' = clients
  <2>1. UNCHANGED <<feed, clients>>
    BY <1>7 DEF AttachRoom, CommitTurn, LeaveRoom, PullTimeout, ServeHandoff
  <2> QED  BY <1>2, <2>1
<1> QED  BY <1>3, <1>4, <1>5, <1>6, <1>7 DEF HostStep

\* A client that has not fallen behind attends the rooms of its replay.
LEMMA ClientAttends ==
  ASSUME FeedAssumption, UnlaggedInv, NEW c \in Clients, ClientStep(c), ~Lagged(c),
         NEW h, ServedBy[c] = h
  PROVE  /\ \A x \in Clients \ {c} : clients'[x] = clients[x]
         /\ Attends(clients'[c], sessions[h], disk[h], pending[h], channel[h])
<1> DEFINE ss == sessions[h]
           ds == disk[h]
           p == pending[h]
           ch == channel[h]
           old == clients[c]
           new == clients'[c]
           Goal == /\ \A x \in Clients \ {c} : clients'[x] = clients[x]
                   /\ Attends(new, ss, ds, p, ch)
<1>1. h \in Hosts /\ JournalInv /\ events \in Nat
  BY DEF UnlaggedInv, FeedAssumption, JournalInv, JournalType
<1>2. PICK L : clients \in [Clients -> ClientWith(L)]
  BY DEF UnlaggedInv, FeedShape
<1>3. ch \in Seq(Envelope) /\ Len(ch) \in Nat
  BY <1>1, LenProperties DEF UnlaggedInv, FeedShape
<1>4. Attends(old, ss, ds, p, ch)
  BY DEF UnlaggedInv
<1>5. \A r \in Rooms, from \in Nat :
        ss[r].open => Replay(h, r, from) = From(ds[r], from)
  BY <1>1, ReplayLines DEF UnlaggedInv, Tails
<1>6. old.cursor \in Nat /\ old.rooms \subseteq Rooms
  BY <1>2 DEF ClientWith
<1>7. ASSUME Subscribe(c)  PROVE Goal
  <2>1. clients' = [clients EXCEPT ![c].status = "subscribed", ![c].tries = @ + 1,
                      ![c].last = -1, ![c].cursor = Len(ch) + 1]
    BY <1>7 DEF Subscribe
  <2> HIDE DEF ch, ss, ds, p
  <2>2. new.status = "subscribed" /\ new.cursor = Len(ch) + 1
        /\ \A x \in Clients \ {c} : clients'[x] = clients[x]
    BY <1>2, <2>1 DEF ClientWith
  <2>3. new.cursor \in 1 .. Len(ch) + 1
    BY <1>3, <2>2
  <2> QED  BY <2>2, <2>3 DEF Attends
<1>8. ASSUME StartReplay(c)  PROVE Goal
  <2>1. PICK from \in 0 .. events :
          clients' = [clients EXCEPT
            ![c].status = "live", ![c].from = from, ![c].rooms = OpenRooms(h),
            ![c].got = @ \cup ReplayAll(h, from),
            ![c].last = LastSeq(ReplayAll(h, from), -1)]
        /\ old.status = "subscribed"
    BY <1>8 DEF StartReplay
  <2> DEFINE es == ReplayAll(h, from)
             l == LastSeq(es, -1)
             open == OpenRooms(h)
  <2>2. clients' = [clients EXCEPT ![c].status = "live", ![c].from = from,
                      ![c].rooms = open, ![c].got = @ \cup es, ![c].last = l]
    BY <2>1
  <2>3. from \in Nat
    BY <1>1, <2>1
  <2>4. \A r \in open : r \in Rooms /\ ss[r].open /\ From(ds[r], from) \subseteq es
    BY <1>5, <2>3 DEF OpenRooms, ReplayAll
  <2> HIDE DEF es, l, open, ch, ss, ds, p
  <2>5. /\ new.status = "live" /\ new.from = from /\ new.rooms = open
        /\ new.got = old.got \cup es /\ new.cursor = old.cursor
        /\ \A x \in Clients \ {c} : clients'[x] = clients[x]
    BY <1>2, <2>2 DEF ClientWith
  <2>6. new.cursor \in 1 .. Len(ch) + 1
    BY <1>4, <2>1, <2>5 DEF Attends
  <2>7. \A r \in new.rooms : ss[r].open /\ Complete(new, ds[r], p, ch)
    BY <2>4, <2>5 DEF Complete, From
  <2> QED  BY <2>5, <2>6, <2>7 DEF Attends
<1>9. ASSUME Receive(c)  PROVE Goal
  <2> DEFINE i == old.cursor
             e == ch[i]
  <2>1. /\ old.status = "live" /\ i <= Len(ch)
        /\ clients' = [clients EXCEPT ![c].cursor = i + 1, ![c].got = @ \cup {e},
                                      ![c].last = e.seq]
    <3>1. Oldest(h) \in Int
      BY <1>3 DEF Oldest, FeedAssumption
    <3> QED  BY <1>3, <1>6, <1>9, <3>1 DEF Receive
  <2>2. i \in 1 .. Len(ch) /\ i + 1 \in Nat
    <3>1. i \in 1 .. Len(ch) + 1
      BY <1>4, <2>1 DEF Attends
    <3> HIDE DEF i, ch
    <3> QED  BY <1>3, <2>1, <3>1
  <2> HIDE DEF e, ch, ss, ds, p
  <2>3. /\ new.status = "live" /\ new.from = old.from /\ new.rooms = old.rooms
        /\ new.got = old.got \cup {e} /\ new.cursor = i + 1
        /\ \A x \in Clients \ {c} : clients'[x] = clients[x]
    BY <1>2, <2>1, <2>2 DEF ClientWith
  <2>4. Ahead(old, ch) = {e} \cup Ahead(new, ch)
    BY <1>3, <2>2, <2>3, AheadMoves DEF e
  <2>5. \A r \in new.rooms : ss[r].open /\ Complete(new, ds[r], p, ch)
    BY <1>4, <2>1, <2>3, <2>4 DEF Attends, Complete
  <2>6. new.cursor \in 1 .. Len(ch) + 1
    <3> HIDE DEF i
    <3> QED  BY <1>3, <2>2, <2>3
  <2> QED  BY <2>3, <2>5, <2>6 DEF Attends
<1>10. ASSUME Disconnect(c)  PROVE Goal
  <2>1. clients' = [clients EXCEPT ![c].status = "off"]
    BY <1>10 DEF Disconnect
  <2>2. new.status = "off" /\ \A x \in Clients \ {c} : clients'[x] = clients[x]
    BY <1>2, <2>1 DEF ClientWith
  <2> QED  BY <2>2 DEF Attends
<1> HIDE DEF Goal
<1>11. Goal
  BY <1>7, <1>8, <1>9, <1>10 DEF ClientStep
<1> QED  BY <1>11 DEF Goal

\* A restart disconnects the clients of its host and disturbs no other.
LEMMA RestartAttends ==
  ASSUME FeedAssumption, UnlaggedInv, NEW h \in Hosts, Restart(h)
  PROVE  /\ FeedShape' /\ lostLines' = 0
         /\ \A g \in Hosts : Tails(sessions'[g], disk'[g])
         /\ \A c \in Clients :
              Attends(clients'[c], sessions'[ServedBy[c]], disk'[ServedBy[c]],
                      pending'[ServedBy[c]], channel'[ServedBy[c]])
<1>1. /\ JournalType /\ lostLines' = 0 /\ disk' = disk
      /\ pending \in [Hosts -> SUBSET Envelope] /\ channel \in [Hosts -> Seq(Envelope)]
  BY DEF UnlaggedInv, JournalInv, FeedShape, Restart
<1>2. \A g \in Hosts \ {h} : /\ sessions'[g] = sessions[g] /\ pending'[g] = pending[g]
                             /\ channel'[g] = channel[g]
  BY <1>1 DEF Restart, JournalType
<1>3. \A r \in Rooms : ~sessions'[h][r].open
  BY <1>1 DEF Restart, JournalType, Closed
<1>4. \A g \in Hosts : Tails(sessions'[g], disk'[g])
  BY <1>1, <1>2, <1>3 DEF Tails, UnlaggedInv
<1>5. PICK L : clients \in [Clients -> ClientWith(L)]
  BY DEF UnlaggedInv, FeedShape
<1>6. \A x \in ClientWith(L) : LET y == [x EXCEPT !.status = "off"]
                              IN  y \in ClientWith(L) /\ y.status = "off"
  BY DEF ClientWith
<1>7. ASSUME NEW c \in Clients
      PROVE  /\ clients'[c] \in ClientWith(L)
             /\ ServedBy[c] = h => clients'[c].status = "off"
             /\ ServedBy[c] # h => clients'[c] = clients[c]
  <2>1. clients'[c] = IF ServedBy[c] = h THEN [clients[c] EXCEPT !.status = "off"]
                                          ELSE clients[c]
    BY DEF Restart
  <2> QED  BY <1>5, <1>6, <2>1
<1>8. FeedShape'
  <2>1. clients' = [c \in Clients |-> clients'[c]]
    BY DEF Restart
  <2>2. clients' \in [Clients -> ClientWith(L)]
    BY <1>7, <2>1
  <2>3. pending' \in [Hosts -> SUBSET Envelope] /\ channel' \in [Hosts -> Seq(Envelope)]
    BY <1>1, EmptySeq DEF Restart
  <2> QED  BY <2>2, <2>3 DEF FeedShape
<1>9. ASSUME NEW c \in Clients
      PROVE  Attends(clients'[c], sessions'[ServedBy[c]], disk'[ServedBy[c]],
                     pending'[ServedBy[c]], channel'[ServedBy[c]])
  <2>1. CASE ServedBy[c] = h
    BY <1>7, <2>1 DEF Attends
  <2>2. CASE ServedBy[c] # h
    <3>1. ServedBy[c] \in Hosts \ {h}
      BY <2>2 DEF FeedAssumption
    <3> QED  BY <1>1, <1>2, <1>7, <2>2, <3>1 DEF UnlaggedInv
  <2> QED  BY <2>1, <2>2
<1> QED  BY <1>1, <1>4, <1>8, <1>9

LEMMA HostStepShape ==
  ASSUME FeedAssumption, MaxLostLines = 0, JournalType, FeedShape, lostLines = 0,
         NEW h \in Hosts, HostStep(h), ~Restart(h), clients' = clients
  PROVE  FeedShape' /\ lostLines' = 0
<1>1. pending \in [Hosts -> SUBSET Envelope] /\ channel \in [Hosts -> Seq(Envelope)]
  BY DEF FeedShape
<1>2. \A s \in Seq(Envelope), e \in Envelope : Append(s, e) \in Seq(Envelope)
  BY AppendProperties
<1>3. lostLines' = 0
  <2>1. ASSUME NEW r \in Rooms, Publish(h, r)  PROVE lostLines' = 0
    <3>1. PICK journaled \in BOOLEAN : AppendTo(h, r, journaled)
      BY <2>1 DEF Publish
    <3>2. lostLines' = lostLines \/ lostLines < MaxLostLines
      BY <3>1 DEF AppendTo
    <3> QED  BY <3>2
  <2>2. ASSUME NEW r \in Rooms,
               OpenSession(h, r) \/ AttachRoom(h, r) \/ CommitTurn(h, r) \/ LeaveRoom(h, r)
               \/ Pull(h, r) \/ PullTimeout(h, r) \/ ServeHandoff(h, r) \/ ResumeNode(h, r)
        PROVE  UNCHANGED lostLines
    BY <2>2 DEF OpenSession, AttachRoom, CommitTurn, LeaveRoom, Pull, PullTimeout,
                ServeHandoff, ResumeNode, faults
  <2>3. Broadcast(h) => UNCHANGED lostLines
    BY DEF Broadcast, faults
  <2> QED  BY <2>1, <2>2, <2>3 DEF HostStep
<1>4. ASSUME NEW r \in Rooms, Publish(h, r)
      PROVE  pending' \in [Hosts -> SUBSET Envelope] /\ channel' \in [Hosts -> Seq(Envelope)]
  <2>1. PICK journaled \in BOOLEAN : AppendTo(h, r, journaled)
    BY <1>4 DEF Publish
  <2>2. PICK e : e = [room |-> r, seq |-> sessions[h][r].next, id |-> events,
                      journaled |-> journaled]
    OBVIOUS
  <2>3. e \in Envelope /\ pending' = [pending EXCEPT ![h] = pending[h] \cup {e}]
    BY <1>4, <2>1, <2>2, SessionAfterAppend DEF Publish
  <2>4. channel' = channel
    BY <1>4 DEF Publish
  <2> QED  BY <1>1, <2>3, <2>4
<1>5. ASSUME NEW r \in Rooms, Pull(h, r)
      PROVE  pending' \in [Hosts -> SUBSET Envelope] /\ channel' \in [Hosts -> Seq(Envelope)]
  <2>1. RequestEnvelope(r) \in Envelope
    BY DEF RequestEnvelope, Envelope, JournalType
  <2>2. /\ pending' = pending
        /\ channel' = [channel EXCEPT ![h] = Append(channel[h], RequestEnvelope(r))]
    BY <1>5 DEF Pull
  <2> QED  BY <1>1, <1>2, <2>1, <2>2
<1>6. ASSUME Broadcast(h)
      PROVE  pending' \in [Hosts -> SUBSET Envelope] /\ channel' \in [Hosts -> Seq(Envelope)]
  <2>1. PICK e \in pending[h] : /\ channel' = [channel EXCEPT ![h] = Append(channel[h], e)]
                                /\ pending' = [pending EXCEPT ![h] = pending[h] \ {e}]
    BY <1>6 DEF Broadcast
  <2> QED  BY <1>1, <1>2, <2>1
<1>7. ASSUME NEW r \in Rooms,
             OpenSession(h, r) \/ AttachRoom(h, r) \/ CommitTurn(h, r) \/ LeaveRoom(h, r)
             \/ PullTimeout(h, r) \/ ServeHandoff(h, r) \/ ResumeNode(h, r)
      PROVE  UNCHANGED <<pending, channel>>
  BY <1>7 DEF OpenSession, AttachRoom, CommitTurn, LeaveRoom, PullTimeout, ServeHandoff,
              ResumeNode, feed
<1>8. pending' \in [Hosts -> SUBSET Envelope] /\ channel' \in [Hosts -> Seq(Envelope)]
  BY <1>1, <1>4, <1>5, <1>6, <1>7 DEF HostStep
<1> QED  BY <1>3, <1>8 DEF FeedShape

NoneLags == \A c \in Clients : ~Lagged(c)

LEMMA UnlaggedStep ==
  ASSUME FeedAssumption, MaxLostLines = 0, UnlaggedInv, [Next]_vars, [NoneLags]_vars
  PROVE  UnlaggedInv'
<1> DEFINE Goal ==
         /\ FeedShape' /\ lostLines' = 0
         /\ \A h \in Hosts : Tails(sessions'[h], disk'[h])
         /\ \A c \in Clients :
              Attends(clients'[c], sessions'[ServedBy[c]], disk'[ServedBy[c]],
                      pending'[ServedBy[c]], channel'[ServedBy[c]])
<1>1. JournalInv /\ JournalType /\ FeedShape /\ lostLines = 0
  BY DEF UnlaggedInv, JournalInv
<1>2. JournalInv'
  BY <1>1, JournalStep
<1>3. ASSUME UNCHANGED <<feed, clients, lostLines>>  PROVE Goal
  BY <1>3 DEF UnlaggedInv, feed, FeedShape
<1>4. ASSUME NEW h \in Hosts, HostStep(h), ~Restart(h)  PROVE Goal
  <2>1. \A g \in Hosts : LoseNothing(g) /\ clients' = clients
    BY <1>4, HostLosesNothing
  <2>2. clients' = clients
    BY <1>4, <2>1
  <2>3. \A g \in Hosts : Tails(sessions'[g], disk'[g])
    BY <2>1 DEF LoseNothing
  <2>4. ASSUME NEW c \in Clients
        PROVE  Attends(clients'[c], sessions'[ServedBy[c]], disk'[ServedBy[c]],
                       pending'[ServedBy[c]], channel'[ServedBy[c]])
    <3>1. ServedBy[c] \in Hosts /\ clients[c].rooms \subseteq Rooms
      BY <1>1 DEF FeedAssumption, FeedShape, ClientWith
    <3> QED  BY <2>1, <2>2, <3>1, AttendsOn
  <2>5. lostLines' = 0 /\ FeedShape'
    BY <1>1, <1>4, <2>2, HostStepShape
  <2> QED  BY <2>3, <2>4, <2>5
<1>5. ASSUME NEW h \in Hosts, Restart(h)  PROVE Goal
  BY <1>5, RestartAttends
<1>6. ASSUME NEW c \in Clients, ClientStep(c), ~Lagged(c)  PROVE Goal
  <2>1. UNCHANGED <<sessions, disk, pending, channel, lostLines>>
    BY <1>6 DEF ClientStep, Subscribe, StartReplay, Receive, Disconnect, feed, faults
  <2>2. FeedShape'
    <3>1. PICK h : ServedBy[c] = h
      OBVIOUS
    <3> QED  BY <1>1, <1>6, <3>1, ClientGets
  <2>3. /\ \A x \in Clients \ {c} : clients'[x] = clients[x]
        /\ Attends(clients'[c], sessions[ServedBy[c]], disk[ServedBy[c]],
                   pending[ServedBy[c]], channel[ServedBy[c]])
    <3>1. PICK h : ServedBy[c] = h
      OBVIOUS
    <3> QED  BY <1>6, <3>1, ClientAttends
  <2>4. \A x \in Clients :
          Attends(clients'[x], sessions[ServedBy[x]], disk[ServedBy[x]],
                  pending[ServedBy[x]], channel[ServedBy[x]])
    BY <2>3 DEF UnlaggedInv
  <2> QED  BY <1>1, <2>1, <2>2, <2>4 DEF UnlaggedInv
<1>7. ASSUME NEW r \in Rooms, DropAck(r)  PROVE Goal
  BY <1>3, <1>7 DEF DropAck, faults
<1>8. ASSUME UNCHANGED vars  PROVE Goal
  BY <1>3, <1>8 DEF vars, faults
<1>9. Goal
  BY <1>4, <1>5, <1>6, <1>7, <1>8 DEF Next, NoneLags
<1> QED  BY <1>2, <1>9 DEF UnlaggedInv

LEMMA UnlaggedInit ==
  ASSUME FeedAssumption, Init
  PROVE  UnlaggedInv
<1>1. JournalInv
  BY JournalInit
<1>2. Offline \in ClientWith({-1}) /\ Offline.status = "off"
  BY DEF Offline, ClientWith
<1>3. FeedShape
  BY <1>2, EmptySeq DEF Init, FeedShape
<1>4. \A h \in Hosts : Tails(sessions[h], disk[h])
  BY DEF Init, Closed, Tails
<1>5. \A c \in Clients : clients[c].status = "off"
  BY <1>2 DEF Init
<1> QED  BY <1>1, <1>3, <1>4, <1>5 DEF UnlaggedInv, Attends, Init

LEMMA UnlaggedComplete ==
  ASSUME FeedAssumption, UnlaggedInv
  PROVE  FeedComplete
<1> SUFFICES ASSUME NEW c \in Clients, NEW h, h = ServedBy[c], clients[c].status = "live",
                    NEW r \in clients[c].rooms,
                    NEW e \in Entries(disk[h][r]) \cup Entries(sessions[h][r].buf),
                    e.seq >= clients[c].from
             PROVE  \/ e \in clients[c].got \/ e \in pending[h]
                    \/ \E i \in clients[c].cursor .. Len(channel[h]) : channel[h][i] = e
  BY DEF FeedComplete
<1>1. h \in Hosts /\ r \in Rooms
  BY DEF UnlaggedInv, FeedShape, ClientWith, FeedAssumption
<1>2. /\ sessions[h][r].open
      /\ Complete(clients[c], disk[h][r], pending[h], channel[h])
  BY DEF UnlaggedInv, Attends
<1>3. Entries(sessions[h][r].buf) \subseteq Entries(disk[h][r])
  <2>1. sessions[h][r].buf \in Seq(Envelope) /\ disk[h][r] \in Seq(Envelope)
    BY <1>1 DEF UnlaggedInv, JournalInv, JournalType, SessionState
  <2>2. Suffix(sessions[h][r].buf, disk[h][r])
    BY <1>1, <1>2 DEF UnlaggedInv, Tails
  <2> QED  BY <2>1, <2>2, SuffixEntries
<1> QED  BY <1>2, <1>3 DEF Complete, Ahead

\* A lag and a failed write are all that can cost a client an event: as long as no
\* client falls behind, and every line is written, the feed is complete for any rooms,
\* hosts and publishers, through restarts and runs that move between hosts
\* (ws.rs client_connection subscribes before it replays; session.rs append, broadcast).
THEOREM UnlaggedFeedsComplete ==
  ASSUME MaxLostLines = 0
  PROVE  Spec /\ [][NoneLags]_vars => []FeedComplete
<1>1. Init => UnlaggedInv
  BY FeedAssumption, UnlaggedInit
<1>2. UnlaggedInv /\ [Next]_vars /\ [NoneLags]_vars => UnlaggedInv'
  BY FeedAssumption, UnlaggedStep
<1>3. UnlaggedInv => FeedComplete
  BY FeedAssumption, UnlaggedComplete
<1> QED  BY <1>1, <1>2, <1>3, PTL DEF Spec
=============================================================================
