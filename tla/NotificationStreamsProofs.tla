---------------------- MODULE NotificationStreamsProofs ----------------------
(***************************************************************************)
(* For any number of sessions, users and events: every stream begins with  *)
(* its header and carries the events that are for it, each once and in the *)
(* order of the bus; one write at a time is under way; and a session that  *)
(* is closed has left the registry.                                        *)
(***************************************************************************)
EXTENDS NotificationStreams, SequenceTheorems, TLAPS

Lines == [kind : {"header", "comment", "connected", "event"}, number : Nat]

Kinds ==
    /\ registry \subseteq Sessions /\ snapshot \subseteq Sessions
    /\ published \in Seq(SUBSET Users) /\ user \in [Sessions -> Users]
    /\ pc \in [Sessions -> {"absent", "start", "connected", "open"}]
    /\ joined \in [Sessions -> Nat]
    /\ sent \in [Sessions -> Seq(Lines)] /\ outbox \in [Sessions -> Seq(Lines)]
    /\ handlers \in [Sessions -> Seq(Lines)]
    /\ writeInProgress \in [Sessions -> BOOLEAN] /\ closed \in [Sessions -> BOOLEAN]
    /\ writes \in [Sessions -> Nat]

\* A session is in the registry from its add() until it is closed, and nothing
\* is on its stream before the header.
Opened(s) ==
    /\ pc[s] = "absent" => s \notin registry /\ handlers[s] = <<>>
    /\ pc[s] \in {"absent", "start"} => sent[s] = <<>> /\ outbox[s] = <<>>
    /\ pc[s] \in {"connected", "open"} =>
          sent[s] \o outbox[s] # <<>> /\ (sent[s] \o outbox[s])[1] = Header
    /\ pc[s] # "open" => ~closed[s]
    /\ IF closed[s] THEN s \notin registry ELSE pc[s] # "absent" => s \in registry

\* m_writeInProgress says whether a write is under way, until the last fails.
Writing(s) ==
    /\ writes[s] = IF outbox[s] # <<>> /\ ~closed[s] THEN 1 ELSE 0
    /\ ~closed[s] => (writeInProgress[s] <=> outbox[s] # <<>>)

\* A session that publish() has collected waits for the last event.
Collected(s) ==
    /\ joined[s] <= Len(published)
    /\ s \in snapshot => /\ pc[s] # "absent" /\ published # <<>> /\ joined[s] < Len(published)
                         /\ user[s] \in published[Len(published)]

\* The second part of StreamInOrder, for one session.
Ordered(s) ==
    pc[s] # "absent" =>
        IF closed[s]
        THEN /\ InBusOrder(sent[s])
             /\ EventsOn(sent[s]) = {n \in Due(s) : \E m \in EventsOn(sent[s]) : n <= m}
        ELSE InBusOrder(Line(s)) /\ EventsOn(Line(s)) = Due(s)

StreamInv ==
    /\ Kinds
    /\ \A s \in Sessions : Opened(s) /\ Writing(s) /\ Collected(s) /\ Ordered(s)

-----------------------------------------------------------------------------
(* Lines.                                                                  *)

LEMMA ItemTypes ==
    /\ Header \in Lines /\ Comment \in Lines /\ Connected \in Lines
    /\ \A n \in Nat : Event(n) \in Lines
  BY DEF Header, Comment, Connected, Event, Lines

\* A later event at the end of a line.
LEMMA AppendEvent ==
    ASSUME NEW line \in Seq(Lines), InBusOrder(line), NEW n \in Nat,
           \A m \in EventsOn(line) : m < n
    PROVE  /\ InBusOrder(Append(line, Event(n)))
           /\ EventsOn(Append(line, Event(n))) = EventsOn(line) \cup {n}
  <1> DEFINE longer == Append(line, Event(n))
  <1>1. /\ DOMAIN line = 1..Len(line) /\ DOMAIN longer = 1..(Len(line) + 1)
        /\ \A i \in 1..Len(line) : longer[i] = line[i]
        /\ longer[Len(line) + 1] = Event(n) /\ Len(line) \in Nat
    BY ItemTypes
  <1>2. Event(n).kind = "event" /\ Event(n).number = n
    BY DEF Event
  <1>3. \A i \in 1..Len(line) : line[i].kind = "event" => line[i].number < n
    BY <1>1 DEF EventsOn
  <1> HIDE DEF longer
  <1>4. InBusOrder(longer)
    BY <1>1, <1>2, <1>3 DEF InBusOrder
  <1>5. ASSUME NEW m \in EventsOn(longer) PROVE m \in EventsOn(line) \cup {n}
    BY <1>1, <1>2 DEF EventsOn
  <1>6. ASSUME NEW m \in EventsOn(line) \cup {n} PROVE m \in EventsOn(longer)
    BY <1>1, <1>2 DEF EventsOn
  <1> QED BY <1>4, <1>5, <1>6 DEF longer

\* What is not an event changes nothing, at the end of a line or before it.
LEMMA AppendOther ==
    ASSUME NEW line \in Seq(Lines), NEW item \in Lines, item.kind # "event"
    PROVE  /\ InBusOrder(line) => InBusOrder(Append(line, item))
           /\ EventsOn(Append(line, item)) = EventsOn(line)
  <1> DEFINE longer == Append(line, item)
  <1>1. /\ DOMAIN line = 1..Len(line) /\ DOMAIN longer = 1..(Len(line) + 1)
        /\ \A i \in 1..Len(line) : longer[i] = line[i]
        /\ longer[Len(line) + 1] = item /\ Len(line) \in Nat
    OBVIOUS
  <1> HIDE DEF longer
  <1>2. InBusOrder(line) => InBusOrder(longer)
    BY <1>1 DEF InBusOrder
  <1>3. ASSUME NEW m \in EventsOn(longer) PROVE m \in EventsOn(line)
    BY <1>1, <1>3 DEF EventsOn
  <1>4. ASSUME NEW m \in EventsOn(line) PROVE m \in EventsOn(longer)
    BY <1>1, <1>4 DEF EventsOn
  <1> QED BY <1>2, <1>3, <1>4 DEF longer

LEMMA HeaderBefore ==
    ASSUME NEW line \in Seq(Lines)
    PROVE  /\ InBusOrder(line) => InBusOrder(<<Header, Comment>> \o line)
           /\ EventsOn(<<Header, Comment>> \o line) = EventsOn(line)
  <1> DEFINE longer == <<Header, Comment>> \o line
  <1>1. /\ DOMAIN line = 1..Len(line) /\ DOMAIN longer = 1..(Len(line) + 2) /\ Len(line) \in Nat
        /\ longer[1] = Header /\ longer[2] = Comment
        /\ \A i \in 3..(Len(line) + 2) : longer[i] = line[i - 2]
    BY ItemTypes
  <1>2. Header.kind # "event" /\ Comment.kind # "event"
    BY DEF Header, Comment
  <1> HIDE DEF longer
  <1>3. \A i \in DOMAIN longer : longer[i].kind = "event" =>
            i - 2 \in DOMAIN line /\ longer[i] = line[i - 2]
    BY <1>1, <1>2
  <1>4. \A i \in DOMAIN line : i + 2 \in DOMAIN longer /\ longer[i + 2] = line[i]
    BY <1>1
  <1>5. InBusOrder(line) => InBusOrder(longer)
    <2> SUFFICES ASSUME InBusOrder(line), NEW i \in DOMAIN longer, NEW j \in DOMAIN longer, i < j,
                        longer[i].kind = "event", longer[j].kind = "event"
                 PROVE  longer[i].number < longer[j].number
      BY DEF InBusOrder
    <2>1. i - 2 \in DOMAIN line /\ j - 2 \in DOMAIN line /\ i - 2 < j - 2
      BY <1>1, <1>3
    <2> QED BY <1>3, <2>1 DEF InBusOrder
  <1>6. ASSUME NEW m \in EventsOn(longer) PROVE m \in EventsOn(line)
    BY <1>3, <1>6 DEF EventsOn
  <1>7. ASSUME NEW m \in EventsOn(line) PROVE m \in EventsOn(longer)
    BY <1>4, <1>7 DEF EventsOn
  <1> QED BY <1>5, <1>6, <1>7 DEF longer

\* The beginning of a line has its first events.
LEMMA Beginning ==
    ASSUME NEW line \in Seq(Lines), NEW rest \in Seq(Lines), InBusOrder(line \o rest)
    PROVE  /\ InBusOrder(line)
           /\ EventsOn(line) = {n \in EventsOn(line \o rest) : \E m \in EventsOn(line) : n <= m}
  <1> DEFINE whole == line \o rest
  <1>1. /\ DOMAIN line = 1..Len(line) /\ DOMAIN whole = 1..(Len(line) + Len(rest))
        /\ \A i \in 1..Len(line) : whole[i] = line[i]
        /\ Len(line) \in Nat /\ Len(rest) \in Nat /\ whole \in Seq(Lines)
    OBVIOUS
  <1>2. \A i \in DOMAIN whole : whole[i].number \in Nat
    <2>1. \A i \in DOMAIN whole : whole[i] \in Lines
      BY <1>1
    <2> QED BY <2>1 DEF Lines
  <1> HIDE DEF whole
  <1>3. \A i, j \in DOMAIN whole :
            i < j /\ whole[i].kind = "event" /\ whole[j].kind = "event" => whole[i].number < whole[j].number
    BY DEF InBusOrder, whole
  <1>4. InBusOrder(line)
    BY <1>1, <1>3 DEF InBusOrder
  <1>5. ASSUME NEW n \in EventsOn(line)
        PROVE  n \in EventsOn(whole) /\ n \in Nat /\ n <= n
    BY <1>1, <1>2, <1>5 DEF EventsOn
  <1>6. ASSUME NEW n \in EventsOn(whole), NEW m \in EventsOn(line), n <= m PROVE n \in EventsOn(line)
    <2>1. PICK j \in DOMAIN whole : whole[j].kind = "event" /\ n = whole[j].number
      BY <1>6 DEF EventsOn
    <2>2. PICK i \in DOMAIN line : line[i].kind = "event" /\ m = line[i].number
      BY <1>6 DEF EventsOn
    <2>3. i \in DOMAIN whole /\ whole[i] = line[i]
      BY <1>1
    <2>4. ~(i < j)
      BY <1>2, <1>3, <1>6, <2>1, <2>2, <2>3
    <2>5. j \in DOMAIN line /\ line[j] = whole[j]
      BY <1>1, <2>4
    <2> QED BY <2>1, <2>5 DEF EventsOn
  <1> QED BY <1>4, <1>5, <1>6 DEF whole

\* An item that goes from the front of one part to the end of the part before it
\* keeps its place in the line.
LEMMA MoveFront ==
    ASSUME NEW a \in Seq(Lines), NEW b \in Seq(Lines), b # <<>>
    PROVE  Append(a, Head(b)) \o Tail(b) = a \o b
  OBVIOUS

LEMMA AppendLine ==
    ASSUME NEW a \in Seq(Lines), NEW b \in Seq(Lines), NEW item \in Lines
    PROVE  a \o Append(b, item) = Append(a \o b, item)
  OBVIOUS

-----------------------------------------------------------------------------
\* What a session has, and what the bus and the registry know of it.
Own(s) ==
    <<pc[s], user[s], joined[s], handlers[s], outbox[s], writeInProgress[s], writes[s], closed[s],
      sent[s], s \in registry>>

SessionInv(s) == Opened(s) /\ Writing(s) /\ Collected(s) /\ Ordered(s)

\* A session that a step leaves alone is as it was.
LEMMA OthersKept ==
    ASSUME NEW s \in Sessions, SessionInv(s), UNCHANGED Own(s), UNCHANGED published,
           s \in snapshot' <=> s \in snapshot
    PROVE  SessionInv(s)'
  <1>1. Due(s)' = Due(s) /\ Line(s)' = Line(s)
    BY DEF Due, Line, Own
  <1>2. Opened(s)' /\ Writing(s)' /\ Collected(s)'
    BY DEF SessionInv, Own, Opened, Writing, Collected
  <1>3. Ordered(s)'
    BY <1>1 DEF SessionInv, Own, Ordered
  <1> QED BY <1>2, <1>3 DEF SessionInv

\* A session whose line, bus side and end are left alone keeps its order.
LEMMA OrderKept ==
    ASSUME NEW s \in Sessions, Ordered(s), pc[s] # "absent", ~closed[s], Line(s)' = Line(s),
           UNCHANGED <<user[s], joined[s], published, snapshot, closed[s]>>
    PROVE  Ordered(s)'
  <1>1. Due(s)' = Due(s)
    BY DEF Due
  <1> QED BY <1>1 DEF Ordered

-----------------------------------------------------------------------------
(* The bus's worker.                                                       *)

LEMMA PublishKeeps ==
    ASSUME StreamInv, Publish
    PROVE  StreamInv'
  <1> USE DEF StreamInv
  <1>1. PICK a \in Audiences :
            published' = Append(published, a) /\ snapshot' = {s \in registry : user[s] \in a}
    BY DEF Publish
  <1>2. /\ snapshot = {}
        /\ UNCHANGED <<registry, pc, user, joined, handlers, outbox, writeInProgress, writes, sent, closed>>
    BY DEF Publish, request, stream
  <1> DEFINE last == Len(published) + 1
  <1>3. /\ published \in Seq(SUBSET Users) /\ a \in SUBSET Users
        /\ published' \in Seq(SUBSET Users) /\ Len(published') = last
        /\ DOMAIN published = 1..Len(published) /\ DOMAIN published' = 1..last
        /\ \A n \in 1..Len(published) : published'[n] = published[n]
        /\ published'[last] = a /\ Len(published) \in Nat
    BY <1>1 DEF Kinds, Audiences
  <1>4. Kinds'
    BY <1>1, <1>2, <1>3 DEF Kinds
  <1>5. ASSUME NEW s \in Sessions PROVE Opened(s)' /\ Writing(s)' /\ Collected(s)' /\ Ordered(s)'
    <2>1. Opened(s) /\ Writing(s) /\ Collected(s) /\ Ordered(s)
      OBVIOUS
    <2>2. Opened(s)' /\ Writing(s)'
      BY <1>2, <2>1 DEF Opened, Writing
    <2>3. s \in snapshot' => pc[s] # "absent" /\ user[s] \in a
      BY <1>1, <2>1 DEF Opened
    <2>4. Collected(s)'
      BY <1>2, <1>3, <2>1, <2>3 DEF Collected, Kinds
    <2>5. Ordered(s)'
      <3>1. \A n : n \in Due(s)' <=> \/ n \in Due(s)
                                     \/ n = last /\ user[s] \in a /\ s \notin snapshot'
        BY <1>2, <1>3, <2>1 DEF Due, Collected, Kinds
      <3>2. Line(s)' = Line(s) /\ UNCHANGED <<pc, closed, sent>>
        BY <1>2 DEF Line
      <3>3. CASE pc[s] # "absent" /\ ~closed[s]
        <4>1. user[s] \in a => s \in snapshot'
          BY <1>1, <2>1, <3>3 DEF Opened
        <4>2. Due(s)' = Due(s)
          BY <3>1, <4>1
        <4> QED BY <2>1, <3>2, <3>3, <4>2 DEF Ordered
      <3>4. CASE pc[s] # "absent" /\ closed[s]
        <4>1. \A m \in EventsOn(sent[s]) : m \in Due(s)
          BY <2>1, <3>4 DEF Ordered
        <4>2. \A m \in EventsOn(sent[s]) : m \in Nat /\ ~(last <= m)
          BY <1>3, <4>1 DEF Due
        <4>3. {n \in Due(s)' : \E m \in EventsOn(sent[s]) : n <= m}
                = {n \in Due(s) : \E m \in EventsOn(sent[s]) : n <= m}
          BY <3>1, <4>2
        <4> QED BY <2>1, <3>2, <3>4, <4>3 DEF Ordered
      <3> QED BY <3>2, <3>3, <3>4 DEF Ordered
    <2> QED BY <2>2, <2>4, <2>5
  <1> QED BY <1>4, <1>5

LEMMA SendEventKeeps ==
    ASSUME StreamInv, NEW s \in Sessions, SendEvent(s)
    PROVE  StreamInv'
  <1> USE DEF StreamInv
  <1> DEFINE last == Len(published)
  <1>1. /\ s \in snapshot /\ snapshot' = snapshot \ {s}
        /\ handlers' = [handlers EXCEPT ![s] = Append(@, Event(last))]
        /\ UNCHANGED <<registry, published, pc, user, joined, outbox, writeInProgress, writes, sent, closed>>
    BY DEF SendEvent, request, stream
  <1>2. /\ last \in Nat /\ Event(last) \in Lines /\ DOMAIN published = 1..last
        /\ handlers[s] \in Seq(Lines) /\ handlers'[s] = Append(handlers[s], Event(last))
    BY <1>1, ItemTypes DEF Kinds
  <1>3. Kinds'
    <2>1. handlers' \in [Sessions -> Seq(Lines)]
      BY <1>1, <1>2 DEF Kinds
    <2> QED BY <1>1, <2>1 DEF Kinds
  <1>4. SessionInv(s)'
    <2>1. Opened(s) /\ Writing(s) /\ Collected(s) /\ Ordered(s) /\ pc[s] # "absent"
      BY <1>1 DEF Collected
    <2>2. Opened(s)' /\ Writing(s)' /\ Collected(s)'
      BY <1>1, <2>1 DEF Opened, Writing, Collected
    <2>3. \A n : n \in Due(s)' <=> n \in Due(s) \/ n = last
      BY <1>1, <1>2, <2>1 DEF Due, Collected, Kinds
    <2>4. \A n \in Due(s) : n \in Nat /\ n < last
      BY <1>1, <1>2 DEF Due
    <2>5. CASE ~closed[s]
      <3>1. Line(s) \in Seq(Lines) /\ sent[s] \o outbox[s] \in Seq(Lines)
        BY DEF Line, Kinds
      <3>2. Line(s)' = Append(Line(s), Event(last))
        <4>1. (sent[s] \o outbox[s]) \o Append(handlers[s], Event(last))
                = Append((sent[s] \o outbox[s]) \o handlers[s], Event(last))
          BY <1>2, <3>1, AppendLine
        <4> QED BY <1>1, <1>2, <4>1 DEF Line
      <3>3. InBusOrder(Line(s)) /\ EventsOn(Line(s)) = Due(s)
        BY <2>1, <2>5 DEF Ordered
      <3>4. InBusOrder(Append(Line(s), Event(last)))
            /\ EventsOn(Append(Line(s), Event(last))) = Due(s) \cup {last}
        BY <1>2, <2>4, <3>1, <3>3, AppendEvent
      <3>5. Ordered(s)'
        BY <1>1, <2>3, <2>5, <3>2, <3>4 DEF Ordered
      <3> QED BY <2>2, <3>5 DEF SessionInv
    <2>6. CASE closed[s]
      <3>1. \A m \in EventsOn(sent[s]) : m \in Nat /\ ~(last <= m)
        BY <1>2, <2>1, <2>4, <2>6 DEF Ordered
      <3>2. {n \in Due(s)' : \E m \in EventsOn(sent[s]) : n <= m}
              = {n \in Due(s) : \E m \in EventsOn(sent[s]) : n <= m}
        BY <2>3, <3>1
      <3>3. Ordered(s)'
        BY <1>1, <2>1, <2>6, <3>2 DEF Ordered
      <3> QED BY <2>2, <3>3 DEF SessionInv
    <2> QED BY <2>5, <2>6
  <1>5. ASSUME NEW x \in Sessions \ {s} PROVE SessionInv(x)'
    <2>1. UNCHANGED Own(x) /\ (x \in snapshot' <=> x \in snapshot) /\ SessionInv(x)
      BY <1>1, <1>5 DEF Own, Kinds, SessionInv
    <2> QED BY <1>1, <2>1, OthersKept
  <1> QED BY <1>3, <1>4, <1>5 DEF SessionInv

-----------------------------------------------------------------------------
(* handleStream.                                                           *)

LEMMA AddKeeps ==
    ASSUME StreamInv, NEW s \in Sessions, Add(s)
    PROVE  StreamInv'
  <1> USE DEF StreamInv
  <1>1. /\ pc[s] = "absent" /\ registry' = registry \cup {s}
        /\ joined' = [joined EXCEPT ![s] = Len(published)] /\ pc' = [pc EXCEPT ![s] = "start"]
        /\ UNCHANGED <<snapshot, published, user, handlers, outbox, writeInProgress, writes, sent, closed>>
    BY DEF Add, bus, stream
  <1>2. Kinds'
    BY <1>1 DEF Kinds
  <1>3. /\ Opened(s) /\ Writing(s) /\ Collected(s) /\ ~closed[s] /\ s \notin snapshot
        /\ sent[s] = <<>> /\ outbox[s] = <<>> /\ handlers[s] = <<>>
        /\ pc'[s] = "start" /\ joined'[s] = Len(published) /\ Len(published) \in Nat
        /\ DOMAIN published = 1..Len(published)
    BY <1>1 DEF Opened, Collected, Kinds
  <1>4. SessionInv(s)'
    <2>1. Opened(s)' /\ Writing(s)' /\ Collected(s)'
      BY <1>1, <1>3 DEF Opened, Writing, Collected
    <2>2. Line(s)' = <<>>
      BY <1>1, <1>3 DEF Line
    <2>3. InBusOrder(<<>>) /\ EventsOn(<<>>) = {}
      BY DEF InBusOrder, EventsOn
    <2>4. Due(s)' = {}
      BY <1>1, <1>3 DEF Due
    <2> QED BY <1>1, <1>3, <2>1, <2>2, <2>3, <2>4 DEF SessionInv, Ordered
  <1>5. ASSUME NEW x \in Sessions \ {s} PROVE SessionInv(x)'
    <2>1. UNCHANGED Own(x) /\ SessionInv(x)
      BY <1>1, <1>5 DEF Own, Kinds, SessionInv
    <2> QED BY <1>1, <2>1, OthersKept
  <1> QED BY <1>2, <1>4, <1>5 DEF SessionInv

LEMMA StartKeeps ==
    ASSUME StreamInv, NEW s \in Sessions, Start(s)
    PROVE  StreamInv'
  <1> USE DEF StreamInv
  <1>1. /\ pc[s] = "start" /\ pc' = [pc EXCEPT ![s] = "connected"]
        /\ outbox' = [outbox EXCEPT ![s] = <<Header, Comment>>]
        /\ writeInProgress' = [writeInProgress EXCEPT ![s] = TRUE]
        /\ writes' = [writes EXCEPT ![s] = @ + 1]
        /\ UNCHANGED <<registry, snapshot, published, user, joined, handlers, sent, closed>>
    BY DEF Start, bus
  <1>2. /\ Opened(s) /\ Writing(s) /\ Collected(s) /\ Ordered(s)
        /\ ~closed[s] /\ sent[s] = <<>> /\ outbox[s] = <<>> /\ writes[s] = 0
        /\ handlers[s] \in Seq(Lines)
    BY <1>1 DEF Opened, Writing, Kinds
  <1>3. /\ outbox'[s] = <<Header, Comment>> /\ writes'[s] = 1 /\ writeInProgress'[s]
        /\ pc'[s] = "connected" /\ <<Header, Comment>> \in Seq(Lines)
    BY <1>1, <1>2, ItemTypes DEF Kinds
  <1>4. Kinds'
    <2>1. outbox' \in [Sessions -> Seq(Lines)]
      BY <1>1, <1>3 DEF Kinds
    <2>2. writes' \in [Sessions -> Nat] /\ writeInProgress' \in [Sessions -> BOOLEAN]
      BY <1>1 DEF Kinds
    <2> QED BY <1>1, <2>1, <2>2 DEF Kinds
  <1>5. SessionInv(s)'
    <2>1. /\ sent'[s] \o outbox'[s] = <<Header, Comment>> /\ <<Header, Comment>>[1] = Header
          /\ <<Header, Comment>> # <<>> /\ sent[s] \o outbox[s] = <<>>
      BY <1>1, <1>2, <1>3
    <2>0. /\ sent'[s] \o outbox'[s] # <<>> /\ (sent'[s] \o outbox'[s])[1] = Header
          /\ outbox'[s] # <<>> /\ s \in registry
      BY <1>1, <1>2, <1>3, <2>1 DEF Opened
    <2>2. Opened(s)'
      BY <1>1, <1>2, <1>3, <2>0 DEF Opened
    <2>3. Writing(s)' /\ Collected(s)'
      BY <1>1, <1>2, <1>3, <2>0 DEF Writing, Collected
    <2>4. Line(s) = handlers[s] /\ Line(s)' = <<Header, Comment>> \o handlers[s]
      <3>1. <<>> \o handlers[s] = handlers[s]
        BY <1>2
      <3> QED BY <1>1, <2>1, <3>1 DEF Line
    <2>5. InBusOrder(Line(s)') /\ EventsOn(Line(s)') = Due(s)
      BY <1>1, <1>2, <2>4, HeaderBefore DEF Ordered
    <2>6. Due(s)' = Due(s)
      BY <1>1 DEF Due
    <2> QED BY <1>1, <1>2, <2>2, <2>3, <2>5, <2>6 DEF SessionInv, Ordered
  <1>6. ASSUME NEW x \in Sessions \ {s} PROVE SessionInv(x)'
    <2>1. UNCHANGED Own(x) /\ SessionInv(x)
      BY <1>1, <1>6 DEF Own, Kinds, SessionInv
    <2> QED BY <1>1, <2>1, OthersKept
  <1> QED BY <1>4, <1>5, <1>6 DEF SessionInv

LEMMA SendConnectedKeeps ==
    ASSUME StreamInv, NEW s \in Sessions, SendConnected(s)
    PROVE  StreamInv'
  <1> USE DEF StreamInv
  <1>1. /\ pc[s] = "connected" /\ pc' = [pc EXCEPT ![s] = "open"]
        /\ handlers' = [handlers EXCEPT ![s] = Append(@, Connected)]
        /\ UNCHANGED <<registry, snapshot, published, user, joined, outbox, writeInProgress, writes, sent,
                       closed>>
    BY DEF SendConnected, bus, stream
  <1>2. /\ Opened(s) /\ Writing(s) /\ Collected(s) /\ Ordered(s) /\ ~closed[s]
        /\ handlers[s] \in Seq(Lines) /\ handlers'[s] = Append(handlers[s], Connected)
        /\ Connected \in Lines /\ Connected.kind # "event" /\ pc'[s] = "open"
    BY <1>1, ItemTypes DEF Opened, Kinds, Connected
  <1>3. Kinds'
    <2>1. handlers' \in [Sessions -> Seq(Lines)]
      BY <1>1, <1>2 DEF Kinds
    <2> QED BY <1>1, <2>1 DEF Kinds
  <1>4. SessionInv(s)'
    <2>1. Opened(s)' /\ Writing(s)' /\ Collected(s)'
      BY <1>1, <1>2 DEF Opened, Writing, Collected
    <2>2. Line(s) \in Seq(Lines) /\ sent[s] \o outbox[s] \in Seq(Lines)
      BY DEF Line, Kinds
    <2>3. Line(s)' = Append(Line(s), Connected)
      <3>1. (sent[s] \o outbox[s]) \o Append(handlers[s], Connected)
              = Append((sent[s] \o outbox[s]) \o handlers[s], Connected)
        BY <1>2, <2>2, AppendLine
      <3> QED BY <1>1, <1>2, <3>1 DEF Line
    <2>4. InBusOrder(Line(s)) /\ EventsOn(Line(s)) = Due(s)
      BY <1>1, <1>2 DEF Ordered
    <2>5. InBusOrder(Line(s)') /\ EventsOn(Line(s)') = Due(s)
      BY <1>2, <2>2, <2>3, <2>4, AppendOther
    <2>6. Due(s)' = Due(s)
      BY <1>1 DEF Due
    <2> QED BY <1>1, <1>2, <2>1, <2>5, <2>6 DEF SessionInv, Ordered
  <1>5. ASSUME NEW x \in Sessions \ {s} PROVE SessionInv(x)'
    <2>1. UNCHANGED Own(x) /\ SessionInv(x)
      BY <1>1, <1>5 DEF Own, Kinds, SessionInv
    <2> QED BY <1>1, <2>1, OthersKept
  <1> QED BY <1>3, <1>4, <1>5 DEF SessionInv

-----------------------------------------------------------------------------
(* The handlers of a session.                                              *)

LEMMA RunHandlerKeeps ==
    ASSUME StreamInv, NEW s \in Sessions, RunHandler(s)
    PROVE  StreamInv'
  <1> USE DEF StreamInv
  <1>1. /\ pc[s] = "open" /\ handlers[s] # <<>> /\ handlers' = [handlers EXCEPT ![s] = Tail(@)]
        /\ UNCHANGED <<registry, snapshot, published, pc, user, joined, sent, closed>>
        /\ IF closed[s] THEN UNCHANGED <<outbox, writes, writeInProgress>>
                        ELSE Enqueue(s, Head(handlers[s]))
    BY DEF RunHandler, bus, request, stream
  <1>2. /\ Opened(s) /\ Writing(s) /\ Collected(s) /\ Ordered(s)
        /\ sent[s] \in Seq(Lines) /\ outbox[s] \in Seq(Lines) /\ handlers[s] \in Seq(Lines)
        /\ Head(handlers[s]) \in Lines /\ Tail(handlers[s]) \in Seq(Lines)
        /\ sent[s] \o outbox[s] \in Seq(Lines)
    BY <1>1 DEF Kinds
  <1>3. handlers' \in [Sessions -> Seq(Lines)] /\ handlers'[s] = Tail(handlers[s])
    BY <1>1, <1>2 DEF Kinds
  <1>4. CASE closed[s]
    <2>1. Kinds'
      BY <1>1, <1>3, <1>4 DEF Kinds
    <2>2. Due(s)' = Due(s)
      BY <1>1 DEF Due
    <2>0. UNCHANGED <<outbox, writes, writeInProgress>> /\ closed'[s]
      BY <1>1, <1>4
    <2>5. Opened(s)'
      BY <1>1, <1>2, <2>0 DEF Opened
    <2>6. Writing(s)' /\ Collected(s)'
      BY <1>1, <1>2, <1>4, <2>0 DEF Writing, Collected
    <2>7. Ordered(s)'
      BY <1>1, <1>2, <1>4, <2>0, <2>2 DEF Ordered
    <2>3. Opened(s)' /\ Writing(s)' /\ Collected(s)' /\ Ordered(s)'
      BY <2>5, <2>6, <2>7
    <2>4. ASSUME NEW x \in Sessions \ {s} PROVE SessionInv(x)'
      <3>1. UNCHANGED Own(x) /\ SessionInv(x)
        BY <1>1, <1>4, <2>4 DEF Own, Kinds, SessionInv
      <3> QED BY <1>1, <3>1, OthersKept
    <2> QED BY <2>1, <2>3, <2>4 DEF SessionInv
  <1>5. CASE ~closed[s]
    <2>1. /\ outbox' = [outbox EXCEPT ![s] = Append(@, Head(handlers[s]))]
          /\ writes' = [writes EXCEPT ![s] = IF writeInProgress[s] THEN @ ELSE @ + 1]
          /\ writeInProgress' = [writeInProgress EXCEPT ![s] = TRUE]
      BY <1>1, <1>5 DEF Enqueue
    <2>2. /\ outbox'[s] = Append(outbox[s], Head(handlers[s])) /\ outbox'[s] # <<>>
          /\ writes'[s] = 1 /\ writeInProgress'[s]
      BY <1>2, <1>5, <2>1 DEF Writing, Kinds
    <2>3. Kinds'
      <3>1. outbox' \in [Sessions -> Seq(Lines)]
        BY <1>2, <2>1 DEF Kinds
      <3>2. writes' \in [Sessions -> Nat] /\ writeInProgress' \in [Sessions -> BOOLEAN]
        BY <2>1 DEF Kinds
      <3> QED BY <1>1, <1>3, <3>1, <3>2 DEF Kinds
    <2>4. sent[s] \o Append(outbox[s], Head(handlers[s])) = Append(sent[s] \o outbox[s], Head(handlers[s]))
      BY <1>2, AppendLine
    <2>5. Opened(s)'
      <3> DEFINE begun == sent[s] \o outbox[s]
      <3>0. begun \in Seq(Lines) /\ begun # <<>> /\ begun[1] = Header
        BY <1>1, <1>2 DEF Opened
      <3> HIDE DEF begun
      <3>1. /\ Append(begun, Head(handlers[s])) # <<>>
            /\ Append(begun, Head(handlers[s]))[1] = Header
        BY <1>2, <3>0
      <3> USE DEF begun
      <3> QED BY <1>1, <1>2, <1>5, <2>2, <2>4, <3>1 DEF Opened
    <2>6. Writing(s)' /\ Collected(s)'
      BY <1>1, <1>2, <1>5, <2>2 DEF Writing, Collected
    <2>7. Line(s)' = Line(s)
      <3>1. Append(sent[s] \o outbox[s], Head(handlers[s])) \o Tail(handlers[s])
              = (sent[s] \o outbox[s]) \o handlers[s]
        BY <1>1, <1>2, MoveFront
      <3> QED BY <1>1, <1>3, <2>2, <2>4, <3>1 DEF Line
    <2>8. Ordered(s)'
      BY <1>1, <1>2, <1>5, <2>7, OrderKept
    <2>9. ASSUME NEW x \in Sessions \ {s} PROVE SessionInv(x)'
      <3>1. UNCHANGED Own(x) /\ SessionInv(x)
        BY <1>1, <2>1, <2>9 DEF Own, Kinds, SessionInv
      <3> QED BY <1>1, <3>1, OthersKept
    <2> QED BY <2>3, <2>5, <2>6, <2>8, <2>9 DEF SessionInv
  <1> QED BY <1>4, <1>5

LEMMA OnWriteKeeps ==
    ASSUME StreamInv, NEW s \in Sessions, OnWrite(s)
    PROVE  StreamInv'
  <1> USE DEF StreamInv
  <1>1. /\ Opened(s) /\ Writing(s) /\ Collected(s) /\ Ordered(s) /\ writes[s] > 0 /\ pc[s] = "open"
    BY DEF OnWrite
  <1>2. ~closed[s] /\ outbox[s] # <<>> /\ writes[s] = 1
    BY <1>1 DEF Writing
  <1> DEFINE more == Len(outbox[s]) > 1
  <1>3. /\ sent' = [sent EXCEPT ![s] = Append(@, Head(outbox[s]))]
        /\ outbox' = [outbox EXCEPT ![s] = Tail(@)]
        /\ writes' = [writes EXCEPT ![s] = IF more THEN 1 ELSE 0]
        /\ writeInProgress' = [writeInProgress EXCEPT ![s] = more]
        /\ UNCHANGED <<registry, snapshot, published, pc, user, joined, handlers, closed>>
    <2>1. UNCHANGED <<registry, snapshot, published, pc, user, joined, handlers, closed>>
      BY DEF OnWrite, bus, request
    <2>2. /\ sent' = [sent EXCEPT ![s] = Append(@, Head(outbox[s]))]
          /\ outbox' = [outbox EXCEPT ![s] = Tail(@)]
      BY DEF OnWrite
    <2>3. /\ writes' = [writes EXCEPT ![s] = IF more /\ ~closed[s] THEN @ ELSE @ - 1]
          /\ writeInProgress' = [writeInProgress EXCEPT ![s] = more /\ ~closed[s]]
      BY DEF OnWrite
    <2> HIDE DEF more
    <2>4. writes' = [writes EXCEPT ![s] = IF more THEN 1 ELSE 0]
      BY <1>2, <2>3
    <2>5. writeInProgress' = [writeInProgress EXCEPT ![s] = more]
      <3>1. (more /\ ~closed[s]) = more
        BY <1>2 DEF more
      <3> QED BY <2>3, <3>1, Zenon
    <2> QED BY <2>1, <2>2, <2>4, <2>5
  <1>4. /\ sent[s] \in Seq(Lines) /\ outbox[s] \in Seq(Lines) /\ handlers[s] \in Seq(Lines)
        /\ Head(outbox[s]) \in Lines /\ Tail(outbox[s]) \in Seq(Lines)
        /\ Tail(outbox[s]) # <<>> <=> more
    <2>1. sent[s] \in Seq(Lines) /\ outbox[s] \in Seq(Lines) /\ handlers[s] \in Seq(Lines)
      BY DEF Kinds
    <2>2. /\ Head(outbox[s]) \in Lines /\ Tail(outbox[s]) \in Seq(Lines)
          /\ Len(Tail(outbox[s])) = Len(outbox[s]) - 1 /\ Len(outbox[s]) \in Nat
      BY <1>2, <2>1
    <2>3. Tail(outbox[s]) # <<>> <=> Len(Tail(outbox[s])) > 0
      <3> DEFINE rest == Tail(outbox[s])
      <3>1. rest \in Seq(Lines)
        BY <2>2
      <3> HIDE DEF rest
      <3>2. rest # <<>> <=> Len(rest) > 0
        BY <3>1
      <3> QED BY <3>2 DEF rest
    <2> QED BY <2>1, <2>2, <2>3
  <1>5. /\ sent'[s] = Append(sent[s], Head(outbox[s])) /\ outbox'[s] = Tail(outbox[s])
        /\ writes'[s] = (IF more THEN 1 ELSE 0) /\ (writeInProgress'[s] <=> more)
    BY <1>3 DEF Kinds
  <1>6. Kinds'
    <2>1. sent' \in [Sessions -> Seq(Lines)]
      BY <1>3, <1>4 DEF Kinds
    <2>2. outbox' \in [Sessions -> Seq(Lines)]
      BY <1>3, <1>4 DEF Kinds
    <2>3. writes' \in [Sessions -> Nat] /\ writeInProgress' \in [Sessions -> BOOLEAN]
      BY <1>3 DEF Kinds
    <2> QED BY <1>3, <2>1, <2>2, <2>3 DEF Kinds
  <1>7. sent'[s] \o outbox'[s] = sent[s] \o outbox[s]
    BY <1>2, <1>4, <1>5, MoveFront
  <1>8. SessionInv(s)'
    <2>1. Opened(s)'
      BY <1>1, <1>2, <1>3, <1>7 DEF Opened
    <2>2. Writing(s)' /\ Collected(s)'
      BY <1>1, <1>2, <1>3, <1>4, <1>5 DEF Writing, Collected
    <2>3. Line(s)' = Line(s)
      BY <1>3, <1>7 DEF Line
    <2>4. Ordered(s)'
      BY <1>1, <1>2, <1>3, <2>3, OrderKept
    <2> QED BY <2>1, <2>2, <2>4 DEF SessionInv
  <1>9. ASSUME NEW x \in Sessions \ {s} PROVE SessionInv(x)'
    <2>1. UNCHANGED Own(x) /\ SessionInv(x)
      BY <1>3, <1>9 DEF Own, Kinds, SessionInv
    <2> QED BY <1>3, <2>1, OthersKept
  <1> QED BY <1>6, <1>8, <1>9 DEF SessionInv

\* What has been written is the beginning of what was due.
LEMMA OnWriteFailsKeeps ==
    ASSUME StreamInv, NEW s \in Sessions, OnWriteFails(s)
    PROVE  StreamInv'
  <1> USE DEF StreamInv
  <1>1. /\ Opened(s) /\ Writing(s) /\ Collected(s) /\ Ordered(s) /\ writes[s] > 0 /\ pc[s] = "open"
    BY DEF OnWriteFails
  <1>2. ~closed[s] /\ outbox[s] # <<>> /\ writes[s] = 1
    BY <1>1 DEF Writing
  <1>3. /\ writes' = [writes EXCEPT ![s] = @ - 1] /\ closed' = [closed EXCEPT ![s] = TRUE]
        /\ registry' = registry \ {s}
        /\ UNCHANGED <<snapshot, published, pc, user, joined, handlers, outbox, writeInProgress, sent>>
    BY DEF OnWriteFails, bus, request
  <1>4. writes'[s] = 0 /\ closed'[s] /\ s \notin registry'
    BY <1>2, <1>3 DEF Kinds
  <1>5. Kinds'
    <2>1. writes' \in [Sessions -> Nat]
      BY <1>2, <1>3 DEF Kinds
    <2> QED BY <1>3, <2>1 DEF Kinds
  <1>6. SessionInv(s)'
    <2>1. Opened(s)' /\ Writing(s)' /\ Collected(s)'
      BY <1>1, <1>3, <1>4 DEF Opened, Writing, Collected
    <2>2. /\ sent[s] \in Seq(Lines) /\ outbox[s] \o handlers[s] \in Seq(Lines)
          /\ Line(s) = sent[s] \o (outbox[s] \o handlers[s])
      BY DEF Line, Kinds
    <2>3. InBusOrder(Line(s)) /\ EventsOn(Line(s)) = Due(s)
      BY <1>1, <1>2 DEF Ordered
    <2>4. /\ InBusOrder(sent[s])
          /\ EventsOn(sent[s]) = {n \in Due(s) : \E m \in EventsOn(sent[s]) : n <= m}
      <3> DEFINE rest == outbox[s] \o handlers[s]
      <3>1. sent[s] \in Seq(Lines) /\ rest \in Seq(Lines) /\ Line(s) = sent[s] \o rest
        BY <2>2
      <3> HIDE DEF rest
      <3>2. InBusOrder(sent[s] \o rest)
        BY <2>3, <3>1
      <3>3. /\ InBusOrder(sent[s])
            /\ EventsOn(sent[s]) = {n \in EventsOn(sent[s] \o rest) : \E m \in EventsOn(sent[s]) : n <= m}
        BY <3>1, <3>2, Beginning
      <3> QED BY <2>3, <3>1, <3>3
    <2>5. Due(s)' = Due(s)
      BY <1>3 DEF Due
    <2> QED BY <1>3, <1>4, <2>1, <2>4, <2>5 DEF SessionInv, Ordered
  <1>7. ASSUME NEW x \in Sessions \ {s} PROVE SessionInv(x)'
    <2>1. UNCHANGED Own(x) /\ SessionInv(x)
      BY <1>3, <1>7 DEF Own, Kinds, SessionInv
    <2> QED BY <1>3, <2>1, OthersKept
  <1> QED BY <1>5, <1>6, <1>7 DEF SessionInv

-----------------------------------------------------------------------------
LEMMA InitStreams == Init => StreamInv
  <1> SUFFICES ASSUME Init PROVE StreamInv
    OBVIOUS
  <1>1. Kinds
    BY DEF Init, Kinds
  <1>2. ASSUME NEW s \in Sessions PROVE Opened(s) /\ Writing(s) /\ Collected(s) /\ Ordered(s)
    BY DEF Init, Opened, Writing, Collected, Ordered
  <1> QED BY <1>1, <1>2 DEF StreamInv

LEMMA NextStreams == StreamInv /\ [Next]_vars => StreamInv'
  <1> SUFFICES ASSUME StreamInv, [Next]_vars PROVE StreamInv'
    OBVIOUS
  <1>1. CASE UNCHANGED vars
    <2>1. UNCHANGED <<registry, snapshot, published, pc, user, joined, handlers, outbox, writeInProgress,
                      writes, sent, closed>>
      BY <1>1 DEF vars, bus, request, stream
    <2>2. ASSUME NEW s \in Sessions PROVE SessionInv(s)'
      <3>1. UNCHANGED Own(s) /\ SessionInv(s)
        BY <2>1 DEF Own, StreamInv, SessionInv
      <3> QED BY <2>1, <3>1, OthersKept
    <2> QED BY <2>1, <2>2 DEF StreamInv, SessionInv, Kinds
  <1>2. CASE Publish
    BY <1>2, PublishKeeps
  <1>3. ASSUME NEW s \in Sessions, SendEvent(s) \/ Opening(s) \/ Session(s) PROVE StreamInv'
    BY <1>3, SendEventKeeps, AddKeeps, StartKeeps, SendConnectedKeeps, RunHandlerKeeps, OnWriteKeeps,
       OnWriteFailsKeeps DEF Opening, Session
  <1> QED BY <1>1, <1>2, <1>3 DEF Next

LEMMA StreamsInvariant == Spec => []StreamInv
  BY InitStreams, NextStreams, PTL DEF Spec

-----------------------------------------------------------------------------
\* Every stream begins with the response header, and carries the events that are
\* for its user and come after its add(), each once, in the order of the bus and
\* without a gap, whatever sessions join and leave while an event is published.
THEOREM StreamsAreInOrder == Spec => []StreamInOrder
  <1>1. StreamInv => StreamInOrder
    <2> SUFFICES ASSUME StreamInv PROVE StreamInOrder
      OBVIOUS
    <2>1. HeaderFirst
      <3> SUFFICES ASSUME NEW s \in Sessions, sent[s] \o outbox[s] # <<>>
                   PROVE  (sent[s] \o outbox[s])[1] = Header
        BY DEF HeaderFirst
      <3>1. Opened(s) /\ pc[s] \in {"absent", "start", "connected", "open"}
        BY DEF StreamInv, Kinds
      <3>2. <<>> \o <<>> = <<>>
        OBVIOUS
      <3>3. CASE pc[s] \in {"absent", "start"}
        BY <3>1, <3>2, <3>3 DEF Opened
      <3>4. CASE pc[s] \in {"connected", "open"}
        BY <3>1, <3>4 DEF Opened
      <3> QED BY <3>1, <3>3, <3>4
    <2> QED BY <2>1 DEF StreamInv, Ordered, StreamInOrder
  <1> QED BY <1>1, StreamsInvariant, PTL

\* A session never has two writes under way on its stream, and never a queued
\* item without one until it is closed.
THEOREM OneWriteAtATime == Spec => []OneWrite
  <1>1. StreamInv => OneWrite
    BY DEF StreamInv, Writing, OneWrite
  <1> QED BY <1>1, StreamsInvariant, PTL

\* The session whose write failed has left the registry for good.
THEOREM ClosedHasLeft == Spec => []ClosedIsRemoved
  <1>1. StreamInv => ClosedIsRemoved
    BY DEF StreamInv, Opened, ClosedIsRemoved
  <1> QED BY <1>1, StreamsInvariant, PTL
==============================================================================
