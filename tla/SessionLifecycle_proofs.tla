----------------------- MODULE SessionLifecycle_proofs -----------------------
(***************************************************************************)
(* Proofs about SessionLifecycle, for any callers, runs of the cron, casts *)
(* and bounds.                                                             *)
(***************************************************************************)
EXTENDS SessionLifecycle, TLAPS

\* Where a call may stand, with what it read.
EnderAt == {Idle} \cup [at : {"ending"}, started : BOOLEAN] \cup [at : {"finalizing"}]
CronAt == {Idle} \cup [at : {"closing"}, now : Nat, joined : SUBSET Party]
                 \cup [at : {"completing"}, joined : SUBSET Party]
                 \cup [at : {"finalizing"}]
MarkerAt == {Idle} \cup [at : {"booking", "session"}, now : Nat]

Row == [exists : BOOLEAN, room : 1 .. MaxRooms, entry : 1 .. MaxRooms,
        started : Nat, ended : Nat, joined : SUBSET Party]
Meeting == [room : 1 .. MaxRooms, from : Nat, to : Nat, long : BOOLEAN]

CallsOK ==
    /\ ender \in [Ender -> EnderAt]
    /\ cron \in [Cron -> CronAt]
    /\ \A c \in Cron : cron[c].at = "closing" => cron[c].now <= clock
    /\ marker \in [Marker -> MarkerAt]
    /\ \A m \in Marker : marker[m].at # "idle" => marker[m].now <= clock
    /\ starter \in {"idle", "room", "session", "cancel"}

TablesOK ==
    /\ booking \in {"none", "confirmed"} \cup Decided
    /\ session \in Row
    /\ session.started <= clock /\ session.ended <= clock
    /\ InOrder(session.started, session.ended)
    /\ delivery \in {"none", "end", "cron", "admin"}
    /\ recognized \in Nat /\ bare \in BOOLEAN
    /\ faults \in 0 .. MaxFaults /\ lost \in 0 .. MaxLost

\* A party is only in a meeting that was held.
VideoOK ==
    /\ clock \in Nat \ {0}
    /\ meeting \in Seq(Meeting)
    /\ \A m \in DOMAIN meeting : meeting[m].from <= clock /\ meeting[m].to <= clock
    /\ here # {} => meeting # <<>>
    /\ acked \subseteq Sent /\ seen \subseteq Sent

TypeInv == CallsOK /\ TablesOK /\ VideoOK

\* A call about to pay has seen the booking completed; one about to end the
\* session of a no-show has seen it decided.
CallsKnow ==
    /\ \A p \in Ender : ender[p].at = "finalizing" => booking = "completed"
    /\ \A c \in Cron : cron[c].at = "finalizing" => booking = "completed"
    /\ \A m \in Marker : marker[m].at = "session" => booking \in Decided

\* What the callers know, and the three properties that rest on it.
Knows == CallsKnow /\ RecognizedOnce /\ PaysOnlyCompleted /\ NobodyIsForgotten

SessionInv == TypeInv /\ Knows

-----------------------------------------------------------------------------
LEMMA Bounds ==
    /\ MaxMeetings \in Nat /\ MaxRooms \in Nat /\ MaxRooms >= 1
    /\ MaxFaults \in Nat /\ MaxLost \in Nat
BY SessionAssumption

LEMMA FreshRow ==
    /\ NewSession \in Row /\ NewSession.started = 0 /\ NewSession.ended = 0
    /\ NoSession \in Row /\ NoSession.started = 0 /\ NoSession.ended = 0
    /\ NewSession.exists = TRUE /\ NoSession.exists = FALSE
<1>1. NewSession \in Row
    BY Bounds DEF NewSession, Row
<1> QED BY <1>1, Bounds DEF NewSession, NoSession, Row

LEMMA InitInv == SessionInit => SessionInv
<1> SUFFICES ASSUME SessionInit PROVE SessionInv
    OBVIOUS
<1>1. CallsOK
    BY DEF SessionInit, CallsOK, Idle, EnderAt, CronAt, MarkerAt
<1>2. TablesOK
    <2>1. session \in Row /\ session.started = 0 /\ session.ended = 0
        BY FreshRow DEF SessionInit
    <2>2. booking \in {"none", "confirmed"}
        BY DEF SessionInit
    <2>3. clock = 1 /\ delivery = "none" /\ recognized = 0 /\ bare \in BOOLEAN
                    /\ faults = 0 /\ lost = 0
        BY DEF SessionInit
    <2> QED BY <2>1, <2>2, <2>3, Bounds DEF TablesOK, InOrder
<1>3. VideoOK
    BY DEF SessionInit, VideoOK, Sent
<1>4. CallsKnow
    BY DEF SessionInit, CallsKnow, Idle
<1>5. RecognizedOnce /\ PaysOnlyCompleted /\ NobodyIsForgotten
    BY FreshRow DEF SessionInit, RecognizedOnce, PaysOnlyCompleted, NobodyIsForgotten
<1> QED BY <1>1, <1>2, <1>3, <1>4, <1>5 DEF SessionInv, TypeInv, Knows

LEMMA SameVideo == ASSUME VideoOK, UNCHANGED <<video, acked, seen>> PROVE VideoOK'
BY DEF VideoOK, video, Sent

LEMMA MeetingsOfSent == ASSUME VideoOK, NEW e \in Sent
                        PROVE  /\ e[1] \in DOMAIN meeting /\ meeting[e[1]] \in Meeting
                               /\ meeting[e[1]].from <= clock /\ meeting[e[1]].to <= clock
<1>1. e[1] \in DOMAIN meeting
    BY DEF Sent
<1>2. meeting[e[1]] \in Meeting
    BY <1>1 DEF VideoOK
<1> QED BY <1>1, <1>2 DEF VideoOK

\* Meetings are only added, and ended once: no event is taken back.
LEMMA SentStays ==
    ASSUME DOMAIN meeting \subseteq DOMAIN meeting',
           \A m \in DOMAIN meeting : meeting[m].to # 0 => meeting'[m].to # 0
    PROVE  Sent \subseteq Sent'
BY DEF Sent

LEMMA JoinTypes == ASSUME TypeInv, NEW p \in Party, Join(p) PROVE TypeInv'
<1>1. clock' \in Nat \ {0} /\ clock' >= clock
    BY DEF TypeInv, VideoOK, Join
<1>2. UNCHANGED <<session, booking, delivery, recognized, bare, faults, lost, acked, seen>>
    BY DEF Join, tables, events
<1>3. CallsOK'
    BY <1>1 DEF TypeInv, CallsOK, VideoOK, MarkerAt, CronAt, Idle, Join, calls
<1>4. TablesOK'
    BY <1>1, <1>2 DEF TypeInv, TablesOK, VideoOK, Row
<1>5. CASE UNCHANGED meeting /\ Running
    <2>1. meeting # <<>> /\ Sent' = Sent
        BY <1>5 DEF Running, Sent
    <2>2. clock' = clock
        BY <1>5 DEF Join
    <2>3. VideoOK'
        BY <1>2, <1>5, <2>1, <2>2 DEF TypeInv, VideoOK
    <2> QED BY <1>3, <1>4, <2>3 DEF TypeInv
<1>6. CASE ~Running
    <2> DEFINE new == [room |-> session.room, from |-> clock + 1, to |-> 0, long |-> FALSE]
    <2>1. meeting' = Append(meeting, new) /\ clock' = clock + 1
        BY <1>6 DEF Join
    <2>2. new \in Meeting /\ new.from = clock + 1 /\ new.to = 0
        BY DEF TypeInv, TablesOK, VideoOK, Row, Meeting
    <2> HIDE DEF new
    <2>3. meeting' \in Seq(Meeting) /\ Len(meeting') = Len(meeting) + 1
        BY <2>1, <2>2 DEF TypeInv, VideoOK
    <2>4. \A m \in DOMAIN meeting' : meeting'[m] = IF m = Len(meeting) + 1 THEN new ELSE meeting[m]
        BY <2>1, <2>2 DEF TypeInv, VideoOK
    <2>5. \A m \in DOMAIN meeting : m \in DOMAIN meeting' /\ meeting'[m] = meeting[m]
        BY <2>3, <2>4 DEF TypeInv, VideoOK
    <2>6. ASSUME NEW m \in DOMAIN meeting'
          PROVE  meeting'[m].from <= clock' /\ meeting'[m].to <= clock'
        <3>1. CASE m = Len(meeting) + 1
            BY <1>1, <2>1, <2>2, <2>4, <3>1
        <3>2. CASE m # Len(meeting) + 1
            <4>1. m \in DOMAIN meeting /\ meeting'[m] = meeting[m]
                BY <2>3, <2>4, <3>2 DEF TypeInv, VideoOK
            <4>2. meeting[m] \in Meeting /\ meeting[m].from <= clock /\ meeting[m].to <= clock
                BY <4>1 DEF TypeInv, VideoOK
            <4>3. clock \in Nat /\ meeting[m].from \in Nat /\ meeting[m].to \in Nat
                BY <4>2 DEF Meeting, TypeInv, VideoOK
            <4> QED BY <2>1, <4>1, <4>2, <4>3
        <3> QED BY <3>1, <3>2
    <2>7. Sent \subseteq Sent'
        BY <2>5, SentStays
    <2> QED BY <1>1, <1>2, <1>3, <1>4, <2>3, <2>6, <2>7 DEF TypeInv, VideoOK
<1> QED BY <1>5, <1>6 DEF Join

LEMMA LeaveTypes == ASSUME TypeInv, NEW p \in Party, Leave(p) PROVE TypeInv'
<1>1. UNCHANGED <<session, booking, delivery, recognized, bare, faults, lost, acked, seen, clock>>
    BY DEF Leave, tables, events
<1>2. CallsOK'
    BY <1>1 DEF TypeInv, CallsOK, Leave, calls
<1>3. TablesOK'
    BY <1>1 DEF TypeInv, TablesOK
<1>4. meeting # <<>> /\ here' \subseteq here
    BY DEF TypeInv, VideoOK, Leave
<1>5. CASE UNCHANGED meeting
    BY <1>1, <1>2, <1>3, <1>4, <1>5 DEF TypeInv, VideoOK, Sent
<1>6. ASSUME NEW long \in BOOLEAN,
             meeting' = [meeting EXCEPT ![Len(meeting)].to = clock, ![Len(meeting)].long = long]
      PROVE  TypeInv'
    <2> DEFINE last == meeting[Len(meeting)]
               closed == [last EXCEPT !.to = clock, !.long = long]
    <2>1. Len(meeting) \in DOMAIN meeting /\ last \in Meeting
        BY <1>4 DEF TypeInv, VideoOK
    <2>2. closed \in Meeting /\ closed.from = last.from /\ closed.to = clock
        BY <2>1 DEF Meeting, TypeInv, VideoOK
    <2>3. meeting' = [meeting EXCEPT ![Len(meeting)] = closed]
        BY <1>6, <2>1 DEF TypeInv, VideoOK, Meeting
    <2> HIDE DEF closed, last
    <2>4. meeting' \in Seq(Meeting) /\ DOMAIN meeting' = DOMAIN meeting
        BY <2>1, <2>2, <2>3 DEF TypeInv, VideoOK
    <2>5. \A m \in DOMAIN meeting : meeting'[m] = IF m = Len(meeting) THEN closed ELSE meeting[m]
        BY <2>3 DEF TypeInv, VideoOK
    <2>6. ASSUME NEW m \in DOMAIN meeting'
          PROVE  meeting'[m].from <= clock /\ meeting'[m].to <= clock
        <3>1. m \in DOMAIN meeting /\ clock <= clock
            BY <2>4 DEF TypeInv, VideoOK
        <3>2. CASE m = Len(meeting)
            BY <2>1, <2>2, <2>5, <3>1, <3>2 DEF TypeInv, VideoOK, last
        <3>3. CASE m # Len(meeting)
            BY <2>5, <3>1, <3>3 DEF TypeInv, VideoOK
        <3> QED BY <3>2, <3>3
    <2>7. Sent \subseteq Sent'
        BY <2>2, <2>4, <2>5, SentStays DEF TypeInv, VideoOK
    <2>8. meeting' # <<>>
        BY <2>1, <2>4
    <2> QED BY <1>1, <1>2, <1>3, <2>4, <2>6, <2>7, <2>8 DEF TypeInv, VideoOK
<1> QED BY <1>5, <1>6 DEF Leave

LEMMA TrackJoinedTypes == ASSUME TypeInv, NEW p \in Party, TrackJoined(p) PROVE TypeInv'
<1>1. clock' \in Nat \ {0} /\ clock' >= clock
    BY DEF TypeInv, VideoOK, TrackJoined
<1>2. VideoOK'
    <2>1. UNCHANGED <<meeting, here, acked, seen>> /\ Sent' = Sent
        BY DEF TrackJoined, events, Sent
    <2>2. ASSUME NEW m \in DOMAIN meeting
          PROVE  meeting[m].from <= clock' /\ meeting[m].to <= clock'
        <3>1. meeting[m] \in Meeting /\ meeting[m].from <= clock /\ meeting[m].to <= clock
            BY DEF TypeInv, VideoOK
        <3>2. meeting[m].from \in Nat /\ meeting[m].to \in Nat /\ clock \in Nat
            BY <3>1 DEF Meeting, TypeInv, VideoOK
        <3> QED BY <1>1, <3>1, <3>2
    <2> QED BY <1>1, <2>1, <2>2 DEF TypeInv, VideoOK
<1>3. CallsOK'
    BY <1>1 DEF TypeInv, CallsOK, VideoOK, MarkerAt, CronAt, Idle, TrackJoined, calls
<1>4. TablesOK'
    <2>0. UNCHANGED <<booking, late, delivery, recognized, bare, faults, lost>>
        BY DEF TrackJoined, events
    <2>1. session \in Row /\ clock \in Nat /\ session.joined \cup {p} \in SUBSET Party
        BY DEF TypeInv, TablesOK, VideoOK, Row
    <2>2. CASE session' = [session EXCEPT !.joined = @ \cup {p}] /\ UNCHANGED clock
        <3>1. session' \in Row /\ session'.started = session.started /\ session'.ended = session.ended
            BY <2>1, <2>2 DEF Row
        <3> QED BY <2>0, <2>2, <3>1 DEF TypeInv, TablesOK
    <2>3. CASE /\ InOrder(clock + 1, session.ended) /\ clock' = clock + 1
               /\ session' = [session EXCEPT !.joined = @ \cup {p}, !.started = clock + 1]
        <3>1. session' \in Row /\ session'.started = clock + 1 /\ session'.ended = session.ended
            <4> DEFINE both == session.joined \cup {p}
                       now == clock + 1
            <4>1. both \in SUBSET Party /\ now \in Nat
                BY <2>1
            <4>2. session' = [session EXCEPT !.joined = both, !.started = now]
                BY <2>1, <2>3 DEF Row
            <4> HIDE DEF both, now
            <4>3. session' \in Row /\ session'.started = now /\ session'.ended = session.ended
                BY <2>1, <4>1, <4>2 DEF Row
            <4> QED BY <4>3 DEF now
        <3>2. session'.started <= clock' /\ session'.ended <= clock'
            BY <2>1, <2>3, <3>1 DEF TypeInv, TablesOK, Row
        <3>3. InOrder(session'.started, session'.ended)
            BY <2>3, <3>1
        <3> QED BY <2>0, <3>1, <3>2, <3>3 DEF TypeInv, TablesOK
    <2> QED BY <2>2, <2>3 DEF TrackJoined
<1> QED BY <1>2, <1>3, <1>4 DEF TypeInv

LEMMA WebhookTypes == ASSUME TypeInv, NEW e \in Sent, Webhook(e) PROVE TypeInv'
<1>1. PICK m \in Meeting : m = meeting[e[1]] /\ m.from <= clock /\ m.to <= clock
    BY MeetingsOfSent DEF TypeInv
<1>2. VideoOK'
    BY DEF TypeInv, VideoOK, Sent, Webhook, video
<1>3. CallsOK'
    BY DEF TypeInv, CallsOK, Webhook, calls, video
<1>4. UNCHANGED <<delivery, bare, faults, lost, clock>>
    BY DEF Webhook, video
<1>5. CASE UNCHANGED <<booking, session, recognized>>
    BY <1>2, <1>3, <1>4, <1>5 DEF TypeInv, TablesOK
<1>6. CASE StartFromWebhook(m)
    BY <1>1, <1>2, <1>3, <1>4, <1>6 DEF TypeInv, TablesOK, Meeting, Row, StartFromWebhook
<1>7. CASE EndFromWebhook(m)
    <2>1. session' \in Row /\ session'.started <= clock /\ session'.ended <= clock
                          /\ InOrder(session'.started, session'.ended)
        BY <1>1, <1>7 DEF TypeInv, TablesOK, Meeting, Row, EndFromWebhook
    <2>2. booking' \in {"none", "confirmed"} \cup Decided /\ recognized' \in Nat
        BY <1>7 DEF TypeInv, TablesOK, Decided, EndFromWebhook, SetBooking, Recognize
    <2> QED BY <1>2, <1>3, <1>4, <2>1, <2>2 DEF TypeInv, TablesOK
<1> QED BY <1>1, <1>5, <1>6, <1>7 DEF Webhook

LEMMA DropEventTypes == ASSUME TypeInv, NEW e \in Sent, DropEvent(e) PROVE TypeInv'
<1>1. VideoOK' /\ CallsOK'
    BY DEF TypeInv, VideoOK, CallsOK, Sent, DropEvent, video, calls
<1>2. TablesOK'
    BY Bounds DEF TypeInv, TablesOK, DropEvent, tables, video
<1> QED BY <1>1, <1>2 DEF TypeInv

LEMMA TrackLeftTypes == ASSUME TypeInv, NEW p \in Party, TrackLeft(p) PROVE TypeInv'
<1>1. VideoOK'
    BY SameVideo DEF TypeInv, TrackLeft, events
<1>2. CallsOK'
    BY DEF TypeInv, CallsOK, TrackLeft, calls, video
<1>3. TablesOK'
    BY DEF TypeInv, TablesOK, Row, TrackLeft, video, events
<1> QED BY <1>1, <1>2, <1>3 DEF TypeInv

LEMMA TimePassesTypes == ASSUME TypeInv, TimePasses PROVE TypeInv'
<1>1. VideoOK'
    BY SameVideo DEF TypeInv, TimePasses, events
<1>2. CallsOK'
    BY DEF TypeInv, CallsOK, TimePasses, calls, video
<1>3. TablesOK'
    BY DEF TypeInv, TablesOK, TimePasses, video, events
<1> QED BY <1>1, <1>2, <1>3 DEF TypeInv

LEMMA RecreateRoomTypes == ASSUME TypeInv, RecreateRoom PROVE TypeInv'
<1>1. VideoOK'
    BY SameVideo DEF TypeInv, RecreateRoom, events
<1>2. CallsOK'
    BY DEF TypeInv, CallsOK, RecreateRoom, calls, video
<1>3. TablesOK'
    <2>1. session' \in Row /\ session'.started \in {0, session.started}
                          /\ session'.ended \in {0, session.ended}
        <3>1. CASE session' = NewSession
            BY <3>1, FreshRow
        <3>2. CASE session.room < MaxRooms /\
                   session' = [session EXCEPT !.room = @ + 1,
                            !.entry = IF booking = "confirmed" THEN session.room + 1 ELSE @]
            <4> DEFINE entry == IF booking = "confirmed" THEN session.room + 1 ELSE session.entry
            <4>1. session \in Row /\ session.room + 1 \in 1 .. MaxRooms
                BY <3>2, Bounds DEF TypeInv, TablesOK, Row
            <4>2. entry \in 1 .. MaxRooms
                BY <4>1 DEF Row
            <4>3. session' = [session EXCEPT !.room = @ + 1, !.entry = entry]
                BY <3>2, <4>1
            <4> HIDE DEF entry
            <4> QED BY <4>1, <4>2, <4>3 DEF Row
        <3> QED BY <3>1, <3>2 DEF RecreateRoom
    <2> QED BY <2>1 DEF TypeInv, TablesOK, VideoOK, InOrder, RecreateRoom, video, events
<1> QED BY <1>1, <1>2, <1>3 DEF TypeInv

LEMMA EndReadTypes == ASSUME TypeInv, NEW p \in Ender, EndRead(p) PROVE TypeInv'
<1>1. VideoOK'
    BY SameVideo DEF TypeInv, EndRead, events
<1>2. CallsOK'
    BY DEF TypeInv, CallsOK, EnderAt, EndRead, video
<1>3. TablesOK'
    BY DEF TypeInv, TablesOK, EndRead, tables, video, events
<1> QED BY <1>1, <1>2, <1>3 DEF TypeInv

LEMMA EndCommitTypes == ASSUME TypeInv, NEW p \in Ender, EndCommit(p) PROVE TypeInv'
<1>1. VideoOK'
    BY SameVideo DEF TypeInv, EndCommit, events
<1>2. CallsOK'
    BY DEF TypeInv, CallsOK, EnderAt, EndCommit, video
<1>3. TablesOK'
    <2>1. session' \in Row /\ session'.started = session.started /\ session'.ended = clock
        BY DEF TypeInv, TablesOK, VideoOK, Row, EndCommit
    <2> QED BY <2>1 DEF TypeInv, TablesOK, VideoOK, Row, Decided, InOrder, EndCommit, video,
               events, SetBooking, Recognize
<1> QED BY <1>1, <1>2, <1>3 DEF TypeInv

LEMMA EndRefusedTypes == ASSUME TypeInv, NEW p \in Ender, EndRefused(p) PROVE TypeInv'
<1>1. VideoOK'
    BY SameVideo DEF TypeInv, EndRefused, events
<1>2. CallsOK'
    BY DEF TypeInv, CallsOK, EnderAt, EndRefused, video
<1>3. TablesOK'
    BY DEF TypeInv, TablesOK, EndRefused, tables, video, events
<1> QED BY <1>1, <1>2, <1>3 DEF TypeInv

LEMMA EndFinalizeTypes == ASSUME TypeInv, NEW p \in Ender, EndFinalize(p) PROVE TypeInv'
<1>1. VideoOK'
    BY SameVideo DEF TypeInv, EndFinalize, events
<1>2. CallsOK'
    BY DEF TypeInv, CallsOK, EnderAt, EndFinalize, video
<1>3. TablesOK'
    BY DEF TypeInv, TablesOK, EndFinalize, video, events, Finalize
<1> QED BY <1>1, <1>2, <1>3 DEF TypeInv

LEMMA EnderStopsTypes == ASSUME TypeInv, NEW p \in Ender, EnderStops(p) PROVE TypeInv'
<1>1. VideoOK'
    BY SameVideo DEF TypeInv, EnderStops, events
<1>2. CallsOK'
    BY DEF TypeInv, CallsOK, EnderAt, EnderStops, video
<1>3. TablesOK'
    BY Bounds DEF TypeInv, TablesOK, EnderStops, tables, video, events, Fails
<1> QED BY <1>1, <1>2, <1>3 DEF TypeInv

LEMMA CronReadTypes == ASSUME TypeInv, NEW c \in Cron, CronRead(c) PROVE TypeInv'
<1>1. VideoOK'
    BY SameVideo DEF TypeInv, CronRead, events
<1>2. CallsOK'
    BY DEF TypeInv, CallsOK, VideoOK, TablesOK, Row, CronAt, CronRead, video
<1>3. TablesOK'
    BY DEF TypeInv, TablesOK, CronRead, tables, video, events
<1> QED BY <1>1, <1>2, <1>3 DEF TypeInv

LEMMA CronCloseTypes == ASSUME TypeInv, NEW c \in Cron, CronClose(c) PROVE TypeInv'
<1>0. cron[c] \in [at : {"closing"}, now : Nat, joined : SUBSET Party] /\ cron[c].now <= clock
    BY DEF TypeInv, CallsOK, CronAt, Idle, CronClose
<1>1. VideoOK'
    BY SameVideo DEF TypeInv, CronClose, events
<1>2. CallsOK'
    BY DEF TypeInv, CallsOK, CronAt, Idle, CronClose, video
<1>3. TablesOK'
    BY <1>0 DEF TypeInv, TablesOK, Row, CronClose, video, events
<1> QED BY <1>1, <1>2, <1>3 DEF TypeInv

LEMMA CronSkipsTypes == ASSUME TypeInv, NEW c \in Cron, CronSkips(c) PROVE TypeInv'
<1>1. VideoOK'
    BY SameVideo DEF TypeInv, CronSkips, events
<1>2. CallsOK'
    BY DEF TypeInv, CallsOK, CronAt, Idle, CronSkips, video
<1>3. TablesOK'
    BY DEF TypeInv, TablesOK, CronSkips, tables, video, events
<1> QED BY <1>1, <1>2, <1>3 DEF TypeInv

LEMMA CronCompleteTypes == ASSUME TypeInv, NEW c \in Cron, CronComplete(c) PROVE TypeInv'
<1>1. VideoOK'
    BY SameVideo DEF TypeInv, CronComplete, events
<1>2. CallsOK'
    BY DEF TypeInv, CallsOK, TablesOK, Row, EnderAt, CronAt, Idle, CronComplete, video
<1>3. TablesOK'
    BY DEF TypeInv, TablesOK, Decided, CronComplete, video, events, SetBooking, Recognize
<1> QED BY <1>1, <1>2, <1>3 DEF TypeInv

LEMMA CronFinalizeTypes == ASSUME TypeInv, NEW c \in Cron, CronFinalize(c) PROVE TypeInv'
<1>1. VideoOK'
    BY SameVideo DEF TypeInv, CronFinalize, events
<1>2. CallsOK'
    BY DEF TypeInv, CallsOK, CronAt, Idle, CronFinalize, video
<1>3. TablesOK'
    BY DEF TypeInv, TablesOK, CronFinalize, video, events, Finalize
<1> QED BY <1>1, <1>2, <1>3 DEF TypeInv

LEMMA CronStopsTypes == ASSUME TypeInv, NEW c \in Cron, CronStops(c) PROVE TypeInv'
<1>1. VideoOK'
    BY SameVideo DEF TypeInv, CronStops, events
<1>2. CallsOK'
    BY DEF TypeInv, CallsOK, CronAt, Idle, CronStops, video
<1>3. TablesOK'
    BY Bounds DEF TypeInv, TablesOK, CronStops, tables, video, events, Fails
<1> QED BY <1>1, <1>2, <1>3 DEF TypeInv

LEMMA MarkBeginTypes == ASSUME TypeInv, NEW m \in Marker, MarkBegin(m) PROVE TypeInv'
<1>1. VideoOK'
    BY SameVideo DEF TypeInv, MarkBegin, events
<1>2. CallsOK'
    BY DEF TypeInv, CallsOK, VideoOK, MarkerAt, MarkBegin, video
<1>3. TablesOK'
    BY DEF TypeInv, TablesOK, MarkBegin, tables, video, events
<1> QED BY <1>1, <1>2, <1>3 DEF TypeInv

LEMMA MarkBookingTypes == ASSUME TypeInv, NEW m \in Marker, MarkBooking(m) PROVE TypeInv'
<1>0. marker[m] \in [at : {"booking", "session"}, now : Nat] /\ marker[m].now <= clock
    BY DEF TypeInv, CallsOK, MarkerAt, Idle, MarkBooking
<1>1. VideoOK'
    BY SameVideo DEF TypeInv, MarkBooking, events
<1>2. CallsOK'
    <2>1. [marker[m] EXCEPT !.at = "session"] \in [at : {"booking", "session"}, now : Nat]
        BY <1>0
    <2>2. marker' \in [Marker -> MarkerAt] /\ \A n \in Marker : n # m => marker'[n] = marker[n]
        BY <2>1 DEF TypeInv, CallsOK, MarkerAt, MarkBooking
    <2>3. marker'[m].at # "idle" => marker'[m].now = marker[m].now
        BY <2>1 DEF TypeInv, CallsOK, Idle, MarkBooking
    <2> QED BY <2>2, <2>3 DEF TypeInv, CallsOK, MarkBooking, video
<1>3. TablesOK'
    BY DEF TypeInv, TablesOK, Decided, MarkBooking, video, events, SetBooking, Recognize
<1> QED BY <1>1, <1>2, <1>3 DEF TypeInv

LEMMA MarkSessionTypes == ASSUME TypeInv, NEW m \in Marker, MarkSession(m) PROVE TypeInv'
<1>0. marker[m] \in [at : {"booking", "session"}, now : Nat] /\ marker[m].now <= clock
    BY DEF TypeInv, CallsOK, MarkerAt, Idle, MarkSession
<1>1. VideoOK'
    BY SameVideo DEF TypeInv, MarkSession, events
<1>2. CallsOK'
    BY DEF TypeInv, CallsOK, MarkerAt, Idle, MarkSession, video
<1>3. TablesOK'
    BY <1>0 DEF TypeInv, TablesOK, Row, MarkSession, video, events
<1> QED BY <1>1, <1>2, <1>3 DEF TypeInv

LEMMA MarkerStopsTypes == ASSUME TypeInv, NEW m \in Marker, MarkerStops(m) PROVE TypeInv'
<1>1. VideoOK'
    BY SameVideo DEF TypeInv, MarkerStops, events
<1>2. CallsOK'
    BY DEF TypeInv, CallsOK, MarkerAt, Idle, MarkerStops, video
<1>3. TablesOK'
    BY Bounds DEF TypeInv, TablesOK, MarkerStops, tables, video, events, Fails
<1> QED BY <1>1, <1>2, <1>3 DEF TypeInv

LEMMA InstantBookTypes == ASSUME TypeInv, InstantBook PROVE TypeInv'
<1>1. VideoOK'
    BY SameVideo DEF TypeInv, InstantBook, events
<1>2. CallsOK'
    BY DEF TypeInv, CallsOK, InstantBook, video
<1>3. TablesOK'
    BY DEF TypeInv, TablesOK, InstantBook, video, events, SetBooking, Recognize
<1> QED BY <1>1, <1>2, <1>3 DEF TypeInv

LEMMA InstantRoomTypes == ASSUME TypeInv, InstantRoom PROVE TypeInv'
<1>1. VideoOK'
    BY SameVideo DEF TypeInv, InstantRoom, events
<1>2. CallsOK'
    BY DEF TypeInv, CallsOK, InstantRoom, video
<1>3. TablesOK'
    BY DEF TypeInv, TablesOK, InstantRoom, tables, video, events
<1> QED BY <1>1, <1>2, <1>3 DEF TypeInv

LEMMA InstantSessionTypes == ASSUME TypeInv, InstantSession PROVE TypeInv'
<1>1. VideoOK'
    BY SameVideo DEF TypeInv, InstantSession, events
<1>2. CallsOK'
    BY DEF TypeInv, CallsOK, InstantSession, video
<1>3. TablesOK'
    BY FreshRow DEF TypeInv, TablesOK, VideoOK, InOrder, InstantSession, video, events
<1> QED BY <1>1, <1>2, <1>3 DEF TypeInv

LEMMA InstantCancelTypes == ASSUME TypeInv, InstantCancel PROVE TypeInv'
<1>1. VideoOK'
    BY SameVideo DEF TypeInv, InstantCancel, events
<1>2. CallsOK'
    BY DEF TypeInv, CallsOK, InstantCancel, video
<1>3. TablesOK'
    BY DEF TypeInv, TablesOK, Decided, InstantCancel, video, events, SetBooking, Recognize
<1> QED BY <1>1, <1>2, <1>3 DEF TypeInv

LEMMA StarterStopsTypes == ASSUME TypeInv, StarterStops PROVE TypeInv'
<1>1. VideoOK'
    BY SameVideo DEF TypeInv, StarterStops, events
<1>2. CallsOK'
    BY DEF TypeInv, CallsOK, StarterStops, video
<1>3. TablesOK'
    BY Bounds DEF TypeInv, TablesOK, StarterStops, tables, video, events, Fails
<1> QED BY <1>1, <1>2, <1>3 DEF TypeInv

LEMMA DecideTypes == ASSUME TypeInv, NEW s \in Decided, Decide(s) PROVE TypeInv'
<1>1. VideoOK'
    BY SameVideo DEF TypeInv, Decide, events
<1>2. CallsOK'
    BY DEF TypeInv, CallsOK, Decide, calls, video
<1>3. TablesOK'
    BY DEF TypeInv, TablesOK, Decide, video, events, SetBooking, Recognize
<1> QED BY <1>1, <1>2, <1>3 DEF TypeInv

LEMMA AttestTypes == ASSUME TypeInv, Attest PROVE TypeInv'
<1>1. VideoOK'
    BY SameVideo DEF TypeInv, Attest, events
<1>2. CallsOK'
    BY DEF TypeInv, CallsOK, Attest, calls, video
<1>3. TablesOK'
    BY DEF TypeInv, TablesOK, Attest, video, events, Finalize
<1> QED BY <1>1, <1>2, <1>3 DEF TypeInv

\* Every step keeps the types.
LEMMA StepTypes == ASSUME TypeInv, [SessionNext]_sessionVars PROVE TypeInv'
<1>1. CASE RoomStep
    BY <1>1, JoinTypes, LeaveTypes, TrackJoinedTypes, TrackLeftTypes, RecreateRoomTypes,
       WebhookTypes, DropEventTypes DEF RoomStep
<1>2. CASE TimePasses
    BY <1>2, TimePassesTypes
<1>3. CASE EndStep
    BY <1>3, EndReadTypes, EndCommitTypes, EndRefusedTypes, EndFinalizeTypes, EnderStopsTypes
       DEF EndStep
<1>4. CASE CronStep
    BY <1>4, CronReadTypes, CronCloseTypes, CronSkipsTypes, CronCompleteTypes,
       CronFinalizeTypes, CronStopsTypes DEF CronStep, CronWorks
<1>5. CASE MarkStep
    BY <1>5, MarkBeginTypes, MarkBookingTypes, MarkSessionTypes, MarkerStopsTypes DEF MarkStep
<1>6. CASE InstantStep
    BY <1>6, InstantBookTypes, InstantRoomTypes, InstantSessionTypes, InstantCancelTypes,
       StarterStopsTypes DEF InstantStep
<1>7. CASE (\E s \in Decided : Decide(s)) \/ Attest
    BY <1>7, DecideTypes, AttestTypes
<1>8. CASE UNCHANGED sessionVars
    <2>1. VideoOK'
        BY <1>8, SameVideo DEF TypeInv, sessionVars, events
    <2>2. CallsOK' /\ TablesOK'
        BY <1>8 DEF TypeInv, CallsOK, TablesOK, sessionVars, tables, video, events, calls
    <2> QED BY <2>1, <2>2 DEF TypeInv
<1> QED BY <1>1, <1>2, <1>3, <1>4, <1>5, <1>6, <1>7, <1>8 DEF SessionNext

-----------------------------------------------------------------------------
\* Every step keeps what the callers know: a decided booking is never decided
\* again, and who closes a session without deciding is about to or says so.
LEMMA JoinKnows == ASSUME TypeInv, Knows, NEW p \in Party, Join(p) PROVE Knows'
BY DEF Knows, CallsKnow, RecognizedOnce, PaysOnlyCompleted, NobodyIsForgotten, Join, tables,
   calls

LEMMA LeaveKnows == ASSUME TypeInv, Knows, NEW p \in Party, Leave(p) PROVE Knows'
BY DEF Knows, CallsKnow, RecognizedOnce, PaysOnlyCompleted, NobodyIsForgotten, Leave, tables,
   calls

LEMMA TrackJoinedKnows == ASSUME TypeInv, Knows, NEW p \in Party, TrackJoined(p) PROVE Knows'
BY DEF Knows, CallsKnow, RecognizedOnce, PaysOnlyCompleted, NobodyIsForgotten, TypeInv,
   TablesOK, Row, TrackJoined, calls

LEMMA TrackLeftKnows == ASSUME TypeInv, Knows, NEW p \in Party, TrackLeft(p) PROVE Knows'
BY DEF Knows, CallsKnow, RecognizedOnce, PaysOnlyCompleted, NobodyIsForgotten, TrackLeft, calls

LEMMA RecreateRoomKnows == ASSUME TypeInv, Knows, RecreateRoom PROVE Knows'
BY DEF Knows, CallsKnow, RecognizedOnce, PaysOnlyCompleted, NobodyIsForgotten, TypeInv,
   TablesOK, Row, RecreateRoom, calls

LEMMA WebhookKnows == ASSUME TypeInv, Knows, NEW e \in Sent, Webhook(e) PROVE Knows'
BY DEF Knows, CallsKnow, RecognizedOnce, PaysOnlyCompleted, NobodyIsForgotten, TypeInv,
   TablesOK, Row, Decided, Webhook, calls, StartFromWebhook, EndFromWebhook, SetBooking,
   Recognize

LEMMA DropEventKnows == ASSUME TypeInv, Knows, NEW e \in Sent, DropEvent(e) PROVE Knows'
BY DEF Knows, CallsKnow, RecognizedOnce, PaysOnlyCompleted, NobodyIsForgotten, DropEvent,
   tables, calls

LEMMA TimePassesKnows == ASSUME TypeInv, Knows, TimePasses PROVE Knows'
BY DEF Knows, CallsKnow, RecognizedOnce, PaysOnlyCompleted, NobodyIsForgotten, TimePasses, calls

LEMMA EndReadKnows == ASSUME TypeInv, Knows, NEW p \in Ender, EndRead(p) PROVE Knows'
BY DEF Knows, CallsKnow, RecognizedOnce, PaysOnlyCompleted, NobodyIsForgotten, EndRead, tables

LEMMA EndCommitKnows == ASSUME TypeInv, Knows, NEW p \in Ender, EndCommit(p) PROVE Knows'
BY DEF Knows, CallsKnow, RecognizedOnce, PaysOnlyCompleted, NobodyIsForgotten, Decided,
   EndCommit, SetBooking, Recognize

LEMMA EndRefusedKnows == ASSUME TypeInv, Knows, NEW p \in Ender, EndRefused(p) PROVE Knows'
BY DEF Knows, CallsKnow, RecognizedOnce, PaysOnlyCompleted, NobodyIsForgotten, Idle, EndRefused,
   tables

LEMMA EndFinalizeKnows == ASSUME TypeInv, Knows, NEW p \in Ender, EndFinalize(p) PROVE Knows'
BY DEF Knows, CallsKnow, RecognizedOnce, PaysOnlyCompleted, NobodyIsForgotten, EndFinalize

LEMMA EnderStopsKnows == ASSUME TypeInv, Knows, NEW p \in Ender, EnderStops(p) PROVE Knows'
BY DEF Knows, CallsKnow, RecognizedOnce, PaysOnlyCompleted, NobodyIsForgotten, TypeInv,
   TablesOK, Idle, EnderStops, tables, Fails

LEMMA CronReadKnows == ASSUME TypeInv, Knows, NEW c \in Cron, CronRead(c) PROVE Knows'
BY DEF Knows, CallsKnow, RecognizedOnce, PaysOnlyCompleted, NobodyIsForgotten, Idle, CronRead,
   tables

LEMMA CronCloseKnows == ASSUME TypeInv, Knows, NEW c \in Cron, CronClose(c) PROVE Knows'
BY DEF Knows, CallsKnow, RecognizedOnce, PaysOnlyCompleted, NobodyIsForgotten, TypeInv, CallsOK,
   Idle, CronClose

LEMMA CronSkipsKnows == ASSUME TypeInv, Knows, NEW c \in Cron, CronSkips(c) PROVE Knows'
BY DEF Knows, CallsKnow, RecognizedOnce, PaysOnlyCompleted, NobodyIsForgotten, Idle, CronSkips,
   tables

LEMMA CronCompleteKnows == ASSUME TypeInv, Knows, NEW c \in Cron, CronComplete(c) PROVE Knows'
BY DEF Knows, CallsKnow, RecognizedOnce, PaysOnlyCompleted, NobodyIsForgotten, TypeInv, CallsOK,
   Idle, Decided, CronComplete, SetBooking, Recognize, MayBecome

LEMMA CronFinalizeKnows == ASSUME TypeInv, Knows, NEW c \in Cron, CronFinalize(c) PROVE Knows'
BY DEF Knows, CallsKnow, RecognizedOnce, PaysOnlyCompleted, NobodyIsForgotten, CronFinalize

LEMMA CronStopsKnows == ASSUME TypeInv, Knows, NEW c \in Cron, CronStops(c) PROVE Knows'
BY DEF Knows, CallsKnow, RecognizedOnce, PaysOnlyCompleted, NobodyIsForgotten, TypeInv,
   TablesOK, Idle, CronStops, tables, Fails

LEMMA MarkBeginKnows == ASSUME TypeInv, Knows, NEW m \in Marker, MarkBegin(m) PROVE Knows'
BY DEF Knows, CallsKnow, RecognizedOnce, PaysOnlyCompleted, NobodyIsForgotten, MarkBegin, tables

LEMMA MarkBookingKnows == ASSUME TypeInv, Knows, NEW m \in Marker, MarkBooking(m) PROVE Knows'
BY DEF Knows, CallsKnow, RecognizedOnce, PaysOnlyCompleted, NobodyIsForgotten, TypeInv, CallsOK,
   Idle, Decided, MarkBooking, SetBooking, Recognize, MayBecome

LEMMA MarkSessionKnows == ASSUME TypeInv, Knows, NEW m \in Marker, MarkSession(m) PROVE Knows'
BY DEF Knows, CallsKnow, RecognizedOnce, PaysOnlyCompleted, NobodyIsForgotten, Decided,
   MarkSession

LEMMA MarkerStopsKnows == ASSUME TypeInv, Knows, NEW m \in Marker, MarkerStops(m) PROVE Knows'
BY DEF Knows, CallsKnow, RecognizedOnce, PaysOnlyCompleted, NobodyIsForgotten, TypeInv,
   TablesOK, Idle, MarkerStops, tables, Fails

LEMMA InstantBookKnows == ASSUME TypeInv, Knows, InstantBook PROVE Knows'
BY DEF Knows, CallsKnow, RecognizedOnce, PaysOnlyCompleted, NobodyIsForgotten, Decided,
   InstantBook, SetBooking, Recognize

LEMMA InstantRoomKnows == ASSUME TypeInv, Knows, InstantRoom PROVE Knows'
BY DEF Knows, CallsKnow, RecognizedOnce, PaysOnlyCompleted, NobodyIsForgotten, InstantRoom,
   tables

LEMMA InstantSessionKnows == ASSUME TypeInv, Knows, InstantSession PROVE Knows'
BY FreshRow DEF Knows, CallsKnow, RecognizedOnce, PaysOnlyCompleted, NobodyIsForgotten,
   InstantSession

LEMMA InstantCancelKnows == ASSUME TypeInv, Knows, InstantCancel PROVE Knows'
BY DEF Knows, CallsKnow, RecognizedOnce, PaysOnlyCompleted, NobodyIsForgotten, Decided,
   InstantCancel, SetBooking, Recognize, MayBecome

LEMMA StarterStopsKnows == ASSUME TypeInv, Knows, StarterStops PROVE Knows'
BY DEF Knows, CallsKnow, RecognizedOnce, PaysOnlyCompleted, NobodyIsForgotten, TypeInv,
   TablesOK, StarterStops, tables, Fails

LEMMA DecideKnows == ASSUME TypeInv, Knows, NEW s \in Decided, Decide(s) PROVE Knows'
BY DEF Knows, CallsKnow, RecognizedOnce, PaysOnlyCompleted, NobodyIsForgotten, Decide, calls,
   SetBooking, Recognize

LEMMA AttestKnows == ASSUME TypeInv, Knows, Attest PROVE Knows'
BY DEF Knows, CallsKnow, RecognizedOnce, PaysOnlyCompleted, NobodyIsForgotten, Attest, calls,
   Finalize

LEMMA StepKnows == ASSUME TypeInv, Knows, [SessionNext]_sessionVars PROVE Knows'
<1>1. CASE RoomStep
    BY <1>1, JoinKnows, LeaveKnows, TrackJoinedKnows, TrackLeftKnows, RecreateRoomKnows,
       WebhookKnows, DropEventKnows DEF RoomStep
<1>2. CASE TimePasses
    BY <1>2, TimePassesKnows
<1>3. CASE EndStep
    BY <1>3, EndReadKnows, EndCommitKnows, EndRefusedKnows, EndFinalizeKnows, EnderStopsKnows
    DEF EndStep
<1>4. CASE CronStep
    BY <1>4, CronReadKnows, CronCloseKnows, CronSkipsKnows, CronCompleteKnows,
       CronFinalizeKnows, CronStopsKnows DEF CronStep, CronWorks
<1>5. CASE MarkStep
    BY <1>5, MarkBeginKnows, MarkBookingKnows, MarkSessionKnows, MarkerStopsKnows DEF MarkStep
<1>6. CASE InstantStep
    BY <1>6, InstantBookKnows, InstantRoomKnows, InstantSessionKnows, InstantCancelKnows,
       StarterStopsKnows DEF InstantStep
<1>7. CASE (\E s \in Decided : Decide(s)) \/ Attest
    BY <1>7, DecideKnows, AttestKnows
<1>8. CASE UNCHANGED sessionVars
    BY <1>8 DEF Knows, CallsKnow, RecognizedOnce, PaysOnlyCompleted, NobodyIsForgotten,
       sessionVars, tables, calls
<1> QED BY <1>1, <1>2, <1>3, <1>4, <1>5, <1>6, <1>7, <1>8 DEF SessionNext

-----------------------------------------------------------------------------
LEMMA SessionInvariant == SessionSpec => []SessionInv
<1>1. SessionInit => SessionInv
    BY InitInv
<1>2. SessionInv /\ [SessionNext]_sessionVars => SessionInv'
    BY StepTypes, StepKnows DEF SessionInv
<1> QED BY <1>1, <1>2, PTL DEF SessionSpec

\* The rows keep their order: whatever the webhooks, the button, the cron and
\* the no-show write with instants taken long before, no session ends before it
\* starts or lies in the future, and every event on record was sent.
THEOREM SessionTypes == SessionSpec => []SessionTypeOK
<1>1. SessionInv => SessionTypeOK
    BY DEF SessionInv, TypeInv, TablesOK, VideoOK, Row, SessionTypeOK
<1> QED BY <1>1, SessionInvariant, PTL

\* Of any number of administrators, crons and webhooks that complete a booking,
\* one is counted: the teacher's total and the revenue never take it twice.
THEOREM CountedOnce == SessionSpec => []RecognizedOnce
<1>1. SessionInv => RecognizedOnce
    BY DEF SessionInv, Knows
<1> QED BY <1>1, SessionInvariant, PTL

\* finalize_attendance from endSession or the cron pays for a completed booking:
\* nothing undoes the completion between its commit and the later call.
THEOREM PaidForCompleted == SessionSpec => []PaysOnlyCompleted
<1>1. SessionInv => PaysOnlyCompleted
    BY DEF SessionInv, Knows
<1> QED BY <1>1, SessionInvariant, PTL

\* Unless a call fails for good, no interleaving leaves a confirmed booking with
\* nobody to decide it, but for the cron that saw no teacher.
THEOREM NobodyForgotten == SessionSpec => []NobodyIsForgotten
<1>1. SessionInv => NobodyIsForgotten
    BY DEF SessionInv, Knows
<1> QED BY <1>1, SessionInvariant, PTL
=============================================================================
