-------------------------- MODULE SessionLifecycle --------------------------
(***************************************************************************)
(* One booking and its session, from a confirmed or instant start to the   *)
(* end: the video room and its webhooks, the parties' own tracking, the    *)
(* teacher or administrator who ends it, the teacher who marks a no-show   *)
(* and the cron that closes what nobody did.  Sessions share nothing, so   *)
(* one is modelled.                                                        *)
(*                                                                         *)
(* Instants are positions: a start takes the next number, an end the last  *)
(* one taken, so that later is greater and an end never ties with the      *)
(* start after it.  0 is NULL.                                             *)
(***************************************************************************)
EXTENDS Naturals, Sequences

CONSTANTS
    Ender,          \* calls of endSession
    Cron,           \* runs of the auto-complete cron that may overlap
    Marker,         \* calls of recordNoShow
    MaxMeetings,    \* bound: meetings the parties hold
    MaxRooms,       \* bound: rooms the session has had
    MaxFaults,      \* bound: calls that fail for good, and deaths
    MaxLost,        \* bound: events answered 200 and dropped
    Casts           \* bound: the calls and occurrences one behaviour may see together

Occurrence == {"instant", "admin", "again", "room", "lost", "fault"}

ASSUME SessionAssumption ==
    /\ MaxMeetings \in Nat /\ MaxRooms \in Nat \ {0}
    /\ MaxFaults \in Nat /\ MaxLost \in Nat
    /\ Casts \subseteq SUBSET (Occurrence \cup Ender \cup Cron \cup Marker)
    /\ \A some \in Casts : some \cap Cron # {}

VARIABLES
    booking,    \* bookings.status, "none" before an instant start
    session,    \* the sessions row
    late,       \* more than twice the planned time has passed since started_at
    delivery,   \* session_deliveries: who had the row written, "none" without it
    recognized, \* how often the completion was counted and its revenue recognized
    bare,       \* history: the cron closed the session and left the booking alone
    clock,      \* the last instant taken
    meeting,    \* the video service: the meetings held, in order
    here,       \* the parties in the running meeting
    acked, seen,    \* its events: answered 200, and in daily_webhook_events
    ender, cron, marker, starter,   \* where each call stands
    faults, lost,
    cast        \* what this behaviour may see

tables == <<booking, session, late, delivery, recognized, bare>>
video == <<clock, meeting, here>>
events == <<acked, seen, lost>>
calls == <<ender, cron, marker, starter>>
sessionVars == <<tables, video, events, calls, faults, cast>>

Party == {"teacher", "student"}
Decided == {"completed", "no_show", "cancelled"}
NewSession == [exists |-> TRUE, room |-> 1, entry |-> 1,
               started |-> 0, ended |-> 0, joined |-> {}]
NoSession == [NewSession EXCEPT !.exists = FALSE]

Running == meeting # <<>> /\ meeting[Len(meeting)].to = 0
Sent == ((DOMAIN meeting) \X {"started"})
            \cup ({m \in DOMAIN meeting : meeting[m].to # 0} \X {"ended"})

Idle == [at |-> "idle"]
SessionInit ==
    /\ cast \in Casts
    /\ IF "instant" \in cast THEN booking = "none" /\ session = NoSession
       ELSE booking = "confirmed" /\ session = NewSession
    /\ late = FALSE /\ delivery = "none" /\ recognized = 0 /\ bare = FALSE
    /\ clock = 1 /\ meeting = <<>> /\ here = {}
    /\ acked = {} /\ seen = {} /\ faults = 0 /\ lost = 0
    /\ ender = [p \in Ender |-> Idle] /\ cron = [c \in Cron |-> Idle]
    /\ marker = [m \in Marker |-> Idle] /\ starter = "idle"

----------------------------------------------------------------------------
(* What the tables do on every write. *)

\* session_time_order: a row whose end is not after its start is refused.
InOrder(started, ended) == started = 0 \/ ended = 0 \/ started <= ended

\* validate_booking_status: a decided booking keeps its status.
MayBecome(status) == booking \in {"confirmed", status}

\* Mutant: the trigger does not look at the old status.
Recognize_EveryUpdate(status) ==
    recognized' = IF status = "completed" /\ recognized < 2
                  THEN recognized + 1 ELSE recognized

\* t_inc_teacher_sessions fires when a booking becomes completed.
Recognize(status) ==
    recognized' = IF status = "completed" /\ booking # "completed"
                  THEN recognized + 1 ELSE recognized

SetBooking(status) == booking' = status /\ Recognize(status)

\* finalize_attendance(present): one delivery for a session that exists.
Finalize(by) ==
    delivery' = IF session.exists /\ delivery = "none" THEN by ELSE delivery

Fails == "fault" \in cast /\ faults < MaxFaults /\ faults' = faults + 1

----------------------------------------------------------------------------
(* The parties and their room. *)

\* A token is issued while the booking is confirmed and outlives its end.
Join(p) ==
    /\ session.exists /\ session.entry = session.room /\ p \notin here
    /\ IF Running
       THEN meeting[Len(meeting)].room = session.room /\ UNCHANGED <<clock, meeting>>
       ELSE /\ Len(meeting) < IF "again" \in cast THEN MaxMeetings ELSE 1
            /\ clock' = clock + 1
            /\ meeting' = Append(meeting, [room |-> session.room, from |-> clock + 1,
                                           to |-> 0, long |-> FALSE])
    /\ here' = here \cup {p}
    /\ UNCHANGED <<tables, events, calls, faults, cast>>

\* The last one out ends the meeting, after five minutes or before.
Leave(p) ==
    /\ p \in here
    /\ here' = here \ {p}
    /\ IF here = {p}
       THEN \E long \in BOOLEAN :
                meeting' = [meeting EXCEPT ![Len(meeting)].to = clock,
                                           ![Len(meeting)].long = long]
       ELSE UNCHANGED meeting
    /\ UNCHANGED <<tables, clock, events, calls, faults, cast>>

\* trackSessionEvent(joined) sets the flag and then started_at unless it is set;
\* the second write may fail, and does on a session that has ended.
TrackJoined(p) ==
    /\ p \in here \ session.joined
    /\ \/ /\ session' = [session EXCEPT !.joined = @ \cup {p}]
          /\ UNCHANGED clock
       \/ /\ session.started = 0 /\ InOrder(clock + 1, session.ended)
          /\ session' = [session EXCEPT !.joined = @ \cup {p}, !.started = clock + 1]
          /\ clock' = clock + 1
    /\ UNCHANGED <<booking, late, delivery, recognized, bare, meeting, here, events, calls, faults, cast>>

TrackLeft(p) ==
    /\ p \in session.joined \ here
    /\ session' = [session EXCEPT !.joined = @ \ {p}]
    /\ UNCHANGED <<booking, late, delivery, recognized, bare, video, events, calls, faults, cast>>

\* recreateRoom and adminRecreateRoom: a new room, or the session an instant
\* start did not come to insert.
RecreateRoom ==
    /\ "room" \in cast
    /\ \/ /\ session.exists /\ session.room < MaxRooms
          /\ session' = [session EXCEPT !.room = @ + 1,
                            !.entry = IF booking = "confirmed" THEN session.room + 1 ELSE @]
       \/ /\ ~session.exists /\ booking \in {"confirmed", "completed"}
          /\ session' = NewSession
    /\ UNCHANGED <<booking, late, delivery, recognized, bare, video, events, calls, faults, cast>>

TimePasses ==
    /\ session.started # 0 /\ session.ended = 0 /\ ~late
    /\ late' = TRUE
    /\ UNCHANGED <<booking, session, delivery, recognized, bare, video, events, calls, faults, cast>>

----------------------------------------------------------------------------
(* The webhooks of the video service, resent until they are answered 200. *)

\* Mutant: the row has no constraint on the order of its instants.
StartFromWebhook_Unordered(m) ==
    /\ session' = [session EXCEPT !.started = m.from]
    /\ late' = (late /\ session.started = m.from)
    /\ UNCHANGED <<booking, recognized>>

\* start_session_from_webhook
StartFromWebhook(m) ==
    /\ InOrder(m.from, session.ended)
    /\ session' = [session EXCEPT !.started = m.from]
    /\ late' = (late /\ session.started = m.from)
    /\ UNCHANGED <<booking, recognized>>

\* Mutant: a meeting too short to count ends the session and decides nothing.
EndFromWebhook_KeepsMisclicks(m) ==
    LET started == IF session.started = 0 THEN m.from ELSE session.started IN
    /\ InOrder(started, m.to)
    /\ session' = [session EXCEPT !.started = started, !.ended = m.to]
    /\ IF booking = "confirmed" /\ m.long
       THEN SetBooking("completed")
       ELSE UNCHANGED <<booking, recognized>>
    /\ UNCHANGED late

\* end_session_from_webhook: only a confirmed booking is decided.
EndFromWebhook(m) ==
    LET started == IF session.started = 0 THEN m.from ELSE session.started IN
    /\ InOrder(started, m.to)
    /\ session' = [session EXCEPT !.started = started, !.ended = m.to]
    /\ IF booking = "confirmed"
       THEN SetBooking(IF m.long THEN "completed" ELSE "no_show")
       ELSE UNCHANGED <<booking, recognized>>
    /\ UNCHANGED late

\* The answer may be lost; a known event is only answered.
Webhook(e) ==
    /\ e \in Sent \ acked /\ session.exists
    /\ meeting[e[1]].room = session.room
    /\ \/ /\ e \in seen
          /\ acked' = acked \cup {e}
          /\ UNCHANGED <<booking, session, late, recognized, seen>>
       \/ /\ e \notin seen
          /\ seen' = seen \cup {e}
          /\ acked' \in {acked, acked \cup {e}}
          /\ IF e[2] = "started" THEN StartFromWebhook(meeting[e[1]])
             ELSE EndFromWebhook(meeting[e[1]])
    /\ UNCHANGED <<delivery, bare, video, lost, calls, faults, cast>>

\* Answered 200 without effect: the room is no longer the session's, the lookup
\* failed, or the event is more than fifteen minutes old.
DropEvent(e) ==
    /\ e \in Sent \ acked
    /\ \/ meeting[e[1]].room # session.room /\ UNCHANGED lost
       \/ "lost" \in cast /\ lost < MaxLost /\ lost' = lost + 1
    /\ acked' = acked \cup {e}
    /\ UNCHANGED <<tables, video, seen, calls, faults, cast>>

----------------------------------------------------------------------------
(* endSession, of the teacher or an administrator. *)

EndRead(p) ==
    /\ p \in cast /\ ender[p] = Idle /\ session.exists /\ session.ended = 0
    /\ ender' = [ender EXCEPT ![p] = [at |-> "ending", started |-> session.started # 0]]
    /\ UNCHANGED <<tables, video, events, cron, marker, starter, faults, cast>>

\* end_session_with_booking, one transaction ...
EndCommit(p) ==
    /\ ender[p].at = "ending"
    /\ session.ended = 0 /\ MayBecome("completed")
    /\ session' = [session EXCEPT !.ended = clock]
    /\ SetBooking("completed")
    /\ ender' = [ender EXCEPT ![p] = IF @.started THEN [at |-> "finalizing"] ELSE Idle]
    /\ UNCHANGED <<late, delivery, bare, video, events, cron, marker, starter, faults, cast>>

\* ... that another closer or the booking's status turns down.
EndRefused(p) ==
    /\ ender[p].at = "ending"
    /\ session.ended # 0 \/ ~MayBecome("completed")
    /\ ender' = [ender EXCEPT ![p] = Idle]
    /\ UNCHANGED <<tables, video, events, cron, marker, starter, faults, cast>>

EndFinalize(p) ==
    /\ ender[p].at = "finalizing"
    /\ Finalize("end")
    /\ ender' = [ender EXCEPT ![p] = Idle]
    /\ UNCHANGED <<booking, session, late, recognized, bare, video, events,
                   cron, marker, starter, faults, cast>>

EnderStops(p) ==
    /\ ender[p] # Idle /\ Fails
    /\ ender' = [ender EXCEPT ![p] = Idle]
    /\ UNCHANGED <<tables, video, events, cron, marker, starter, cast>>

----------------------------------------------------------------------------
(* The auto-complete cron.  Its instant and the flags are those of its read. *)

\* Mutant: the batch is of confirmed bookings.
Stranded_Confirmed == session.exists /\ session.started # 0 /\ session.ended = 0
                          /\ booking = "confirmed"

Stranded == session.exists /\ session.started # 0 /\ session.ended = 0

CronRead(c) ==
    /\ c \in cast /\ cron[c] = Idle /\ Stranded /\ late
    /\ cron' = [cron EXCEPT ![c] = [at |-> "closing", now |-> clock, joined |-> session.joined]]
    /\ UNCHANGED <<tables, video, events, ender, marker, starter, faults, cast>>

\* A session the teacher is not flagged in is closed and its booking left alone.
CronClose(c) ==
    /\ cron[c].at = "closing"
    /\ session.ended = 0 /\ InOrder(session.started, cron[c].now)
    /\ session' = [session EXCEPT !.ended = cron[c].now]
    /\ IF "teacher" \in cron[c].joined
       THEN cron' = [cron EXCEPT ![c] = [at |-> "completing", joined |-> @.joined]] /\ UNCHANGED bare
       ELSE cron' = [cron EXCEPT ![c] = Idle] /\ bare' = TRUE
    /\ UNCHANGED <<booking, late, delivery, recognized, video, events,
                   ender, marker, starter, faults, cast>>

CronSkips(c) ==
    /\ cron[c].at = "closing"
    /\ session.ended # 0 \/ ~InOrder(session.started, cron[c].now)
    /\ cron' = [cron EXCEPT ![c] = Idle]
    /\ UNCHANGED <<tables, video, events, ender, marker, starter, faults, cast>>

\* Mutant: the error of the booking's update is logged, and the cron goes on.
CronComplete_GoesOn(c) ==
    /\ cron[c].at = "completing"
    /\ IF MayBecome("completed") THEN SetBooking("completed")
       ELSE UNCHANGED <<booking, recognized>>
    /\ cron' = [cron EXCEPT ![c] = IF "student" \in @.joined THEN [at |-> "finalizing"] ELSE Idle]
    /\ UNCHANGED <<session, late, delivery, bare, video, events, ender, marker, starter, faults, cast>>

CronComplete(c) ==
    /\ cron[c].at = "completing"
    /\ IF MayBecome("completed")
       THEN /\ SetBooking("completed")
            /\ cron' = [cron EXCEPT ![c] =
                            IF "student" \in @.joined THEN [at |-> "finalizing"] ELSE Idle]
       ELSE cron' = [cron EXCEPT ![c] = Idle] /\ UNCHANGED <<booking, recognized>>
    /\ UNCHANGED <<session, late, delivery, bare, video, events, ender, marker, starter, faults, cast>>

CronFinalize(c) ==
    /\ cron[c].at = "finalizing"
    /\ Finalize("cron")
    /\ cron' = [cron EXCEPT ![c] = Idle]
    /\ UNCHANGED <<booking, session, late, recognized, bare, video, events,
                   ender, marker, starter, faults, cast>>

CronStops(c) ==
    /\ cron[c] # Idle /\ Fails
    /\ cron' = [cron EXCEPT ![c] = Idle]
    /\ UNCHANGED <<tables, video, events, ender, marker, starter, cast>>

----------------------------------------------------------------------------
(* recordNoShow: the booking first, then the session, whatever it says. *)

MarkBegin(m) ==
    /\ m \in cast /\ marker[m] = Idle /\ booking # "none"
    /\ marker' = [marker EXCEPT ![m] = [at |-> "booking", now |-> clock]]
    /\ UNCHANGED <<tables, video, events, ender, cron, starter, faults, cast>>

MarkBooking(m) ==
    /\ marker[m].at = "booking"
    /\ IF MayBecome("no_show")
       THEN SetBooking("no_show") /\ marker' = [marker EXCEPT ![m].at = "session"]
       ELSE marker' = [marker EXCEPT ![m] = Idle] /\ UNCHANGED <<booking, recognized>>
    /\ UNCHANGED <<session, late, delivery, bare, video, events, ender, cron, starter, faults, cast>>

MarkSession(m) ==
    /\ marker[m].at = "session"
    /\ IF session.exists /\ InOrder(session.started, marker[m].now)
       THEN session' = [session EXCEPT !.ended = marker[m].now]
       ELSE UNCHANGED session
    /\ marker' = [marker EXCEPT ![m] = Idle]
    /\ UNCHANGED <<booking, late, delivery, recognized, bare, video, events,
                   ender, cron, starter, faults, cast>>

MarkerStops(m) ==
    /\ marker[m] # Idle /\ Fails
    /\ marker' = [marker EXCEPT ![m] = Idle]
    /\ UNCHANGED <<tables, video, events, ender, cron, starter, cast>>

----------------------------------------------------------------------------
(* startInstantSession: debit and booking, the room, the session. *)

InstantBook ==
    /\ booking = "none"
    /\ SetBooking("confirmed")
    /\ starter' = "room"
    /\ UNCHANGED <<session, late, delivery, bare, video, events, ender, cron, marker, faults, cast>>

InstantRoom ==
    /\ starter = "room"
    /\ starter' \in {"session", "cancel"}
    /\ UNCHANGED <<tables, video, events, ender, cron, marker, faults, cast>>

\* guard_session and the unique booking_id may turn the insert down; so may a
\* failing call.
InstantSession ==
    /\ starter = "session"
    /\ \/ /\ booking \in {"confirmed", "completed"} /\ ~session.exists
          /\ session' = NewSession
          /\ starter' = "idle"
       \/ starter' = "cancel" /\ UNCHANGED session
    /\ UNCHANGED <<booking, late, delivery, recognized, bare, video, events,
                   ender, cron, marker, faults, cast>>

\* The cancellation gives the debit back; its own failure is only logged.
InstantCancel ==
    /\ starter = "cancel"
    /\ IF MayBecome("cancelled") THEN SetBooking("cancelled")
       ELSE UNCHANGED <<booking, recognized>>
    /\ starter' = "idle"
    /\ UNCHANGED <<session, late, delivery, bare, video, events, ender, cron, marker, faults, cast>>

StarterStops ==
    /\ starter # "idle" /\ Fails
    /\ starter' = "idle"
    /\ UNCHANGED <<tables, video, events, ender, cron, marker, cast>>

----------------------------------------------------------------------------
(* Administrators. *)

\* updateBookingStatus of a cancellation or the bulk route: the session stays.
Decide(status) ==
    /\ "admin" \in cast
    /\ booking = "confirmed"
    /\ SetBooking(status)
    /\ UNCHANGED <<session, late, delivery, bare, video, events, calls, faults, cast>>

\* The attendance route attests a delivery, whatever became of the booking.
Attest ==
    /\ "admin" \in cast
    /\ session.exists /\ delivery = "none"
    /\ Finalize("admin")
    /\ UNCHANGED <<booking, session, late, recognized, bare, video, events, calls, faults, cast>>

----------------------------------------------------------------------------
RoomStep ==
    \/ \E p \in Party : Join(p) \/ Leave(p) \/ TrackJoined(p) \/ TrackLeft(p)
    \/ RecreateRoom
    \/ \E e \in Sent : Webhook(e) \/ DropEvent(e)

EndStep ==
    \E p \in Ender : EndRead(p) \/ EndCommit(p) \/ EndRefused(p) \/ EndFinalize(p) \/ EnderStops(p)

CronWorks(c) == CronClose(c) \/ CronSkips(c) \/ CronComplete(c) \/ CronFinalize(c)
CronStep == \E c \in Cron : CronRead(c) \/ CronWorks(c) \/ CronStops(c)

MarkStep ==
    \E m \in Marker : MarkBegin(m) \/ MarkBooking(m) \/ MarkSession(m) \/ MarkerStops(m)

InstantStep ==
    InstantBook \/ InstantRoom \/ InstantSession \/ InstantCancel \/ StarterStops

SessionNext ==
    \/ RoomStep \/ TimePasses \/ EndStep \/ CronStep \/ MarkStep \/ InstantStep
    \/ \E status \in Decided : Decide(status)
    \/ Attest

SessionSpec == SessionInit /\ [][SessionNext]_sessionVars

\* Time passes and the cron comes round every quarter of an hour.
FairSessions ==
    /\ SessionSpec
    /\ WF_sessionVars(TimePasses)
    /\ \A c \in Cron : WF_sessionVars(CronRead(c)) /\ WF_sessionVars(CronWorks(c))

----------------------------------------------------------------------------
(* What holds. *)

\* The columns hold what the schema admits, and their order is kept.
SessionTypeOK ==
    /\ booking \in {"none", "confirmed"} \cup Decided
    /\ session.room \in 1 .. MaxRooms /\ session.joined \subseteq Party
    /\ session.started \in 0 .. clock /\ session.ended \in 0 .. clock
    /\ InOrder(session.started, session.ended)
    /\ delivery \in {"none", "end", "cron", "admin"}
    /\ acked \subseteq Sent /\ seen \subseteq Sent
    /\ faults \in 0 .. MaxFaults /\ lost \in 0 .. MaxLost

\* A booking is completed once for the teacher's count and the revenue, however
\* many of the webhook, the button, the cron and the administrator complete it.
RecognizedOnce == recognized = IF booking = "completed" THEN 1 ELSE 0

\* No automatic path pays a teacher for a session that ended as a no-show or
\* was cancelled meanwhile: what it paid for stays a completed booking.
PaysOnlyCompleted == delivery \in {"end", "cron"} => booking = "completed"

\* Without a fault, a confirmed booking has a session still to end, or somebody
\* about to decide it; only the cron that saw no teacher leaves one behind.
NobodyIsForgotten ==
    booking = "confirmed" /\ faults = 0 =>
        \/ session.exists /\ session.ended = 0
        \/ bare
        \/ \E c \in Cron : cron[c].at = "completing"
        \/ starter # "idle"

\* Every session that started is ended, whoever forgets it and whatever events
\* are lost.
SessionsClose == session.exists /\ session.started # 0 ~> session.ended # 0
=============================================================================
