------------------------------ MODULE MCSessions ------------------------------
(* Instance of one session for TLC. *)
EXTENDS SessionLifecycle

CONSTANTS e1, c1, c2, m1

MCCasts ==
    { {c1, e1, m1, "fault"},
      {c1, e1, "admin", "fault"},
      {c1, m1, "admin", "fault"},
      {c1, c2, e1, "fault"},
      {c1, c2, m1},
      {c1, e1, "room", "lost"},
      {c1, "instant", "room", "fault"},
      {c1, m1, "instant", "admin"},
      {c1, "again", e1} }
=============================================================================
