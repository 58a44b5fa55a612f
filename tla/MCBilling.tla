------------------------------ MODULE MCBilling ------------------------------
(* Instance of the webhook route for TLC. *)
EXTENDS StripeBilling, TLC

CONSTANTS c1, c2, c3, p1, p2, p3, d1, d2, u1, u2, k1, k2, k3, r1, r2

MCSessions == (p1 :> 2 @@ p2 :> 4 @@ p3 :> 8)
MCTarget == (d1 :> p2 @@ d2 :> p3 @@ u1 :> p2 @@ u2 :> p3)

\* Without <<"fault">> no call of the agenda fails.
MCAgendas ==
    { {<<"create">>, <<"pay", c1>>, <<"fault">>},
      {<<"pay", c1>>, <<"schedule", d1>>, <<"fault">>},
      {<<"pay", c1>>, <<"schedule", d1>>, <<"schedule", d2>>},
      {<<"pay", c1>>, <<"refund", c1>>, <<"fault">>},
      {<<"pay", c1>>, <<"refund", c1>>, <<"pay", c2>>},
      {<<"decline", c1>>, <<"fault">>},
      {<<"decline", c1>>, <<"pay", c1>>},
      {<<"decline", c1>>, <<"touch">>},
      {<<"pay", c1>>, <<"pay", c2>>, <<"schedule", d1>>},
      {<<"pay", c3>>, <<"fault">>},
      {<<"upgrade", u1>>, <<"pay", p2>>, <<"fault">>},
      {<<"upgrade", u1>>, <<"pay", p2>>, <<"touch">>},
      {<<"upgrade", u1>>, <<"upgrade", u2>>},
      {<<"charge", k1>>, <<"again", k1>>},
      {<<"charge", k1>>, <<"charge", k2>>},
      {<<"charge", k1>>, <<"charge", k3>>},
      {<<"charge", k1>>, <<"cancelled", k1>>, <<"charge", k2>>},
      {<<"charge", k1>>, <<"refund", r1, k1>>, <<"fault">>},
      {<<"charge", k1>>, <<"refund", r1, k1>>, <<"refund", r2, k1>>},
      {<<"charge", k1>>, <<"dashboard", k1>>, <<"refund", r1, k1>>, <<"completed", k1>>} }

MCDeclinedAgendas == { {<<"upgrade", u1>>, <<"upgrade", u2>>, <<"pay", p2>>} }
=============================================================================
