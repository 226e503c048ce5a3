----------------------------- MODULE MCExitWatch -----------------------------
(***************************************************************************)
(* Instance of ExitWatch for TLC: three days, the defaults of the registry *)
(* and three variations of them.                                           *)
(***************************************************************************)
EXTENDS ExitWatch

At(day, to_close) == [day |-> day, to_close |-> to_close]
\* Half an hour before the close; an hour before the close of the day before the
\* expiry, where the near take-profit begins; half an hour and a little before it,
\* which a tick rounds to half an hour; and the day of expiry.
Passing == << At(0, 1800), At(1, 3600), At(1, 1814), At(2, 19800) >>

Fixed ==
  [ stop_delta |-> 45000, stop_mult |-> 10000, take_profit_far |-> 5000, take_profit_near |-> 2500,
    take_profit_step |-> 86400, trail_activation |-> 3000, trail_giveback |-> 700, trail_vol_ref |-> 0,
    overnight_mode |-> "flat", flatten_before_close |-> 1800,
    overnight_max_short_delta |-> 35000, overnight_net_delta |-> 300 ]
ParamSets ==
  { Fixed, [Fixed EXCEPT !.trail_vol_ref = 8000], [Fixed EXCEPT !.overnight_mode = "delta"],
    [Fixed EXCEPT !.stop_delta = 30002] }

\* One that four decimals put at the stop, and one they put under the last variation's.
ShortDeltas == {30004, 44996}

=============================================================================
