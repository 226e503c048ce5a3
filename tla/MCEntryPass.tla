----------------------------- MODULE MCEntryPass -----------------------------
(***************************************************************************)
(* Instances of EntryPass for TLC: two underlyings of one group, puts and  *)
(* calls on one and a put on the other.                                    *)
(***************************************************************************)
EXTENDS EntryPass

Symbols  == {"SPY", "QQQ"}
Group(u) == Symbols

Spr(u, right, short, long, loss) ==
  [u |-> u, right |-> right, short |-> short, long |-> long, loss |-> loss]
Spreads == { Spr("SPY", "put", 95, 90, 2), Spr("SPY", "call", 105, 110, 3), Spr("QQQ", "put", 95, 90, 2) }

\* Caps of two spreads, all in one group; a trade may lose 6 dollars, a day 10;
\* no side holds more than 3/5 of the risk; two losses that cost 2 stop the entries.
Rules ==
  [ max_open_positions |-> 2, max_per_underlying |-> 2, max_per_group |-> 2,
    cooldown_seconds |-> 2, group_cooldown_seconds |-> 1,
    max_consecutive_losses |-> 2, breaker_min_loss |-> 2, max_daily_loss |-> 3,
    max_loss |-> 6, daily_budget |-> 10, share_num |-> 3, share_den |-> 5,
    max_net_delta |-> 4, contract_delta |-> 1 ]

StraySpreads == { Spr("SPY", "put", 95, 90, 2) }
Outcomes     == {-2}
Fills        == {-1, 1}         \* above and below the mid

=============================================================================
