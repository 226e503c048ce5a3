----------------------------- MODULE MCEntryCycle -----------------------------
(***************************************************************************)
(* Instances of EntryCycle for TLC: an underlying near 770 dollars, with   *)
(* one chain for each way a side can come out.                             *)
(***************************************************************************)
EXTENDS EntryCycle

\* Prices in cents, strikes in dollars, as a chain lists them.
Put(strike, bid, ask, delta, oi, volume) ==
  [right |-> "put", strike |-> strike * Dollar, bid |-> bid * Cent, ask |-> ask * Cent,
   delta |-> delta, oi |-> oi, volume |-> volume]

AtTheMoney == Put(768, 250, 260, 30, 900, 0)
Farther    == Put(763, 130, 141, 20, 900, 0)
Farthest   == Put(758, 30, 33, 9, 120, 40)

Ladder     == { AtTheMoney, Farther, Farthest }
Gap        == { AtTheMoney, Put(763, 90, 180, 20, 900, 0), Put(760, 50, 56, 14, 900, 0), Farthest }
TooFar     == { AtTheMoney, Put(763, 130, 141, 20, 60, 50), Put(758, 30, 33, 9, 120, 5), Put(750, 10, 11, 4, 900, 0) }
Tied       == { Put(768, 250, 260, 32, 900, 0), Put(766, 205, 216, 28, 900, 0), Put(762, 110, 121, 18, 900, 0) }
Poor       == { Put(768, 160, 170, 30, 900, 0), Put(763, 130, 141, 20, 900, 0), Put(758, 101, 110, 10, 900, 0) }
Inverted   == { Put(768, 120, 130, 30, 900, 0), Put(763, 240, 250, 20, 900, 0) }
Mispriced  == { Put(768, 980, 990, 30, 900, 0), Put(763, 30, 33, 12, 900, 0) }
Thin       == { Put(768, 250, 260, 30, 60, 500), Put(763, 0, 0, 20, 900, 0) }

SideChains == { Ladder, Gap, TooFar, Tied, Poor, Inverted, Mispriced, Thin }
Middle     == 770 * Dollar
Prices     == { {}, {770 * Dollar}, {310 * Dollar} }

\* A Thursday; a Monday with weekly expiries; a Friday before a holiday, one expiry
\* listed on it; a calendar that ends.
Calendars ==
  { [sessions |-> {0, 1, 4, 5, 6, 7, 8}, listed |-> {0, 1, 4, 5, 6, 8}],
    [sessions |-> {0, 1, 2, 3, 4, 7, 8, 9}, listed |-> {4, 11}],
    [sessions |-> {0, 4, 5, 6, 7, 10, 11}, listed |-> {3, 5, 7, 11}],
    [sessions |-> {0, 1}, listed |-> {1, 2}] }

Select ==
  [ short_delta |-> 30, short_delta_volatile |-> 20, width_pct |-> 65, width_tolerance |-> 50,
    min_open_interest |-> 100, max_quote_spread_pct |-> 15 ]

Config(mode, retry, native, fallback) ==
  [mode |-> mode, retry |-> retry, native |-> native, fallback |-> fallback]
Setups == { Config("neutral", TRUE, FALSE, TRUE), Config("none", TRUE, TRUE, TRUE),
            Config("directional", FALSE, TRUE, FALSE) }

Bare(kind) == [kind |-> kind, direction |-> "", confidence |-> {}]
Object(direction, confidence) == [kind |-> "object", direction |-> direction, confidence |-> confidence]
Replies == { Bare("error"), Bare("empty"), Bare("blank"), Bare("text"),
             Object("bullish", {80}), Object("bearish", {900}), Object("bearish", {40}), Object("neutral", {70}),
             Object("neutral", {}), Object("abstain", {90}), Object("up", {90}), Object("bullish", {-50}) }

\* The quotes of both legs at a rung: gone, as before, worse and better, and crossed.
Quote(bid, ask) == [bid |-> bid * Cent, ask |-> ask * Cent]
Now == { {}, { [short |-> Quote(250, 261), long |-> Quote(130, 141)] },
         { [short |-> Quote(300, 310), long |-> Quote(130, 140)] },
         { [short |-> Quote(120, 130), long |-> Quote(130, 140)] } }

=============================================================================
