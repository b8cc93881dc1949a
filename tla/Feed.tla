-------------------------------- MODULE Feed --------------------------------
(***************************************************************************)
(* The bars a strategy sees: data/bars.py (BarAggregator) and              *)
(* data/resample.py (Resampler), as operators on the record                *)
(*   [last_emitted, history, open].                                        *)
(* A bar's time is 100 * day + minute of the session.  The history is cut  *)
(* to what the strategy reads; the high, the low, the trade count and the  *)
(* vwap of the bars in it are left out: no strategy reads them.            *)
(***************************************************************************)
EXTENDS Integers, Sequences, SequencesExt

CONSTANTS Symbols

LOCAL Later(x, y) == IF x > y THEN x ELSE y

NoBar == [ts |-> -1, open |-> 0, close |-> 0, volume |-> 0]
NoFeed == [last_emitted |-> [s \in Symbols |-> -1], history |-> [s \in Symbols |-> <<>>],
           open |-> [s \in Symbols |-> NoBar]]

DayOf(ts) == ts \div 100
MinuteOf(ts) == ts % 100

Seen(bar) == [ts |-> bar.ts, open |-> bar.open, close |-> bar.close, volume |-> bar.volume]
LastOf(seq, n) == SubSeq(seq, Later(1, Len(seq) - n + 1), Len(seq))

\* BarAggregator._accept: an old bar, or one seen before, is refused.
IsNew(feed, bar) == bar.ts > feed.last_emitted[bar.symbol]
_accept(feed, bar, window) ==
  [feed EXCEPT !.last_emitted[bar.symbol] = bar.ts,
               !.history[bar.symbol] = IF window = 0 THEN <<>> ELSE LastOf(Append(@, Seen(bar)), window)]
Accepted(feed, bar) == [feed EXCEPT !.last_emitted[bar.symbol] = bar.ts]

bucket_start(ts, minutes) == ts - MinuteOf(ts) + (MinuteOf(ts) \div minutes) * minutes

_push(feed, symbol, bar, window) ==
  [feed EXCEPT !.history[symbol] =
     IF @ # <<>> /\ @[Len(@)].ts >= bar.ts THEN @ ELSE LastOf(Append(@, Seen(bar)), window)]

Bucket(bar, start) == [Seen(bar) EXCEPT !.ts = start]
Joined(cur, bar) == [cur EXCEPT !.close = bar.close, !.volume = @ + bar.volume]

\* A bar of another bucket closes the one in progress.
Closes(feed, bar, minutes) ==
  LET cur == feed.open[bar.symbol] IN cur # NoBar /\ cur.ts # bucket_start(bar.ts, minutes)

on_bar(feed, bar, minutes, window) ==
  LET cur == feed.open[bar.symbol]
      start == bucket_start(bar.ts, minutes)
      pushed == IF Closes(feed, bar, minutes) THEN _push(feed, bar.symbol, cur, window) ELSE feed IN
  [pushed EXCEPT !.open[bar.symbol] =
     IF cur = NoBar \/ Closes(feed, bar, minutes) THEN Bucket(bar, start) ELSE Joined(cur, bar)]

flush(feed, symbol, window) ==
  LET cur == feed.open[symbol] IN
  IF cur = NoBar THEN feed ELSE [_push(feed, symbol, cur, window) EXCEPT !.open[symbol] = NoBar]
=============================================================================
