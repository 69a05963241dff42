------------------------- MODULE AsyncTradeManager --------------------------
(***************************************************************************)
(* CAsyncTradeManager of Include/CAsyncTradeManager.mqh, driven as the     *)
(* hft-async scaffold drives it: OnTick first removes the stale entries    *)
(* and sends only while few requests are pending, OnTradeTransaction hands *)
(* the answer of a request to OnTransactionResult.                         *)
(*                                                                         *)
(* Prices, symbols, stops and latencies are left out; a close is a request *)
(* like an opening, of which one handler may send several.  Time is the    *)
(* age of an entry.                                                        *)
(***************************************************************************)
EXTENDS Integers, Sequences, SequencesExt, FiniteSetsExt

CONSTANTS
    Volume,         \* what an order asks for, in lots
    MaxPending,     \* InpMaxPendingAsync
    MaxRetries,     \* m_max_retries
    StaleAge,       \* m_stale_timeout_us
    MaxOrders,      \* bound: orders the EA places
    MaxBatch        \* bound: positions closed by one CloseAllAsync

ASSUME AsyncConstants ==
    /\ {Volume, MaxPending} \subseteq Nat \ {0}
    /\ {MaxRetries, StaleAge, MaxOrders, MaxBatch} \subseteq Nat

VARIABLES
    pending,        \* m_pending
    stats,          \* m_total_sent ... m_total_retried
    req,            \* what the broker knows of each request, by request id
    answers,        \* results on their way to OnTradeTransaction
    orders          \* orders placed so far: their number names the next one

asyncVars == <<pending, stats, req, answers, orders>>

ZeroStats == [sent |-> 0, reconciled |-> 0, rejected |-> 0, partial |-> 0,
              stale |-> 0, retried |-> 0]

\* What the broker's answer says: one of the four codes that are tried again, done or
\* partly done, refused for good, or placed and not filled yet.
Codes == {"again", "done", "refused", "placed"}

AsyncTypeOK ==
    /\ pending \in Seq([id : 1..Len(req), order : 1..orders, volume : {Volume},
                        filled : 0..Volume, age : 0..StaleAge + 1,
                        retry : 0..MaxRetries])
    /\ stats \in [DOMAIN ZeroStats -> Nat]
    /\ req \in Seq([order : 1..orders, ask : 1..Volume, done : 0..Volume,
                    left : 0..Volume, open : BOOLEAN])
    /\ answers \subseteq [id : 1..Len(req), code : Codes, volume : 0..Volume]
    /\ orders \in 0..MaxOrders

AsyncInit ==
    /\ pending = <<>>
    /\ stats = ZeroStats
    /\ req = <<>>
    /\ answers = {}
    /\ orders = 0

-----------------------------------------------------------------------------
(* The manager.  A handler threads its effect through a record of the state. *)

Now == [pending |-> pending, stats |-> stats, req |-> req, orders |-> orders]

Becomes(m) ==
    /\ pending' = m.pending
    /\ stats' = m.stats
    /\ req' = m.req
    /\ orders' = m.orders

Asked(order, volume) ==
    [order |-> order, ask |-> volume, done |-> 0, left |-> 0, open |-> TRUE]

\* OrderSendAsync accepted a new order: it is entered.
Sent(m) ==
    [pending |-> Append(m.pending,
                    [id |-> Len(m.req) + 1, order |-> m.orders + 1, volume |-> Volume,
                     filled |-> 0, age |-> 0, retry |-> 0]),
     stats   |-> [m.stats EXCEPT !.sent = @ + 1],
     req     |-> Append(m.req, Asked(m.orders + 1, Volume)),
     orders  |-> m.orders + 1]

\* Mutant: the list is shortened and the last entry not moved.
RemovedUnmoved(entries, i) == Front(entries)

\* Removal of entry i: the last one takes its place.
Removed(entries, i) == Front([entries EXCEPT ![i] = Last(entries)])

\* Mutants: the whole volume is asked for again; the retry is not counted.
ResentWhole(m, e) ==
    [m EXCEPT !.pending = Append(@, [e EXCEPT !.id = Len(m.req) + 1, !.age = 0,
                                              !.retry = @ + 1]),
              !.stats.retried = @ + 1,
              !.req = Append(@, Asked(e.order, e.volume))]

ResentUncounted(m, e) ==
    [m EXCEPT !.pending = Append(@, [e EXCEPT !.id = Len(m.req) + 1, !.age = 0]),
              !.stats.retried = @ + 1,
              !.req = Append(@, Asked(e.order, e.volume - e.filled))]

\* A request is sent again for what is not filled.
Resent(m, e) ==
    [m EXCEPT !.pending = Append(@, [e EXCEPT !.id = Len(m.req) + 1, !.age = 0,
                                              !.retry = @ + 1]),
              !.stats.retried = @ + 1,
              !.req = Append(@, Asked(e.order, e.volume - e.filled))]

\* Mutant: an order that is not sent again is forgotten.
GivenUpUncounted(m) == m

GivenUp(m) == [m EXCEPT !.stats.rejected = @ + 1]

\* Mutant: one retry too many.
RetriedOnceMore(m, e) ==
    {GivenUp(m)} \union {n \in {Resent(m, e)} : e.retry <= MaxRetries}

\* The outcomes of _retry: the retries are used up, OrderSendAsync fails, or it
\* is accepted.
Retried(m, e) ==
    {GivenUp(m)} \union {n \in {Resent(m, e)} : e.retry < MaxRetries}

Stale(e) == e.age > StaleAge

\* CleanupStale walks the entries from the last to the first.
Downwards(entries) == [k \in 1..Len(entries) |-> Len(entries) + 1 - k]

Swept(m) ==
    FoldLeft(LAMBDA n, i : IF Stale(n.pending[i])
                           THEN [n EXCEPT !.pending = Removed(@, i),
                                          !.stats.stale = @ + 1]
                           ELSE n,
             m, Downwards(m.pending))

\* Mutant: the limit is tested before the sweep.
OnTickGateFirst ==
    /\ Len(pending) < MaxPending
    /\ \/ Becomes(Swept(Now))
       \/ orders < MaxOrders /\ Becomes(Sent(Swept(Now)))
    /\ UNCHANGED answers

\* OnTick: without a signal, with too many requests pending, or when OrderSendAsync
\* fails the handler ends with the sweep.
OnTick ==
    /\ \/ Becomes(Swept(Now))
       \/ /\ Len(Swept(Now).pending) < MaxPending
          /\ orders < MaxOrders
          /\ Becomes(Sent(Swept(Now)))
    /\ UNCHANGED answers

\* CloseAllAsync: a request for each of some positions, all in one handler.
CloseAllAsync(n) ==
    /\ orders + n <= MaxOrders
    /\ Becomes(FoldLeft(LAMBDA m, k : Sent(m), Now, [k \in 1..n |-> k]))
    /\ UNCHANGED answers

Entry(id) == SelectInSeq(pending, LAMBDA e : e.id = id)

\* OnTransactionResult: an answer without an entry is dropped.  The volume of the
\* answer, not its code, tells a partial fill; every other code that is not tried
\* again counts as reconciled.
OnTransactionResult(a) ==
    LET i == Entry(a.id)
        e == pending[i]
        filled == [e EXCEPT !.filled = @ + a.volume]
        without == [Now EXCEPT !.pending = Removed(@, i)]
    IN /\ answers' = answers \ {a}
       /\ CASE i = 0 -> Becomes(Now)
            [] i # 0 /\ a.code = "again" ->
                 \E m \in Retried(without, e) : Becomes(m)
            [] i # 0 /\ a.code # "again" /\ a.volume \in 1..(e.volume - e.filled - 1) ->
                 \E m \in Retried([without EXCEPT !.stats.partial = @ + 1], filled) :
                    Becomes(m)
            [] OTHER -> Becomes([without EXCEPT !.stats.reconciled = @ + 1])

\* The EA is started again: entries and statistics are gone.
Restart ==
    /\ pending # <<>> \/ stats # ZeroStats
    /\ Becomes([Now EXCEPT !.pending = <<>>, !.stats = ZeroStats])
    /\ UNCHANGED answers

-----------------------------------------------------------------------------
(* The broker and the clock. *)

\* The request r is closed with this much done and this much left working.
Close(r, done, left) ==
    req' = [req EXCEPT ![r].open = FALSE, ![r].done = done, ![r].left = left]

Answer(r, code, volume) ==
    answers' \in {answers, answers \union {[id |-> r, code |-> code, volume |-> volume]}}

\* The broker carries the request out and answers; the answer may get lost.
Execute(r) ==
    /\ req[r].open
    /\ \/ Close(r, req[r].ask, 0) /\ Answer(r, "done", req[r].ask)
       \/ Close(r, 0, 0) /\ \E c \in {"again", "refused"} : Answer(r, c, 0)
       \/ Close(r, 0, req[r].ask) /\ Answer(r, "placed", 0)
       \/ \E k \in 1..req[r].ask - 1 :      \* the rest is cancelled, or stays (RETURN)
             \E left \in {0, req[r].ask - k} :
                Close(r, k, left) /\ Answer(r, "done", k)
    /\ UNCHANGED <<pending, stats, orders>>

\* What was left working is filled; the event of that deal carries no request id.
FillRest(r) ==
    /\ req[r].left > 0
    /\ req[r].done < req[r].ask
    /\ req' = [req EXCEPT ![r].done = req[r].ask]
    /\ UNCHANGED <<pending, stats, answers, orders>>

Pass ==
    /\ pending' = [i \in DOMAIN pending |->
                      [pending[i] EXCEPT !.age = IF @ > StaleAge THEN @ ELSE @ + 1]]
    /\ pending' # pending
    /\ UNCHANGED <<stats, req, answers, orders>>

AsyncNext ==
    \/ OnTick
    \/ \E n \in 1..MaxBatch : CloseAllAsync(n)
    \/ \E a \in answers : OnTransactionResult(a)
    \/ Restart
    \/ \E r \in DOMAIN req : Execute(r) \/ FillRest(r)
    \/ Pass

AsyncSpec == AsyncInit /\ [][AsyncNext]_asyncVars

\* Ticks come and time passes; nobody promises that the broker answers.
AsyncFairSpec == AsyncSpec /\ WF_asyncVars(OnTick) /\ WF_asyncVars(Pass)

-----------------------------------------------------------------------------
(* What the manager promises. *)

Entries == {pending[i] : i \in DOMAIN pending}
OfOrder(c) == {r \in DOMAIN req : req[r].order = c}

\* Every order that was sent is pending, reconciled, given up or stale, and only one of
\* these, however often it was sent again: the statistics of PrintStats add up.
OrdersCounted ==
    stats.sent = Len(pending) + stats.reconciled + stats.rejected + stats.stale

\* Retries after partial fills never make an order larger than it was: what is filled
\* beyond the order was left working by the broker after a partial fill.
NoOverfill ==
    \A c \in 1..orders :
        MapThenSumSet(LAMBDA r : req[r].done, OfOrder(c))
            <= Volume + MapThenSumSet(LAMBDA r : req[r].left, OfOrder(c))

\* However requotes, rejections and partial fills alternate, an order is sent at most
\* MaxRetries times after the first.
RetriesBounded == \A c \in 1..orders : Cardinality(OfOrder(c)) <= 1 + MaxRetries

\* An entry is given up because its answer is here, because it is stale, or because the
\* EA restarts; never because another entry was removed and the last one moved.
LeavesForCause ==
    [][\A e \in Entries :
          (\A f \in Entries' : f.id # e.id)
            => \/ Stale(e)
               \/ \E a \in answers \ answers' : a.id = e.id
               \/ Restart]_asyncVars

\* The limit of pending requests never blocks the EA for good, also when the broker never
\* answers and when CloseAllAsync, which does not ask for it, went beyond it: every tick
\* sweeps before it looks at the limit.
PressureLifts == (Len(pending) >= MaxPending) ~> (Len(pending) < MaxPending)

=============================================================================
