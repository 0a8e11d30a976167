------------------------------ MODULE Windows ------------------------------
(***************************************************************************)
(* Windowing and incremental aggregation (pravaha/processing/windows.py    *)
(* and processing/primitives.py): events of one group key reach the        *)
(* workers of a group in any order, each worker keeps one state per        *)
(* window, and states of the same window are merged.                       *)
(*                                                                         *)
(* Times are whole seconds.  One state carries what the six aggregators    *)
(* keep.  An amount is a whole number of units, One of which make 1.0;     *)
(* a float holds every number of units up to Exact in size (53 bits), and  *)
(* beyond that Float rounds, so that sums depend on their order.           *)
(*                                                                         *)
(* No code of the repository keeps such a store.  The processor that looks *)
(* windows up, and that joins two sessions that touch as the docstring of  *)
(* SessionWindower asks of its caller, is external.                        *)
(***************************************************************************)
EXTENDS Integers, FiniteSets, FiniteSetsExt, Functions

CONSTANTS
    Samples,    \* events
    Amount,     \* Amount[e]: payload.amount in units, or NoAmount when it is no number
    NoAmount,
    One,        \* units of 1.0
    Exact,      \* 2^53: the numbers of units up to here are floats
    Float(_),   \* the float that a number of units is rounded to
    RateValue,  \* the value that rate compares payload.amount with, by "eq"
    User,       \* User[e]: payload.user_id, the key of distinct_count and topn,
    NoUser,     \* ... or None
    Times,      \* event times
    Size,       \* size of tumbling and sliding windows
    Slide,      \* slide of sliding windows
    Gap,        \* gap of session windows
    Workers     \* partial states of a window

ASSUME WindowAssumption ==
    /\ Times \subseteq Nat /\ Size \in Nat \ {0} /\ Slide \in 1..Size /\ Gap \in Nat \ {0}
    /\ IsFiniteSet(Samples) /\ DOMAIN User = Samples
    /\ \A e \in Samples : Amount[e] \in Int \cup {NoAmount}

ASSUME FloatAssumption ==
    /\ One \in Nat \ {0} /\ Exact \in Nat
    /\ \A n \in (-Exact)..Exact : Float(n) = n

VARIABLES
    time,       \* time[e]: event time
    got,        \* got[w]: events a worker has handled
    panes,      \* panes[w]: its tumbling and sliding windows with their states
    sessions    \* sessions of all workers: pane, state and history: their events

windowVars == <<time, got, panes, sessions>>

----------------------------------------------------------------------------
(* windows.py *)

Pane(kind, start, end) == [kind |-> kind, start |-> start, end |-> end]

\* TumblingWindower.assign()
Tumbling(t) == LET start == (t \div Size) * Size IN {Pane("tumbling", start, start + Size)}

\* SlidingWindower.assign(): back from the latest start, slide by slide, while
\* the window covers the event.
Sliding(t) ==
    LET last_start == (t \div Slide) * Slide
        starts == {last_start - k * Slide : k \in 0..Size}
    IN  {Pane("sliding", start, start + Size) :
            start \in {s \in starts : s + Size > t /\ s >= last_start - Size}}

\* SessionWindower.assign(): provisional.
Session(t) == Pane("session", t, t + Gap)

\* Mutant: sessions that only meet are kept apart.
Overlap(a, b) == a.start < b.end /\ b.start < a.end

\* SessionWindower.merge(): None unless the sessions touch, otherwise their span.
Touch(a, b) == a.start <= b.end /\ b.start <= a.end

Span(a, b) == Pane("session", Min({a.start, b.start}), Max({a.end, b.end}))

----------------------------------------------------------------------------
(* primitives.py *)

Users == Range(User) \ {NoUser}

\* init_state() of the aggregators.
init_state ==
    [count |-> 0, sum |-> 0, summed |-> 0, matched |-> 0, members |-> {},
     counts |-> [u \in Users |-> 0]]

\* The weight of an event in topn: 1.0 without an amount.
Weight(e) == IF Amount[e] = NoAmount THEN One ELSE Amount[e]

\* update(): count, sum and avg over numbers, rate of one amount, distinct users,
\* and topn weighted by the amount; an event without a user has no part in the
\* last two.
update(state, e) ==
    LET number == Amount[e] # NoAmount
    IN  [count   |-> state.count + 1,
         sum     |-> IF number THEN Float(state.sum + Float(Amount[e])) ELSE state.sum,
         summed  |-> IF number THEN state.summed + 1 ELSE state.summed,
         matched |-> IF Amount[e] = RateValue THEN state.matched + 1 ELSE state.matched,
         members |-> state.members \cup ({User[e]} \ {NoUser}),
         counts  |-> [u \in Users |-> IF u = User[e] THEN Float(state.counts[u] + Float(Weight(e)))
                                                     ELSE state.counts[u]]]

\* merge() of two partial states of a window.
merge(a, b) ==
    [count |-> a.count + b.count, sum |-> Float(a.sum + b.sum), summed |-> a.summed + b.summed,
     matched |-> a.matched + b.matched, members |-> a.members \cup b.members,
     counts |-> [u \in Users |-> Float(a.counts[u] + b.counts[u])]]

----------------------------------------------------------------------------
WindowTypeOK ==
    /\ time \in [Samples -> Times]
    /\ got \in [Workers -> SUBSET Samples] /\ DOMAIN panes = Workers
    /\ \A w \in Workers :
          /\ DOMAIN panes[w] \subseteq [kind: {"tumbling", "sliding"}, start: Int, end: Int]
          /\ \A p \in DOMAIN panes[w] : p.start < p.end
    /\ \A s \in sessions : /\ s.pane \in [kind: {"session"}, start: Int, end: Int]
                            /\ s.pane.start < s.pane.end /\ s.of \subseteq Samples

WindowInit ==
    /\ time \in [Samples -> Times]
    /\ got = [w \in Workers |-> {}]
    /\ panes = [w \in Workers |-> <<>>]
    /\ sessions = {}

\* The states of the windows that an event is assigned to are updated.
Store(store, e) ==
    LET hit == Tumbling(time[e]) \cup Sliding(time[e])
        old(p) == IF p \in DOMAIN store THEN store[p] ELSE init_state
    IN  [p \in DOMAIN store \cup hit |-> IF p \in hit THEN update(old(p), e) ELSE store[p]]

\* A worker handles an event: its windows, and a session of its own.
Arrive(w, e) ==
    /\ \A v \in Workers : e \notin got[v]
    /\ got' = [got EXCEPT ![w] = @ \cup {e}]
    /\ panes' = [panes EXCEPT ![w] = Store(@, e)]
    /\ sessions' = sessions \cup
            {[pane |-> Session(time[e]), of |-> {e}, state |-> update(init_state, e)]}
    /\ UNCHANGED time

\* Two sessions that touch, of whichever workers, become one.
JoinSessions(a, b) ==
    /\ a # b /\ Touch(a.pane, b.pane)
    /\ sessions' = (sessions \ {a, b}) \cup
            {[pane |-> Span(a.pane, b.pane), of |-> a.of \cup b.of,
              state |-> merge(a.state, b.state)]}
    /\ UNCHANGED <<time, got, panes>>

WindowNext ==
    \/ \E w \in Workers, e \in Samples : Arrive(w, e)
    \/ \E a, b \in sessions : JoinSessions(a, b)

WindowSpec == WindowInit /\ [][WindowNext]_windowVars

----------------------------------------------------------------------------
(* Properties *)

Arrived == UNION {got[w] : w \in Workers}

\* Units that the events of a set add, and units that they take away.
Units(es, sign) == UNION {{e} \X (1..(sign * Weight(e))) : e \in es}
Up(es) == Cardinality(Units(es, 1))
Down(es) == Cardinality(Units(es, -1))

Numbers(es) == {e \in es : Amount[e] # NoAmount}
OfUser(es, u) == {e \in es : User[e] = u}

\* A float is the sum of the weights of es, when that is exact in any order.
SumIs(x, es) == Up(es) + Down(es) <= Exact => x = Up(es) - Down(es)

\* The state of a window is that of a set of events, counted directly: its counters
\* and its members always, its sums when the floats that they go through are exact.
StateIs(state, es) ==
    /\ state.count = Cardinality(es) /\ state.summed = Cardinality(Numbers(es))
    /\ state.matched = Cardinality({e \in es : Amount[e] = RateValue})
    /\ state.members = {User[e] : e \in es} \ {NoUser}
    /\ SumIs(state.sum, Numbers(es))
    /\ \A u \in Users : SumIs(state.counts[u], OfUser(es, u))

\* The multiples of step at which a window starts that covers one of es, and the
\* events that a window starting at s covers.
Starts(es, step) == {s \in {time[e] - d : e \in es, d \in 0..(Size - 1)} : s % step = 0}
Covered(es, s) == {e \in es : s <= time[e] /\ time[e] < s + Size}

HoldsPanes(store, es, kind, step) ==
    /\ {p \in DOMAIN store : p.kind = kind} = {Pane(kind, s, s + Size) : s \in Starts(es, step)}
    /\ \A s \in Starts(es, step) : StateIs(store[Pane(kind, s, s + Size)], Covered(es, s))

\* In whatever order events arrive, a worker has exactly the windows that cover one
\* of its events, tumbling windows side by side and sliding ones at each multiple of
\* the slide, and the state of each is that of the events whose time it covers.
PanesMatchEvents ==
    \A w \in Workers : /\ HoldsPanes(panes[w], got[w], "tumbling", Size)
                       /\ HoldsPanes(panes[w], got[w], "sliding", Slide)

\* What merge() makes of the states that two workers have of a window is the state
\* of all their events in it.
PanesMerge ==
    \A v, w \in Workers : v # w =>
        \A p \in DOMAIN panes[v] \cap DOMAIN panes[w] :
            StateIs(merge(panes[v][p], panes[w][p]), Covered(got[v] \cup got[w], p.start))

Follows(f, e) == time[e] < time[f] /\ time[f] <= time[e] + Gap

\* A session starts with one of its events, and each of the others, up to the one
\* that ends it, is followed by one within the gap.
IsChain(s) ==
    /\ \E e \in s.of : time[e] = s.pane.start
    /\ \A e \in s.of :
        /\ s.pane.start <= time[e] /\ time[e] + Gap <= s.pane.end
        /\ time[e] + Gap = s.pane.end \/ \E f \in s.of : Follows(f, e)

Settled == \A s, r \in sessions : s # r => ~Touch(s.pane, r.pane)
Apart(e, f) == time[e] + Gap < time[f] \/ time[f] + Gap < time[e]

\* However sessions come to be joined, each event is in one, each has the state of its
\* events, which follow one another within the gap; and once no two touch, the events
\* of different sessions are further apart than the gap, so that the sessions do
\* not depend on the order in which they were joined.
SessionsAreChains ==
    /\ UNION {s.of : s \in sessions} = Arrived
    /\ \A s, r \in sessions : s # r => s.of \cap r.of = {}
    /\ \A s \in sessions : IsChain(s) /\ StateIs(s.state, s.of)
    /\ Settled => \A s, r \in sessions : s # r => \A e \in s.of, f \in r.of : Apart(e, f)

\* Windows of every kind hold what their events amount to, on each worker and when
\* the states of several are merged, in any order: counters and members exactly, and
\* sums as long as they are exact in floating point.
WindowsMatchEvents == WindowTypeOK /\ PanesMatchEvents /\ PanesMerge /\ SessionsAreChains
=============================================================================
