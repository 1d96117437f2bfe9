----------------------------- MODULE Throttler -----------------------------
(***************************************************************************)
(* The request limit of one client.  All processes share the two keys in   *)
(* Redis, and a Lua script counts, decides and blocks in one step.  How    *)
(* many requests were let through is kept for the properties alone.        *)
(***************************************************************************)
EXTENDS Integers

CONSTANTS
    Limit,    \* THROTTLE_LIMIT
    Window,   \* THROTTLE_TTL_MS, in ticks of the clock
    Block     \* blockDuration || ttl, in ticks

ASSUME LimitAssumption == Limit \in Nat \ {0}
ASSUME WindowAssumption == Window \in Nat \ {0} /\ Block \in Nat \ {0}

VARIABLES
    counter,    \* the key of the counter: its value and its time to live
    block,      \* time to live of the key :blocked, 0 when there is none
    accepted,   \* accepted[a]: how many requests were let through since a ticks ago,
                \* and since Redis last restarted
    quiet       \* ticks since the last request, Pause stands for more

throttlerVars == <<counter, block, accepted, quiet>>

NoCounter == [hits |-> 0, left |-> 0]

\* As long as any key of the client can live.
Pause == IF Window < Block THEN Block ELSE Window

\* The script only asks whether hits exceeds Limit: one more stands for any.
ThrottlerTypeOK ==
    /\ counter \in [hits : 1 .. Limit + 1, left : 1 .. Window] \cup {NoCounter}
    /\ block \in 0 .. Block
    /\ accepted \in [0 .. Window - 1 -> Nat]
    /\ quiet \in 0 .. Pause

ThrottlerInit ==
    /\ counter = NoCounter
    /\ block = 0
    /\ accepted = [a \in 0 .. Window - 1 |-> 0]
    /\ quiet = Pause

\* INCR, and PEXPIRE for the first hit.
Counted ==
    IF counter = NoCounter THEN [hits |-> 1, left |-> Window]
    ELSE IF counter.hits > Limit THEN counter
    ELSE [counter EXCEPT !.hits = @ + 1]

\* Broken form of Exceeds: the count is compared before it is raised.
Exceeds_Before(c) == counter.hits > Limit

Exceeds(c) == c.hits > Limit

Accept ==
    /\ block = 0
    /\ ~Exceeds(Counted)
    /\ counter' = Counted
    /\ accepted' = [a \in 0 .. Window - 1 |-> accepted[a] + 1]
    /\ quiet' = 0
    /\ UNCHANGED block

\* 429: the client is blocked, or is from now on.
Refuse ==
    /\ block > 0 \/ Exceeds(Counted)
    /\ counter' = Counted
    /\ block' = IF block > 0 THEN block ELSE Block
    /\ quiet' = 0
    /\ UNCHANGED accepted

\* Broken form of Aged: INCR without PEXPIRE.
Aged_Never(c) == c

\* Broken form of Aged: a counter whose time is up stays, without a time to live.
Aged_PastZero(c) == IF c = NoCounter THEN c ELSE [c EXCEPT !.left = IF @ = 0 THEN 0 ELSE @ - 1]

Aged(c) == IF c.left <= 1 THEN NoCounter ELSE [c EXCEPT !.left = @ - 1]

\* One tick of the clock.
KeysAge ==
    /\ counter' = Aged(counter)
    /\ block' = IF block = 0 THEN 0 ELSE block - 1
    /\ accepted' = [a \in 0 .. Window - 1 |-> IF a = 0 THEN 0 ELSE accepted[a - 1]]
    /\ quiet' = IF quiet = Pause THEN Pause ELSE quiet + 1

\* Redis restarts without its last writes: the counter is new again or counts
\* fewer, and a block may be gone.
ForgetHits ==
    /\ counter' \in {NoCounter} \cup {[counter EXCEPT !.hits = h] : h \in 1 .. counter.hits}
    /\ block' \in {0, block}
    /\ accepted' = [a \in 0 .. Window - 1 |-> 0]
    /\ UNCHANGED quiet

----------------------------------------------------------------------------
(* Properties *)

\* The windows of the script are fixed, so a client can spend two of them in
\* the time of one, less the request that opened the first: never more, as long
\* as Redis keeps its keys.
AtMostTwice == accepted[Window - 1] <= 2 * Limit - 1

\* No client is locked out for good: one that stays away for as long as a key
\* lives is let through.
PauseReopens ==
    [][quiet = Pause /\ quiet' = 0 => accepted'[0] = accepted[0] + 1]_throttlerVars
=============================================================================
