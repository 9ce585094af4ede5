---------------------------- MODULE MCOrderEntry ----------------------------
(***************************************************************************)
(* Two FIX clients and an owner of injected orders.                        *)
(***************************************************************************)
EXTENDS JapannextVenue

Ask(key, side, price, qty, tif) ==
    [side |-> side, type |-> "LIMIT", price |-> price, qty |-> qty, tif |-> tif,
     minQty |-> 0, postOnly |-> FALSE, session |-> key, mpid |-> key,
     stpId |-> NoKey, stpInst |-> NoKey]

\* B sweeps two buyers; A may meet itself; A's low bid can be lifted to trade.
EntryRequests ==
    {Ask("A", "BUY", 2, 1, "DAY"), Ask("A", "BUY", 1, 1, "DAY"),
     Ask("A", "SELL", 2, 1, "IOC"), Ask("B", "SELL", 2, 2, "DAY"),
     Ask("X", "BUY", 2, 1, "DAY"),
     Ask("A", "BUY", 2, 3, "DAY"), Ask("A", "SELL", 2, 3, "IOC")}

EntryChanges ==
    {[qty |-> 2, price |-> 2, tif |-> NoKey, minQty |-> Absent, exec |-> "KEEP"]}

EntryRules ==
    {[action |-> "reject", count |-> 1, owner |-> NoKey, delay |-> 0],
     [action |-> "drop", count |-> 1, owner |-> "A", delay |-> 0],
     [action |-> "delay", count |-> 2, owner |-> NoKey, delay |-> 1]}

\* A may trade one market and has its orders cancelled on disconnect; B may trade
\* all and has not.
EntrySessions ==
    << [target |-> "A", markets |-> << "DAY" >>, default |-> NoMarket,
        cancelOnDisconnect |-> TRUE],
       [target |-> "B", markets |-> << >>, default |-> "DAY",
        cancelOnDisconnect |-> FALSE] >>

EntryMarkets ==
    {<< [name |-> "DAY", state |-> "OPEN", stp |-> mode],
        [name |-> "DAYX", state |-> "CLOSED", stp |-> "NONE"] >> :
         mode \in {"DECREMENT", "CANCEL_OLDEST", "CANCEL_NEWEST"}}

\* A large order of A, and the two modes that cancel one side, are for self-matches
\* of every kind: two requests, and nothing else happens.
SelfMatchOnly ==
    \/ stpMode \in {"CANCEL_OLDEST", "CANCEL_NEWEST"}
    \/ \E o \in DOMAIN orders : orders[o].qty = 3

\* A and B log on first.  Then a behaviour has a rule, a reload or a phase change.
\* A client may be gone for the last request or for a phase change of the market; a
\* reload, too, comes before the last request, and withdraws the instrument.
Away == \E key \in Clients : ~up[key]

MCNext ==
    /\ JapannextNext
    /\ IF logons < 2 THEN logons' # logons /\ (up'["B"] => up'["A"])
       ELSE /\ ruled' + phases' + reloads' <= 1
            /\ reloads' # reloads => requests = 2 /\ ~tradable'
            /\ phases' # phases => requests > 0
            /\ Away' /\ ~Away => requests = 2 /\ ruled + reloads + phases = 0
            /\ Away => /\ ruled' + reloads' = 0
                       /\ marketState' # marketState \/ phases' = phases
                       /\ up' # up => phases = 1
                       /\ up["A"] => requests' + phases' <= 3
            /\ rejected' # rejected => nextId = 1 /\ ruled + phases + reloads = 0
    /\ rejected # {} => UNCHANGED jxVars
    /\ SelfMatchOnly' => requests' <= 2 /\ ruled' + phases' = 0

MCSpec ==
    /\ JapannextInit
    /\ [][MCNext]_jxVars
    /\ WF_jxVars(VenueMatchStep) /\ WF_jxVars(VenueEmit) /\ WF_jxVars(VenueReleaseStep)

=============================================================================
