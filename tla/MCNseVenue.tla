----------------------------- MODULE MCNseVenue -----------------------------
(***************************************************************************)
(* One box with two users, one of whom speaks the trimmed structures; an   *)
(* order that the operator enters stands for every other member's.         *)
(***************************************************************************)
EXTENDS NseVenue

Ask(key, side, type, price, qty, tif) ==
    [side |-> side, type |-> type, price |-> price, qty |-> qty, tif |-> tif,
     minQty |-> 0, postOnly |-> FALSE, session |-> key, mpid |-> NoKey,
     stpId |-> NoKey, stpInst |-> NoKey]

\* A resting order, one that trades with it in part, an at-the-open order, one
\* outside the band, and the operator's.
NseRequests ==
    {Ask("A", "BUY", "LIMIT", 20, 2, "DAY"),
     Ask("A", "BUY", "MARKET", NoPrice, 1, "DAY"),
     Ask("B", "BUY", "LIMIT", 30, 1, "DAY"),
     Ask("OPS", "SELL", "LIMIT", 20, 1, "DAY"),
     Ask("B", "SELL", "LIMIT", 20, 1, "IOC")}

NseChanges ==
    {[qty |-> 0, price |-> 19, tif |-> NoKey, minQty |-> Absent, exec |-> "KEEP"]}

OneBox     == [u \in {"A", "B"} |-> 1]
OneBroker  == [b \in {1} |-> {"M"}]
SameBroker == [u \in {"A", "B"} |-> "M"]
OneRule    == {[action |-> "delay", count |-> 1, owner |-> "A", delay |-> 1]}

\* What only concerns a connection comes before the first sign-on, what only
\* concerns a session before the first order; time passes at first, and while a
\* connection is broken.  The member follows the box sequence.
NobodyYet == last = 0

Before == nextId = 1 /\ requests = 0

Broken == \E b \in Boxes : member[b].broken

\* A connection on which nothing has happened yet.
Fresh(b) ==
    secrets = 1 /\ ~member[b].eager /\ box[b].beat = Interval /\ box[b].silence = 0

MCBoxStep(b) ==
    \/ (NobodyYet \/ ~Connected(b)) /\ Ready /\ GrRequest(b) /\ Quiescent
    \/ ~Before /\ Ready /\ ConnectionBreaks(b) /\ Quiescent
    \/ OnRegistration(b)
    \/ NobodyYet /\ (FirstPacketRefused(b) \/ BoxSignOnFirst(b))
    \/ NobodyYet /\ (RegisteredAgain(b) \/ BoxRefused(b) \/ SignOnRefused(b) \/ BoxKill(b))
    \/ NobodyYet /\ (OnHeartbeat(b) \/ ChecksumFailure(b))
    \/ box[b].state = "AWAITING_BOX_SIGN_ON" /\ OnBoxSignOn(b)
    \/ /\ box[b].state = "ACTIVE"
       /\ NobodyYet => Fresh(b) /\ (box[b].cipher = NoSecret => issued[b] # NoSecret)
       /\ \E u \in Users : (u = "B" => Before /\ LoggedOn("A")) /\ OnSignOn(b, u)
    \/ (NobodyYet \/ Broken) /\ ConnectionClosed(b)

MCUserStep(u) ==
    \/ \E r \in Requests : /\ u = "A" <=> requests = 0
                           /\ r.type = "MARKET" => marketState # "OPEN" /\ ruled = 0
                           /\ NseNewOrder(u, r)
    \/ /\ u = "A" /\ requests = MaxRequests - 1
       /\ \E o \in OrderIds : NseChange(u, o)
    \/ /\ u = "A"
       /\ \/ Before /\ (RejectChange(u) \/ OnSystemInformation(u) \/ SessionKill(u))
          \/ ~Before /\ OnSignOff(u)
          \/ \E stream \in {0, Stream + 1} : OnDownloadRequest(u, stream)
       /\ UNCHANGED venueVars

\* The operator waits for the first sign-on, sets one thing up, and leaves the
\* last stamp to the member.
MCOperatorStep ==
    /\ ~NobodyYet /\ last < MaxStamps - 1
    /\ NseOperatorStep
    /\ marketState' = "PRE_OPEN" => marketState = "PRE_OPEN"
    /\ ~Before \/ phases + ruled > 0 => UNCHANGED << override, base, tradable, ruled >>
    /\ override' \in {NoOverride, "CLOSED"}
    /\ Before => nextId' = nextId
    /\ ruled > 0 => phases' = phases

MCPasses == (NobodyYet \/ Broken) /\ NsePasses

MCNext ==
    \/ \E b \in Boxes : MCBoxStep(b) /\ UNCHANGED venueVars
    \/ \E u \in Users : MCUserStep(u)
    \/ MCOperatorStep
    \/ Loops
    \/ NseRelease
    \/ MCPasses
    \/ NseTicks

MCSpec ==
    /\ NseInit
    /\ [][MCNext]_nseAll
    /\ WF_nseAll(Loops) /\ WF_nseAll(MCPasses) /\ WF_nseAll(NseTicks)

=============================================================================
