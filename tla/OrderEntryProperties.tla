------------------------ MODULE OrderEntryProperties ------------------------
(***************************************************************************)
(* What a client of the venue may rely on: the identifiers of its orders   *)
(* and the reports it is sent.                                             *)
(***************************************************************************)
EXTENDS OrderEntry

EventKinds == {"ACCEPTED", "REJECTED", "FILLED", "CANCELLED", "REPLACED",
               "DECREMENTED", "CANCEL_REJECTED"}

EventType == [kind : EventKinds, order : OrderIds \cup {NoOrder},
              owner : Sessions \cup {NoKey}, name : Names \cup {NoKey},
              qty : Nat, cum : Nat]

ReportType == [kind : EventKinds, order : OrderIds \cup {NoOrder}, name : Names,
               status : Statuses, qty : Nat, cum : Nat]

\* The type invariant of what order entry adds to the market's state.
EntryTypeOK ==
    /\ chain \in [OrderIds -> Seq(Names)]
    /\ index \in [Sessions \X Names -> OrderIds \cup {NoOrder}]
    /\ events \in Seq(EventType)
    /\ origin \in Clients \cup {NoKey}
    /\ behaviour \in Seq(Rule)
    /\ held \in Seq([to : Clients, report : ReportType, delay : Nat])
    /\ sent \in [Clients -> Seq(ReportType)]
    /\ asked \in [Clients -> SUBSET Names]
    /\ dropped \subseteq [to : Clients, report : ReportType]
    /\ delayed \in BOOLEAN
    /\ ruled \in 0..MaxRules
    /\ requests \in 0..MaxRequests

----------------------------------------------------------------------------
(* Identifiers *)

\* The registry's two views agree: an identifier is bound to the one order whose
\* chain holds it, among the orders of that session, and no chain holds an
\* identifier twice.  _resolve trusts the index and then compares with the chain.
IndexIsTheInverseOfTheChains ==
    /\ \A key \in Sessions, name \in Names, o \in OrderIds :
          index[<<key, name>>] = o <=> /\ orders[o].session = key
                                   /\ name \in Range(chain[o])
    /\ \A o \in OrderIds : IsInjective(chain[o])

\* An identifier stays bound to its order for good: no sequence of replaces,
\* cancels, rejections and new orders makes a late request that uses it reach
\* another order.
BindingsArePermanent ==
    [][\A k \in Sessions \X Names :
         index[k] # NoOrder => index'[k] = index[k]]_allVars

----------------------------------------------------------------------------
(* Reports *)

ReportsOf(c) == Range(sent[c])

\* "reports must be routed by owner rather than to whoever sent the triggering
\* message" (_session_for): a client is told of its own orders.  Only the
\* orders the control plane injects are an exception, see the README.
ReportsGoToTheOwner ==
    \A c \in Clients : \A r \in ReportsOf(c) :
        r.order # NoOrder => \/ orders[r.order].session = c
                             \/ orders[r.order].session \notin Clients

\* What the owner of an order has been sent; the control plane is sent nothing.
SentToOwner(o) ==
    LET c == orders[o].session IN IF c \in Clients THEN sent[c] ELSE << >>

\* Where reports about an order, of its fills, and of its end stand in that.
\* Refused requests say nothing of the order.
AboutOf(o) ==
    {i \in DOMAIN SentToOwner(o) :
        SentToOwner(o)[i].order = o /\ SentToOwner(o)[i].kind # "CANCEL_REJECTED"}

FillsOf(o) == {i \in AboutOf(o) : SentToOwner(o)[i].kind = "FILLED"}

EndsOf(o) ==
    {i \in AboutOf(o) : /\ SentToOwner(o)[i].kind \in {"FILLED", "CANCELLED", "REJECTED"}
                        /\ SentToOwner(o)[i].status \in TERMINAL}

\* "each fill of a multi-level sweep must carry its own running average"
\* (OrderFilled): unless reports were delayed, the executed totals of an order's
\* fill reports go up, however many orders one request trades with, and the
\* last states all that was executed unless a report was dropped.
FillsAddUp ==
    Ready /\ ~delayed => \A o \in OrderIds :
        LET cum(i) == SentToOwner(o)[i].cum
        IN  orders[o].session \in Clients =>
              /\ \A i, j \in FillsOf(o) : i < j => cum(i) < cum(j)
              /\ dropped = {} =>
                    orders[o].cum = Max({0} \cup {cum(i) : i \in FillsOf(o)})

\* The report leaves the client with the order as it is.
States(report, o) ==
    /\ report.status = orders[o].status
    /\ report.qty = orders[o].qty
    /\ report.cum = orders[o].cum
    /\ report.name = CurrentName(o)

\* The last report about an order leaves its owner with the order's real state,
\* in the middle of whatever trades, decrements, amendments and phase changes,
\* when no rule tampers with reports.
LastReportIsCurrent ==
    Ready /\ ~delayed /\ dropped = {} => \A o \in OrderIds :
        orders[o].session \in Clients =>
            \E i \in AboutOf(o) : /\ \A j \in AboutOf(o) : j <= i
                                  /\ States(SentToOwner(o)[i], o)

Everything(c) ==
    ReportsOf(c) \cup {h.report : h \in {x \in Range(held) : x.to = c}}
                 \cup {d.report : d \in {x \in dropped : x.to = c}}

\* Every request a client makes is answered by a report under the request's own
\* identifier: sent, waiting for its timer, or dropped by a rule.
EveryRequestIsAnswered ==
    Ready => \A c \in Clients :
        \A name \in asked[c] : \E r \in Everything(c) : r.name = name

\* An order is reported as ended at most once, and only when it has ended: a
\* cancel, a fill and a disconnect that come together do not each end it.
EndedOnce ==
    \A o \in OrderIds :
        /\ \A i, j \in EndsOf(o) : i = j
        /\ EndsOf(o) # {} => orders[o].status \in TERMINAL

\* What a client has been sent so far is the truth about its orders, the whole of
\* it, and nothing about the orders of others.
ClientViewIsTrue ==
    /\ EntryTypeOK
    /\ ReportsGoToTheOwner
    /\ FillsAddUp
    /\ LastReportIsCurrent
    /\ EveryRequestIsAnswered
    /\ EndedOnce

Ended(o) == orders[o].session \in Clients /\ orders[o].status \in TERMINAL

\* The owner of an order that has ended is eventually told, also after a delay,
\* unless a rule dropped that report.
EveryEndIsReported ==
    \A o \in OrderIds :
        Ended(o) ~> (EndsOf(o) # {} \/ \E d \in dropped : d.report.order = o)

=============================================================================
