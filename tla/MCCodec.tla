------------------------------- MODULE MCCodec -------------------------------
(* An order in the binary encoding, with a block of parties and one of     *)
(* entitlements that holds another; the same order in an NNF table, alone  *)
(* or in a download record, and five slips of transcription of that table, *)
(* the last of which passes the check.                                     *)
(* Beside the codecs runs their client, the scenario runner: it is given   *)
(* no file while a codec is at work, and the codecs rest while it runs.    *)
EXTENDS Codec, Scenario

Word(width, tag, offset) == [type |-> "char", tag |-> tag, offset |-> offset, width |-> width, bits |-> <<>>]
Short(tag, offset) == [type |-> "signed", tag |-> tag, offset |-> offset, width |-> 2, bits |-> <<>>]
Key(offset) == [type |-> "raw", tag |-> "Key", offset |-> offset, width |-> 2, bits |-> <<>>]
Reserved(offset) == [type |-> "reserved", tag |-> "none", offset |-> offset, width |-> 1, bits |-> <<>>]
OrderFlags(offset) ==
    [type |-> "flags", tag |-> "none", offset |-> offset, width |-> 1, bits |-> (1 :> "Market" @@ 7 :> "IOC")]

Header == <<Short("Code", 0), Short("Length", 2)>>
Table(wire, size, body) ==
    [wire |-> wire, name |-> "Order", size |-> size, header |-> Header, body |-> body, fields |-> {}]

NnfTables ==
    { Table(wire, 12, <<Word(2, "Symbol", 4), OrderFlags(6), Reserved(7), Short("Qty", 8), Key(10)>>) :
          wire \in {"nnf", "record"} }
    \cup
    { Table("nnf", 12, <<Word(2, "Symbol", 4), OrderFlags(5), Reserved(7), Short("Qty", 8), Key(10)>>),
      Table("nnf", 12, <<Word(2, "Symbol", 4), OrderFlags(6), Short("Qty", 8), Key(10)>>),
      Table("nnf", 12, <<Word(2, "Symbol", 4), OrderFlags(6), Reserved(7), Short("Qty", 9), Key(10)>>),
      Table("nnf", 11, <<Word(2, "Symbol", 4), OrderFlags(6), Reserved(7), Short("Qty", 8), Key(10)>>),
      Table("nnf", 12, <<Word(3, "Symbol", 3), OrderFlags(6), Reserved(7), Short("Qty", 8), Key(10)>>) }

Leaf(bit, type, width, tag) == [bit |-> bit, type |-> type, width |-> width, tag |-> tag, fields |-> {}]
Block(bit, tag, fields) == [bit |-> bit, type |-> "block", width |-> 2, tag |-> tag, fields |-> fields]

BinaryTables ==
    { [wire |-> "binary", name |-> "Order", size |-> 0, header |-> <<>>, body |-> <<>>,
       fields |-> {Leaf(0, "fixed", 3, "Symbol"), Leaf(7, "unsigned", 1, "Side"), Leaf(8, "unsigned", 2, "Qty"),
                   Leaf(3, "variable", 2, "Text"),
                   Block(11, "NoParties", {Leaf(0, "fixed", 2, "PartyID"), Leaf(9, "unsigned", 1, "PartyRole")})}],
      [wire |-> "binary", name |-> "Report", size |-> 0, header |-> <<>>, body |-> <<>>,
       fields |-> {Leaf(0, "fixed", 3, "Symbol"),
                   Block(2, "NoParties", {Leaf(0, "fixed", 2, "PartyID"),
                                          Block(1, "NoRoles", {Leaf(0, "unsigned", 1, "PartyRole")})})}] }

MCLayouts == NnfTables \cup BinaryTables

MCTags == {"Code", "Length", "Symbol", "Side", "Qty", "Text", "Key", "Market", "IOC",
           "NoParties", "PartyID", "NoRoles", "PartyRole"}

A == 65
B == 66
One(values) == {<<>>} \cup {<<v>> : v \in values}
Words == {Text(<<A>>), Text(<<A, B>>), Text(<<A, B, A>>), Text(<<>>), Text(<<Blank, B>>)}
Upto(count, values) == UNION {[1 .. n -> values] : n \in 0 .. count}

Fields(m) == [t \in MCTags |-> IF t \in DOMAIN m THEN m[t] ELSE <<>>]

NnfMessages ==
    {Fields([Code |-> <<Number(20)>>, Symbol |-> s, Qty |-> q, Key |-> k, Market |-> y, IOC |-> i]) :
        s \in One(Words), q \in One({Number(n) : n \in {-1, 0, 258, 32767, 32768}}),
        k \in {<<Text(<<Nul, Blank>>)>>, <<Text(<<B, Nul>>)>>}, y \in One({Yes}), i \in One({Yes, No})}

(* The count of a group covers its members: the gateway refuses others.    *)
Orders ==
    {Fields([Symbol |-> s, Side |-> d, Qty |-> q, Text |-> x, NoParties |-> <<Number(2)>>,
             PartyID |-> p, PartyRole |-> r]) :
        s \in One(Words), d \in One({Number(1)}), q \in One({Number(n) : n \in {0, 255, 256, 65536}}),
        x \in One({Text(<<B>>), Text(<<A, B>>)}),
        p \in Upto(2, {Text(<<A>>), Text(<<B>>)}), r \in Upto(2, {Number(0), Number(7)})}

Reports ==
    {Fields([Symbol |-> s, NoParties |-> <<Number(n)>>, PartyID |-> p, NoRoles |-> o, PartyRole |-> r]) :
        s \in One(Words), n \in 1 .. 2, p \in Upto(1, {Text(<<A>>), Text(<<B>>)}),
        o \in {<<Number(2)>>}, r \in Upto(2, {Number(0), Number(7)})}

MCMessages(l) ==
    CASE l.wire # "binary" -> NnfMessages
      [] l.wire = "binary" /\ l.name = "Order" -> Orders
      [] OTHER -> Reports

MCDictionary ==
    [fields |-> [t \in MCTags \ {"Key"} |->
                   [type |-> IF t \in {"Symbol", "Text", "PartyID", "Market", "IOC"} THEN "text" ELSE "int",
                    max |-> IF t = "PartyID" THEN 1 ELSE 2,
                    values |-> IF t \in {"Market", "IOC"} THEN {Yes, No} ELSE {}]],
     messages |-> [n \in {"Order", "Report"} |->
                     [inbound |-> TRUE, required |-> {"Symbol"}, optional |-> MCTags \ {"Symbol", "Key"}]]]

-----------------------------------------------------------------------------
(* Scenario files.                                                         *)

CONSTANTS a, b

Do(do, s) == [do |-> do, s |-> s, kind |-> Nobody, capture |-> Nobody, uses |-> Nobody, refused |-> Nobody]
Expect(s, kind) == [Do("expect", s) EXCEPT !.kind = kind]
Command == Do("control", Nobody)
Refused == [Command EXCEPT !.refused = "not_found"]
Captures == [Expect(a, "Fill") EXCEPT !.capture = "number"]
CapturesNone == [Expect(a, Nobody) EXCEPT !.capture = "number"]
Replaces == [Do("send", a) EXCEPT !.uses = "number"]
Nothing(s, kind) == [Do("expect_none", s) EXCEPT !.kind = kind]

Scripted(steps) == [is |-> "scenario", steps |-> steps]
Unusable(is) == [is |-> is, steps |-> <<>>]

(* Two expectations of one kind, on two sessions, and a number captured    *)
(* for a later step, or used before; a session that is dropped and comes   *)
(* back; steps that want silence; files that are no scenario.              *)
MCSuites ==
    { <<>>,
      <<Scripted(<<Command, Do("logon", a), Do("send", a), Captures, Replaces, Expect(a, "Fill"), Do("logout", a)>>)>>,
      <<Scripted(<<Do("logon", a), Do("logon", b), Expect(b, "Fill"), Expect(a, Nobody)>>)>>,
      <<Scripted(<<Do("logon", a), Do("disconnect", a), Do("logon", a), CapturesNone>>)>>,
      <<Scripted(<<Do("logon", a), Do("clear", a), Do("send", a), Nothing(a, "Fill"), Do("pause", a), Nothing(a, Nobody)>>),
        Unusable("unreadable"), Scripted(<<Do("send", a), Expect(a, "Fill")>>)>>,
      <<Scripted(<<Refused, Replaces>>), Scripted(<<Do("malformed", a)>>), Unusable("badly declared")>> }

Rests == stage = "new" /\ layout = CHOOSE l \in Layouts : TRUE

MCInit == Init /\ RunnerInit /\ (files # <<>> => Rests)

MCNext ==
    \/ files = <<>> /\ exit # Nobody /\ Next /\ UNCHANGED runnerVars
    \/ RunnerNext /\ UNCHANGED vars

MCSpec == MCInit /\ [][MCNext]_<<vars, runnerVars>> /\ RunnerFairness
=============================================================================
