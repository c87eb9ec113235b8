---------------------------- MODULE MCLibrary ----------------------------
(***************************************************************************)
(* The parts of the dborb library that do not meet each other, one at a    *)
(* time: which of them a behaviour is about is chosen in the initial       *)
(* state, and the others stay as they are.                                 *)
(***************************************************************************)
EXTENDS AgentState, XmlRewrite, XPath, DBusXml, VariantBuffer, EventLoop

VARIABLE task

---------------------------------------------------------------------------
(* XML: the agent's state file, and texts made of pieces. *)

MCWords == {"a", "b", "lt", "gt", "amp", "xml", "state", "hostname", "uuid",
            "DOCTYPE", "h", "u"}
MCUuids == {<<"u">>}
MCName == <<"h">>

Piece(kind, name, t) == [kind |-> kind, name |-> name, text |-> t]
MCPieces == {
    Piece("open", <<"a">>, <<"<", "a", ">">>),
    Piece("open", <<"b">>, <<"<", "b", " ", "a", "=", "'", "<", "'", " ", "b", ">">>),
    Piece("close", <<"a">>, <<"<", "/", "a", ">">>),
    Piece("close", <<"b">>, <<"<", "/", "b", " ", ">">>),
    Piece("empty", <<"a">>, <<"<", "a", "/", ">">>),
    Piece("text", Null, <<" ", "a", "\n">>),
    Piece("text", Null, <<"&", "lt", ";", "\n", " ", "b">>),
    Piece("text", Null, <<"<", "!", "-", "-", "<", "-", "-", ">">>),
    Piece("text", Null, <<"<", "!", "DOCTYPE", " ", "a", ">">>),
    Piece("bad", Null, <<"&", "b", ";">>),
    Piece("bad", Null, <<"<", "a", " ", "=", ">">>) }

---------------------------------------------------------------------------
(* XPath: paths, conditions and arithmetic up to some depth. *)

Unary(op, l, v) == enode(op, l, NoExpr, v)
Binary(op, l, r) == enode(op, l, r, "")
AttrX == Unary("attribute", NodeExpr, "x")
ChildB == Unary("child", NodeExpr, "b")
AnyA == Unary("descendant", NodeExpr, "a")
Steps == {Unary(o, NodeExpr, n) : o \in {"child", "descendant"}, n \in {"a", "b"}}
LongPaths == {Unary(o, p, n) : o \in {"child", "descendant", "self"}, p \in Steps, n \in {"a", ""}}
Tests == {ChildB, AnyA}
    \cup {Binary(o, l, r) : o \in {"=", "<", "!="}, l \in {AttrX, ChildB},
                            r \in {AttrX, ChildB, StringConst(<<"9">>), IntConst(10)}}
Nots == {Unary("not", q, "") : q \in Tests}
Pairs == {Binary(o, l, r) : o \in {"and", "or"}, l \in Tests,
                            r \in {AnyA, Binary("=", AttrX, StringConst(<<"9">>))}}
Triples == {Binary(o, l, r) : o \in {"and", "or"}, l \in Tests \cup Nots \cup Pairs,
              r \in {AnyA, Binary("or", ChildB, Unary("child", NodeExpr, "a"))}}
Where(p, q) == Binary("predicate", p, q)
Ints == {IntConst(n) : n \in 0..2}
Terms == {Binary(o, l, r) : o \in {"+", "-", "*", "div", "mod"}, l \in Ints, r \in Ints}
Sums == {Binary(o, l, r) : o \in {"-", "*", "div"}, l \in Terms, r \in Ints}
    \cup {Binary(o, l, r) : o \in {"-", "*", "mod"}, l \in Ints, r \in Terms}
MCExpressions == Steps \cup LongPaths \cup Terms \cup Sums
    \cup {Where(p, q) : p \in Steps, q \in Tests \cup Nots \cup Pairs}
    \cup {Where(NodeExpr, q) : q \in Triples}
    \cup {Where(Where(p, q), q) : p \in Steps, q \in Tests}
    \cup {Unary("child", Where(p, q), "b") : p \in Steps, q \in Tests}
MCTokens == {Sym(s) : s \in {"/", "@", "[", "]", "(", ")", "=", " "}}
    \cup {Name("a"), Name("and"), Name("last"), IntTok(1), AxisName("self", "")}

Elem(n, t, c, ats) == [name |-> <<n>>, attrs |-> ats, cdata |-> t, children |-> c]
Top(c) == [name |-> Null, attrs |-> <<>>, cdata |-> Null, children |-> c]
X(v) == <<<< <<"x">>, v>>>>
MCDocs == {
    Top(<<Elem("a", <<"9">>,
               <<Elem("b", <<"1", "0">>, <<Elem("a", <<"a">>, <<>>, X(<<"9">>))>>, <<>>),
                 Elem("b", <<"9">>, <<>>, X(<<>>))>>, X(<<"1", "0">>)),
          Elem("b", <<"1">>,
               <<Elem("a", <<"9">>, <<>>, X(<<"9">>)), Elem("b", <<"9">>, <<>>, <<>>)>>,
               X(<<"9">>))>>),
    Top(<<Elem("b", <<"9">>, <<Elem("b", <<"9", "a">>, <<>>, X(<<"9", "a">>))>>, X(<<"1">>))>>) }
Digit == <<"0", "1", "2", "3", "4", "5", "6", "7", "8", "9", "a">>
MCCode == [c \in ToSet(Digit) |-> CHOOSE n \in 0..10 : Digit[n + 1] = c]

---------------------------------------------------------------------------
(* Documents under a schema: every type with good and bad texts. *)

Plain(name, t) == XNode(name, "", t, <<>>)
Bare(name) == Plain(name, NoText)
Rich(name, nodes) == XNode(name, "", NoText, nodes)
Bits == "lo" :> 0 @@ "mid" :> 3 @@ "hi" :> 6
XTexts == {NoText, Dec(0), Dec(1), Dec(3), Dec(255), Dec(256), Dec(32768), Dec(-1),
           Hex(65535), Word("true"), Word("x"), Word("lo")}
ScalarCases ==
    ({Scalar(t) : t \in {"s", "o", "y", "b", "q", "n", "i"}}
     \cup {FlagType, Enum("u", Bits), Enum("y", Bits), Void}) \X {Plain("t", t) : t \in XTexts}
BitCases == {Bitmap("y", Bits)} \X
    {Rich("t", [i \in DOMAIN s |-> Bare(s[i])]) : s \in BoundedSeq(DOMAIN Bits \cup {"bad"}, 3)}
UuidCases == {UuidType} \X {Plain("t", Uuid(<<7, 9>>)), Plain("t", Word("x"))}
Inner == DictOf(<<Field("n", Scalar("y"), TRUE, ""), Field("s", Scalar("s"), FALSE, "")>>, <<>>)
InnerNodes == {Rich("t", c) : c \in {<<>>, <<Plain("n", Dec(5))>>, <<Plain("n", Word("x"))>>,
                                     <<Plain("s", Word("x")), Plain("n", Hex(5))>>}}
ArrayCases ==
    ({ArrayOf(Scalar(t), "e") : t \in {"s", "o", "y", "n"}} \X
     {Rich("t", c) : c \in BoundedSeq({Plain("f", Dec(3)), Plain("g", Word("x")), Bare("e")}, 2)})
    \cup ({ArrayOf(Inner, "e")} \X {Rich("t", c) : c \in BoundedSeq(InnerNodes, 2)})
AUnion == UnionOf("num" :> Scalar("q") @@ "tab" :> Inner @@ "none" :> Void)
UnionNodes == {[n EXCEPT !.kind = k] : k \in {"num", "tab", "none", "bad"},
                                       n \in InnerNodes \cup {Plain("t", Dec(7)), Bare("t")}}
Outer == DictOf(<<Field("u", AUnion, FALSE, "one"), Field("b", Bitmap("q", Bits), FALSE, "one"),
                  Field("l", ArrayOf(Inner, "e"), FALSE, "some"),
                  Field("i", Scalar("i"), FALSE, "some"),
                  Field("o", ArrayOf(Scalar("o"), "e"), FALSE, ""), Field("v", Void, FALSE, "")>>,
                "one" :> "conflict" @@ "some" :> "require")
OuterChildren ==
    {[n EXCEPT !.name = "u"] : n \in {u \in UnionNodes : u.kind \in {"num", "tab"}}}
    \cup {Rich("b", <<Bare("hi"), Bare("lo")>>), Rich("l", <<>>), Bare("o"), Bare("v"),
          Plain("i", Dec(70000)), Plain("zz", Dec(3))}
    \cup {Rich("l", <<n>>) : n \in InnerNodes}
OuterCases == {Outer} \X {Rich("t", c) : c \in BoundedSeq(OuterChildren, 3)}
SmallCases == {DictOf(<<Field("u", AUnion, FALSE, ""), Field("f", FlagType, FALSE, "")>>, <<>>)} \X
    {Rich("t", c) : c \in BoundedSeq({[n EXCEPT !.name = "u"] : n \in UnionNodes}
                                       \cup {Bare("f"), Plain("f", Word("x"))}, 2)}
MCCases == ScalarCases \cup BitCases \cup UuidCases \cup ArrayCases
    \cup ({AUnion, ArrayOf(AUnion, "e")} \X UnionNodes) \cup SmallCases \cup OuterCases

---------------------------------------------------------------------------
AgentIdle ==
    /\ file = Null /\ agent = "down" /\ state = NoState
    /\ unwritten = <<>> /\ saved = NoState /\ torn = FALSE /\ starts = 0
RewriteIdle == pieces = <<>> /\ docs = <<>> /\ walk = <<>> /\ job = "over"
XPathIdle ==
    /\ xtoks = <<>> /\ xmeant = NoExpr /\ xparsed = NoExpr
    /\ xdoc = NoNode /\ xresult = NoResult /\ xjob = "over"
XsIdle ==
    /\ xsType = Void /\ xsNode = XBad /\ xsVar = Invalid
    /\ xsWire = NoWire /\ xsBack = XBad /\ xsJob = "over"

\* A loop that does not run: no step of it is enabled.
LoopIdle ==
    /\ pc = "off" /\ ret = "main" /\ sk = NoSockets
    /\ pfd = <<>> /\ rev = <<>> /\ idx = 0 /\ tmo = -1 /\ timer = Period
    /\ inbox = <<>> /\ queue = <<>> /\ unsent = {}
    /\ kid = [p \in Proc |-> "none"] /\ held = {}
    /\ pb = {} /\ heap = [p \in Proc |-> "none"] /\ waitq = <<>>
    /\ sig = FALSE /\ intr = FALSE /\ exiting = None

Init ==
    \/ /\ task = "agent" /\ AgentInit
       /\ RewriteIdle /\ XPathIdle /\ XsIdle /\ BufferInit /\ LoopIdle
    \/ /\ task = "rewrite" /\ RewriteInit
       /\ AgentIdle /\ XPathIdle /\ XsIdle /\ BufferInit /\ LoopIdle
    \/ /\ task = "xpath" /\ XPathInit
       /\ ReaderIdle /\ AgentIdle /\ RewriteIdle /\ XsIdle /\ BufferInit /\ LoopIdle
    \/ /\ task = "schema" /\ XsInit
       /\ ReaderIdle /\ AgentIdle /\ RewriteIdle /\ XPathIdle /\ BufferInit /\ LoopIdle
    \/ /\ task = "buffer" /\ BufferInit
       /\ ReaderIdle /\ AgentIdle /\ RewriteIdle /\ XPathIdle /\ XsIdle /\ LoopIdle
    \/ /\ task = "loop" /\ LoopInit
       /\ ReaderIdle /\ AgentIdle /\ RewriteIdle /\ XPathIdle /\ XsIdle /\ BufferInit

Next ==
    \/ /\ task = "agent" /\ AgentNext
       /\ UNCHANGED <<task, rewriteVars, xpathVars, xsVars, bufferVars, loopVars>>
    \/ /\ task = "rewrite" /\ RewriteNext
       /\ UNCHANGED <<task, agentVars, xpathVars, xsVars, bufferVars, loopVars>>
    \/ /\ task = "xpath" /\ XPathNext
       /\ UNCHANGED <<task, readerVars, agentVars, rewriteVars, xsVars, bufferVars, loopVars>>
    \/ /\ task = "schema" /\ XsNext
       /\ UNCHANGED <<task, readerVars, agentVars, rewriteVars, xpathVars, bufferVars, loopVars>>
    \/ /\ task = "buffer" /\ BufferNext
       /\ UNCHANGED <<task, readerVars, agentVars, rewriteVars, xpathVars, xsVars, loopVars>>
    \/ /\ task = "loop" /\ LoopNext
       /\ UNCHANGED <<task, readerVars, agentVars, rewriteVars, xpathVars, xsVars, bufferVars>>

Spec ==
    /\ Init
    /\ [][Next]_<<task, readerVars, agentVars, rewriteVars, xpathVars, xsVars, bufferVars, loopVars>>
    /\ LoopFairness
=============================================================================
