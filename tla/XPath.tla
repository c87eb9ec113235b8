------------------------------- MODULE XPath -------------------------------
(***************************************************************************)
(* XPath expressions (dborb/xpath.c), by which the schema refers to parts  *)
(* of a document: the parser, which is a recursive descent with operator   *)
(* priorities, and the evaluation on a tree.                               *)
(*                                                                         *)
(* An expression text is a sequence of tokens.  White space is a token,    *)
(* since the parser does not accept it everywhere.  A node of the document *)
(* is its path from the top.  A text is a sequence of digits and letters,  *)
(* ordered by Code.                                                        *)
(***************************************************************************)
EXTENDS Integers, Sequences, SequencesExt, FiniteSetsExt, Xml

CONSTANTS
    Code,           \* the order of the characters, from 0; digits first
    Expressions,    \* expressions that are printed and parsed
    Tokens,         \* tokens that are put together at random
    MaxTokens,      \* bound: how many of them
    XDocuments      \* what the expressions are evaluated on

VARIABLES
    xtoks,      \* the text of the expression
    xmeant,     \* the expression it was printed from; NoExpr when there is none
    xparsed,    \* what xpath_expression_parse made of it
    xdoc,       \* the document
    xresult,    \* what xpath_expression_eval returned
    xjob        \* "parse", "eval" or "over"

xpathVars == <<xtoks, xmeant, xparsed, xdoc, xresult, xjob>>

---------------------------------------------------------------------------
(* Expressions.  xpath_enode_t: the operation, its operands and its value. *)

NoExpr == [op |-> "null"]
enode(op, left, right, val) == [op |-> op, left |-> left, right |-> right, val |-> val]
Leaf(op) == enode(op, NoExpr, NoExpr, "")
NodeExpr == Leaf("node")
IntConst(n) == [op |-> "int", left |-> NoExpr, right |-> NoExpr, integer |-> n]
StringConst(s) == [op |-> "string", left |-> NoExpr, right |-> NoExpr, text |-> s]

Functions == {"true", "false", "last", "not"}
Axes == {"child", "descendant", "attribute", "self"}
Comparison == {"=", "<", ">", "!="}

xpath_get_infix_ops ==
    [o \in {"and", "or", "+", "-", "*", "div", "mod"} \cup Comparison |->
       CASE o = "or" -> 1
         [] o = "and" -> 2
         [] o \in Comparison -> 3
         [] o \in {"+", "-"} -> 4
         [] OTHER -> 5]

\* The type an operation yields.
outtype(op) ==
    CASE op \in {"node", "self", "child", "descendant", "predicate"} -> "element"
      [] op \in {"attribute", "string"} -> "string"
      [] op \in {"int", "last", "+", "-", "*", "div", "mod"} -> "integer"
      [] OTHER -> "boolean"

\* The type it takes.
intype(op) ==
    CASE op \in {"+", "-", "*", "div", "mod"} -> "integer"
      [] op \in {"and", "or", "not"} -> "boolean"
      [] op \in Comparison \cup {"string", "int", "true", "false"} -> "any"
      [] OTHER -> "element"

\* __xpath_enode_assert_element: what a step may be applied to.
assert_element(e) == IF e = NoExpr THEN NodeExpr ELSE e
IsElement(e) == e = NoExpr \/ outtype(e.op) = "element"

---------------------------------------------------------------------------
(* The parser.  A token has a kind, "sym", "name", "int" or "string";      *)
(* a name has an axis too, "" when there is none.    The result is the     *)
(* expression and the position behind it; an expression of NoExpr is the   *)
(* null pointer that all callers take for a failure.                       *)

Sym(s) == [k |-> "sym", v |-> s]
IntTok(n) == [k |-> "int", i |-> n]
StringTok(s) == [k |-> "string", s |-> s]
Name(n) == [k |-> "name", axis |-> "", v |-> n]
AxisName(a, n) == [k |-> "name", axis |-> a, v |-> n]

RECURSIVE Build(_, _, _, _, _)

Failed == [e |-> NoExpr, p |-> 0]
Got(e, p) == [e |-> e, p |-> p]

IsSym(toks, p, s) == p \in DOMAIN toks /\ toks[p] = Sym(s)
IsName(toks, p) == p \in DOMAIN toks /\ toks[p].k = "name"
skipws(toks, p) == IF IsSym(toks, p, " ") THEN p + 1 ELSE p

\* handle_name_or_axis: a step, named by the token at q; op is "" where the
\* name tells.
Step(toks, q, term, prio, sofar, op) ==
    IF ~IsName(toks, q) THEN Failed
    ELSE LET t == toks[q]
             next == skipws(toks, q + 1)
             step(o, v, p) ==
               Build(toks, p, term, prio, enode(o, assert_element(sofar), NoExpr, v))
         IN  CASE ~IsElement(sofar) -> Failed
               [] op # "" -> step(op, t.v, next)
               [] t.axis # "" ->
                    (CASE t.axis \notin Axes -> Failed
                       [] t.v # "" -> step(t.axis, t.v, next)
                       [] IsSym(toks, next, "*") -> step(t.axis, "", next + 1)
                       [] OTHER -> Failed)
               [] IsSym(toks, next, "(") ->
                    IF t.v \notin Functions THEN Failed
                    ELSE LET arg == skipws(toks, next + 1)
                         IN  IF IsSym(toks, arg, ")")
                             THEN Build(toks, arg + 1, term, prio,
                                        enode(t.v, assert_element(sofar), NoExpr, ""))
                             ELSE Failed
               [] OTHER -> step("child", t.v, next)

\* handle_function at the start of an operand, where there is nothing to its
\* left, or behind an operand that is not followed by a slash.
Call(toks, q, term, prio, sofar) ==
    LET arg == skipws(toks, skipws(toks, q + 1) + 1)
        inner == Build(toks, arg, ")", 0, NoExpr)
    IN  CASE toks[q].v \notin Functions -> Failed
          [] IsSym(toks, arg, ")") ->
               Build(toks, arg + 1, term, prio, enode(toks[q].v, sofar, NoExpr, ""))
          [] sofar # NoExpr \/ inner.e = NoExpr -> Failed
          [] OTHER -> Build(toks, inner.p + 1, term, prio,
                            enode(toks[q].v, inner.e, NoExpr, ""))

\* handle_infix_operator: an operator that does not bind tighter than the one
\* to the left of this operand ends the operand.
Infix(toks, q, term, prio, sofar, op) ==
    LET limit == xpath_get_infix_ops[op]
        right == Build(toks, q + 1, term, limit, NoExpr)
    IN  CASE sofar = NoExpr -> Failed
          [] limit <= prio -> Got(sofar, q)
          [] right.e = NoExpr -> Failed
          [] OTHER -> Build(toks, right.p, term, prio, enode(op, sofar, right.e, ""))

\* __xpath_build_expr, with the expression so far.
Build(toks, p, term, prio, sofar) ==
    IF IF term = "" THEN p > Len(toks) ELSE IsSym(toks, p, term) THEN Got(sofar, p)
    ELSE LET q == skipws(toks, p)
             t == toks[q]
             inner(close) == Build(toks, q + 1, close, 0, NoExpr)
         IN  CASE q > Len(toks) -> Failed
               [] t = Sym("/") ->
                    IF IsSym(toks, q + 1, "@")
                    THEN Step(toks, q + 2, term, prio, sofar, "attribute")
                    ELSE Step(toks, q + 1, term, prio, sofar, "")
               [] t = Sym("//") -> Step(toks, q + 1, term, prio, sofar, "descendant")
               [] t = Sym("@") -> Step(toks, q + 1, term, prio, sofar, "attribute")
               [] t = Sym("[") ->
                    IF ~IsElement(sofar) \/ inner("]").e = NoExpr THEN Failed
                    ELSE Build(toks, inner("]").p + 1, term, prio,
                               enode("predicate", assert_element(sofar), inner("]").e, ""))
               [] t = Sym("(") ->
                    IF sofar # NoExpr \/ inner(")").e = NoExpr THEN Failed
                    ELSE Build(toks, inner(")").p + 1, term, prio, inner(")").e)
               [] t.k = "sym" /\ t.v \in Comparison \cup {"+", "-", "*"} ->
                    Infix(toks, q, term, prio, sofar, t.v)
               [] t.k = "name" ->
                    (CASE t.axis # "" -> Step(toks, q, term, prio, sofar, "")
                       [] t.v \in {"and", "or", "div", "mod"} ->
                            Infix(toks, q, term, prio, sofar, t.v)
                       [] IsSym(toks, skipws(toks, q + 1), "(") ->
                            Call(toks, q, term, prio, sofar)
                       [] t.v \in {"true", "false"} ->
                            IF sofar # NoExpr THEN Failed
                            ELSE Build(toks, skipws(toks, q + 1), term, prio,
                                       Leaf(t.v))
                       [] OTHER -> Step(toks, q, term, prio, sofar, ""))
               [] t.k \in {"int", "string"} ->
                    IF sofar # NoExpr THEN Failed
                    ELSE Build(toks, q + 1, term, prio,
                               IF t.k = "int" THEN IntConst(t.i) ELSE StringConst(t.s))
               [] OTHER -> Failed

\* xpath_expression_parse: all of the text, and a slash alone.
xpath_expression_parse(toks) ==
    IF toks \in {<<Sym("/")>>, <<Sym("//")>>} THEN NodeExpr
    ELSE Build(toks, 1, "", 0, NoExpr).e

---------------------------------------------------------------------------
(* The evaluation.  A result has a type and items; NoResult is the null    *)
(* pointer of an error.                                                    *)

NoResult == [type |-> "null", items |-> <<>>]
Result(t, items) == [type |-> t, items |-> items]
Bool(b) == Result("boolean", <<b>>)
IsTrue(r) == \E i \in DOMAIN r.items : r.items[i]

RECURSIVE Number(_), Digits(_)

\* strtol: the value of a text that is all digits.
Number(t) == IF t = <<>> THEN 0 ELSE 10 * Number(Front(t)) + Code[Last(t)]
IsNumber(t) == \A i \in DOMAIN t : Code[t[i]] < 10
Digits(n) ==
    LET last == CHOOSE c \in DOMAIN Code : Code[c] = n % 10
    IN  IF n < 10 THEN <<last>> ELSE Append(Digits(n \div 10), last)

TextOf(doc, x) ==
    LET t == NodeAt(doc, x).cdata IN IF t = Null THEN <<>> ELSE t

\* xpath_result_to_strings
xpath_result_to_strings(doc, r) ==
    Result("string",
        [i \in DOMAIN r.items |->
           CASE r.type = "element" -> TextOf(doc, r.items[i])
             [] r.type = "integer" -> Digits(r.items[i])
             [] r.type = "boolean" -> IF r.items[i] THEN <<"t">> ELSE <<"f">>
             [] OTHER -> r.items[i]])

\* __xpath_expression_cast
Cast(doc, op, r) ==
    LET to == intype(op)
        texts == IF r.type \in {"element", "string"} THEN xpath_result_to_strings(doc, r)
                 ELSE r
        nonzero(v) == CASE r.type = "element" -> TRUE
                        [] r.type = "string" -> v # <<>>
                        [] OTHER -> v # 0
    IN  CASE r = NoResult \/ to = "any" \/ to = r.type -> r
          [] to = "boolean" -> Bool(\E i \in DOMAIN r.items : nonzero(r.items[i]))
          [] to = "integer" /\ r.type # "boolean" ->
               LET numbers == SelectSeq(texts.items, IsNumber)
               IN  Result("integer", [i \in DOMAIN numbers |-> Number(numbers[i])])
          [] OTHER -> NoResult

\* strcmp
Before(s, t) ==
    \/ IsStrictPrefix(s, t)
    \/ \E i \in DOMAIN s \cap DOMAIN t :
         /\ SubSeq(s, 1, i - 1) = SubSeq(t, 1, i - 1)
         /\ Code[s[i]] < Code[t[i]]

Compare(doc, op, type, a, b) ==
    LET x == IF type = "element" THEN TextOf(doc, a) ELSE a
        y == IF type = "element" THEN TextOf(doc, b) ELSE b
        less(u, v) == CASE type = "integer" -> u < v
                        [] type = "boolean" -> ~u /\ v
                        [] OTHER -> Before(u, v)
    IN  CASE op = "=" -> x = y
          [] op = "!=" -> x # y
          [] op = "<" -> less(x, y)
          [] op = ">" -> less(y, x)

\* __xpath_enode_generic_comparison: true for some pair; values of different
\* types are compared as texts.
generic_comparison(doc, op, left, right) ==
    LET same == left.type = right.type
        l == IF same THEN left ELSE xpath_result_to_strings(doc, left)
        r == IF same THEN right ELSE xpath_result_to_strings(doc, right)
    IN  Bool(\E i \in DOMAIN l.items, j \in DOMAIN r.items :
               Compare(doc, op, l.type, l.items[i], r.items[j]))

\* The division of C, which rounds towards zero.
Quotient(a, b) ==
    LET abs(n) == IF n < 0 THEN -n ELSE n
        q == abs(a) \div abs(b)
    IN  IF (a < 0) = (b < 0) THEN q ELSE -q

\* __xpath_enode_generic_arith: every pair; a division by zero yields nothing.
generic_arith(op, left, right) ==
    LET pairs == FlattenSeq([i \in DOMAIN left.items |->
                   [j \in DOMAIN right.items |-> <<left.items[i], right.items[j]>>]])
        done == SelectSeq(pairs, LAMBDA p : op \in {"div", "mod"} => p[2] # 0)
        value(a, b) == CASE op = "+" -> a + b
                         [] op = "-" -> a - b
                         [] op = "*" -> a * b
                         [] op = "div" -> Quotient(a, b)
                         [] op = "mod" -> a - b * Quotient(a, b)
    IN  Result("integer", [k \in DOMAIN done |-> value(done[k][1], done[k][2])])

ChildrenOf(doc, x) == [i \in DOMAIN NodeAt(doc, x).children |-> Append(x, i)]

RECURSIVE descendants_match(_, _)

\* Mutant: does not go down into the children.
descendants_match_OneLevel(doc, x) == ChildrenOf(doc, x)

\* __xpath_descendants_match: the nodes below x in document order.
descendants_match(doc, x) ==
    LET kids == ChildrenOf(doc, x)
    IN  FlattenSeq([i \in DOMAIN kids |-> <<kids[i]>> \o descendants_match(doc, kids[i])])

\* The axes: what each node of the input leads to, in order.
Axis(doc, op, name, in) ==
    LET from(x) == CASE op = "self" -> <<x>>
                     [] op = "child" -> ChildrenOf(doc, x)
                     [] op = "descendant" -> descendants_match(doc, x)
        all == FlattenSeq([i \in DOMAIN in.items |-> from(in.items[i])])
    IN  Result("element", SelectSeq(all, LAMBDA x : name = "" \/ NodeAt(doc, x).name = <<name>>))

getattr_evaluate(doc, name, in) ==
    LET has == SelectSeq(in.items, LAMBDA x : xml_node_get_attr(NodeAt(doc, x), <<name>>) # Null)
    IN  Result("string", [i \in DOMAIN has |-> xml_node_get_attr(NodeAt(doc, has[i]), <<name>>)])

RECURSIVE Constant(_), Eval(_, _, _)

\* __xpath_expression_constant
Constant(e) ==
    IF e.left = NoExpr THEN e.op \in {"string", "int", "true", "false", "last", "not"}
    ELSE Constant(e.left) /\ (e.right = NoExpr \/ Constant(e.right))

\* How often the m-th node of the left side is kept, given its subscript.
Kept(right, m) ==
    CASE right.type = "element" -> IF right.items = <<>> THEN 0 ELSE 1
      [] right.type = "integer" -> Len(SelectSeq(right.items, LAMBDA v : v = m))
      [] right.type = "boolean" -> Len(SelectSeq(right.items, LAMBDA v : v))
      [] OTHER -> 0

\* __xpath_enode_predicate_evaluate.  A constant subscript is evaluated once
\* and is an index, or true.  Where it is true the code returns its argument,
\* which the caller then frees; the model has what the memory held.
predicate_evaluate(doc, e, left) ==
    IF left.items # <<>> /\ Constant(e.right)
    THEN LET right == Eval(doc, e.right, left)
             index == SelectSeq(right.items, LAMBDA v : v \in DOMAIN left.items)
         IN  CASE right = NoResult -> NoResult
               [] right.type = "integer" ->
                    Result("element", [i \in DOMAIN index |-> left.items[index[i]]])
               [] right.type = "boolean" /\ IsTrue(right) -> left
               [] OTHER -> Result("element", <<>>)
    ELSE Result("element", FlattenSeq([m \in DOMAIN left.items |->
           LET right == Eval(doc, e.right, Result("element", <<left.items[m]>>))
           IN  [i \in 1..Kept(right, m) |-> left.items[m]]]))

\* __xpath_expression_eval
Eval(doc, e, in) ==
    IF e.op \in DOMAIN xpath_get_infix_ops
    THEN LET left == Cast(doc, e.op, Eval(doc, e.left, in))
             right == Cast(doc, e.op, Eval(doc, e.right, in))
         IN  CASE left = NoResult \/ right = NoResult -> NoResult
               [] e.op = "and" -> Bool(IsTrue(left) /\ IsTrue(right))
               [] e.op = "or" -> Bool(IsTrue(left) \/ IsTrue(right))
               [] e.op \in Comparison -> generic_comparison(doc, e.op, left, right)
               [] OTHER -> generic_arith(e.op, left, right)
    ELSE LET left == Cast(doc, e.op, IF e.left = NoExpr THEN in ELSE Eval(doc, e.left, in))
         IN  CASE left = NoResult -> NoResult
               [] e.op = "node" -> left
               [] e.op \in {"self", "child", "descendant"} -> Axis(doc, e.op, e.val, left)
               [] e.op = "attribute" -> getattr_evaluate(doc, e.val, left)
               [] e.op = "predicate" -> predicate_evaluate(doc, e, left)
               [] e.op = "int" -> Result("integer", <<e.integer>>)
               [] e.op = "string" -> Result("string", <<e.text>>)
               [] e.op = "last" -> Result("integer", <<Len(left.items)>>)
               [] e.op = "not" -> Bool(~IsTrue(left))
               [] e.op \in {"true", "false"} -> Bool(e.op = "true")

xpath_expression_eval(doc, e) == Eval(doc, e, Result("element", <<<<>>>>))

---------------------------------------------------------------------------
(* An expression is parsed and evaluated (ni_dbus_xml_expand_element_      *)
(* reference).                                                             *)

RECURSIVE PrintExpr(_)

\* An expression as somebody would write it, with no parenthesis that is not
\* needed.
PrintExpr(e) ==
    LET prio(x) == IF x.op \in DOMAIN xpath_get_infix_ops
                   THEN xpath_get_infix_ops[x.op] ELSE 6
        paren(x, yes) == IF yes THEN <<Sym("(")>> \o PrintExpr(x) \o <<Sym(")")>>
                         ELSE PrintExpr(x)
        path == IF e.left = NodeExpr THEN <<>> ELSE PrintExpr(e.left)
        operator == IF e.op \in {"and", "or", "div", "mod"} THEN Name(e.op) ELSE Sym(e.op)
    IN  CASE e.op \in DOMAIN xpath_get_infix_ops ->
               paren(e.left, prio(e.left) < prio(e)) \o <<operator>>
               \o paren(e.right, prio(e.right) <= prio(e))
          [] e.op = "node" -> <<Sym("/")>>
          [] e.op \in Axes /\ e.val = "" -> path \o <<Sym("/"), AxisName(e.op, ""), Sym("*")>>
          [] e.op = "self" -> path \o <<Sym("/"), AxisName(e.op, e.val)>>
          [] e.op = "child" -> path \o <<Sym("/"), Name(e.val)>>
          [] e.op = "descendant" -> path \o <<Sym("//"), Name(e.val)>>
          [] e.op = "attribute" -> path \o <<Sym("/"), Sym("@"), Name(e.val)>>
          [] e.op = "predicate" -> path \o <<Sym("[")>> \o PrintExpr(e.right) \o <<Sym("]")>>
          [] e.op = "int" -> <<IntTok(e.integer)>>
          [] e.op = "string" -> <<StringTok(e.text)>>
          [] OTHER ->
               IF e.left = NodeExpr THEN <<Sym("/"), Name(e.op), Sym("("), Sym(")")>>
               ELSE <<Name(e.op), Sym("(")>>
                    \o (IF e.left = NoExpr THEN <<>> ELSE PrintExpr(e.left)) \o <<Sym(")")>>

XPathInit ==
    /\ \/ /\ xmeant \in Expressions
          /\ xtoks = PrintExpr(xmeant)
       \/ /\ xmeant = NoExpr
          /\ xtoks \in BoundedSeq(Tokens, MaxTokens)
    /\ xdoc \in IF xmeant = NoExpr THEN {CHOOSE d \in XDocuments : TRUE} ELSE XDocuments
    /\ xparsed = NoExpr
    /\ xresult = NoResult
    /\ xjob = "parse"

ParseExpression ==
    /\ xjob = "parse"
    /\ xparsed' = xpath_expression_parse(xtoks)
    /\ xjob' = IF xparsed' = NoExpr THEN "over" ELSE "eval"
    /\ UNCHANGED <<xtoks, xmeant, xdoc, xresult>>

EvalExpression ==
    /\ xjob = "eval"
    /\ xresult' = IF xmeant = NoExpr THEN NoResult
                  ELSE xpath_expression_eval(xdoc, xparsed)
    /\ xjob' = "over"
    /\ UNCHANGED <<xtoks, xmeant, xparsed, xdoc>>

XPathNext == ParseExpression \/ EvalExpression

---------------------------------------------------------------------------
(* What an expression means, node by node.                                 *)

RECURSIVE Selects(_, _, _), Values(_, _, _), Applies(_, _, _)

AllNodes(doc) == {<<>>} \cup ToSet(Paths(doc))

\* The nodes that path e leads to from node x.
Selects(doc, e, x) ==
    LET from == Selects(doc, e.left, x)
        named(y) == e.val = "" \/ NodeAt(doc, y).name = <<e.val>>
    IN  CASE e.op = "node" -> {x}
          [] e.op = "self" -> {y \in from : named(y)}
          [] e.op = "child" -> {y \in AllNodes(doc) : y # <<>> /\ Front(y) \in from /\ named(y)}
          [] e.op = "descendant" ->
               {y \in AllNodes(doc) : named(y) /\ \E z \in from : IsStrictPrefix(z, y)}
          [] e.op = "predicate" -> {y \in from : Applies(doc, e.right, y)}

\* The texts of an operand of a comparison.
Values(doc, e, x) ==
    CASE e.op = "string" -> {e.text}
      [] e.op = "int" -> {Digits(e.integer)}
      [] e.op = "attribute" ->
           {xml_node_get_attr(NodeAt(doc, y), <<e.val>>) : y \in Selects(doc, e.left, x)} \ {Null}
      [] OTHER -> {TextOf(doc, y) : y \in Selects(doc, e, x)}

\* Whether condition e holds for node x.
Applies(doc, e, x) ==
    CASE e.op = "and" -> Applies(doc, e.left, x) /\ Applies(doc, e.right, x)
      [] e.op = "or" -> Applies(doc, e.left, x) \/ Applies(doc, e.right, x)
      [] e.op = "not" -> ~Applies(doc, e.left, x)
      [] e.op \in Comparison ->
           \E a \in Values(doc, e.left, x), b \in Values(doc, e.right, x) :
             \/ e.op = "=" /\ a = b
             \/ e.op = "!=" /\ a # b
             \/ e.op = "<" /\ Before(a, b)
             \/ e.op = ">" /\ Before(b, a)
      [] OTHER -> Selects(doc, e, x) # {}

RECURSIVE Computes(_)

\* The value of an expression of integers; <<>> where it has none.
Computes(e) ==
    IF e.op = "int" THEN <<e.integer>>
    ELSE LET a == Computes(e.left)
             b == Computes(e.right)
         IN  CASE a = <<>> \/ b = <<>> -> <<>>
               [] e.op = "+" -> <<a[1] + b[1]>>
               [] e.op = "-" -> <<a[1] - b[1]>>
               [] e.op = "*" -> <<a[1] * b[1]>>
               [] b[1] = 0 -> <<>>
               [] OTHER -> LET q == CHOOSE q \in -99..99 : \E r \in -99..99 :
                                   /\ a[1] = q * b[1] + r
                                   /\ r * r < b[1] * b[1]
                                   /\ r * a[1] >= 0
                           IN  IF e.op = "div" THEN <<q>> ELSE <<a[1] - q * b[1]>>

\* The parser reads an expression as it was meant: priorities, associativity,
\* subscripts and functions (__xpath_build_expr).  Whatever it accepts, it
\* accepts again, as the same expression, when it is written out.
ParsedAsMeant ==
    xjob # "parse" =>
      /\ xmeant # NoExpr => xparsed = xmeant
      /\ xparsed # NoExpr => xpath_expression_parse(PrintExpr(xparsed)) = xparsed

\* A path selects exactly the nodes it leads to and for which its conditions
\* hold, and arithmetic has the value it has (__xpath_expression_eval).
EvaluatesAsMeant ==
    xjob = "over" /\ xresult # NoResult =>
      CASE xresult.type = "element" ->
             ToSet(xresult.items) = Selects(xdoc, xmeant, <<>>)
        [] xresult.type = "integer" -> xresult.items = Computes(xmeant)
        [] OTHER -> TRUE

\* An expression means what it says, from its text to its result
\* (xpath_expression_parse, xpath_expression_eval).
ExpressionsAsMeant == ParsedAsMeant /\ EvaluatesAsMeant
=============================================================================
