-------------------------------- MODULE Xml --------------------------------
(***************************************************************************)
(* dborb's XML: the tree (xml.c), the writer (xml-writer.c) and the reader *)
(* (xml-reader.c).  The state file of the agent, the configuration files   *)
(* and the schema all pass through this code.                              *)
(*                                                                         *)
(* A text is a sequence of symbols.  A symbol is one character, or one of  *)
(* Words, which stands for a run of letters.  A name is a sequence of      *)
(* Words, so two adjacent words are one longer name, as they are for the   *)
(* reader.  The reader is a state machine that takes one token per step;   *)
(* the recursion of xml_process_element_nested is the stack `open'.        *)
(***************************************************************************)
EXTENDS Naturals, Sequences, SequencesExt, FiniteSetsExt

CONSTANT Words          \* runs of letters

VARIABLES
    text,   \* what is being read
    pos,    \* the next character
    lex,    \* xml_reader.state: "Initial" or "Tag"
    at,     \* where xml_process_element_nested and its callees stand
    tag,    \* the tag that is being read: its node and what began it
    open    \* the nodes whose end has not been seen, the root first

readerVars == <<text, pos, lex, at, tag, open>>

Null == <<"null">>      \* a null pointer where text is expected
Space == {" ", "\n"}

---------------------------------------------------------------------------
(* The tree. *)

xml_node_new(name) ==
    [name |-> name, attrs |-> <<>>, cdata |-> Null, children |-> <<>>]

\* A null pointer where a node is expected.
NoNode == xml_node_new(<<"no node">>)

xml_node_add_child(parent, child) ==
    [parent EXCEPT !.children = Append(@, child)]

xml_node_new_element(name, cdata) == [xml_node_new(name) EXCEPT !.cdata = cdata]

\* The last value given to an attribute is the one that stays, in the place
\* of the first.
xml_node_add_attr(node, n, v) ==
    LET k == SelectInSeq(node.attrs, LAMBDA a : a[1] = n)
    IN  IF k = 0 THEN [node EXCEPT !.attrs = Append(@, <<n, v>>)]
                 ELSE [node EXCEPT !.attrs[k] = <<n, v>>]

xml_node_get_attr(node, n) ==
    LET k == SelectInSeq(node.attrs, LAMBDA a : a[1] = n)
    IN  IF k = 0 THEN Null ELSE node.attrs[k][2]

\* The first child of that name; 0 when there is none.
xml_node_get_child(node, name) ==
    SelectInSeq(node.children, LAMBDA c : c.name = name)

---------------------------------------------------------------------------
(* The traversal.  A node is its path: the indices of the children that    *)
(* lead to it from the top.                                                *)

RECURSIVE NodeAt(_, _), DescendFirst(_, _), Paths(_)

NodeAt(top, p) == IF p = <<>> THEN top ELSE NodeAt(top.children[p[1]], Tail(p))

\* while (cur->children) cur = cur->children
DescendFirst(top, p) ==
    IF NodeAt(top, p).children = <<>> THEN p ELSE DescendFirst(top, Append(p, 1))

\* xml_node_get_next: right, then down; up when there is no right sibling.
\* <<0>> stands for the null pointer that starts and ends the traversal.  The
\* top is the root of a document, which has no siblings: from another top that
\* has siblings and no children the code goes on to the next of them.
xml_node_get_next(top, prev) ==
    IF prev = <<0>> THEN DescendFirst(top, <<>>)
    ELSE LET up == Front(prev) IN
         CASE prev = <<>> -> <<0>>
           [] Last(prev) < Len(NodeAt(top, up).children) ->
                DescendFirst(top, Append(up, Last(prev) + 1))
           [] OTHER -> IF up = <<>> THEN <<0>> ELSE up

\* All the nodes below a node, each one after its children: the reference for
\* the traversal.
Paths(node) ==
    FlattenSeq([i \in DOMAIN node.children |->
        LET below == Paths(node.children[i])
        IN  Append([k \in DOMAIN below |-> <<i>> \o below[k]], <<i>>)])

---------------------------------------------------------------------------
(* The writer. *)

Escapes == [c \in {"<", ">", "&"} |->
              CASE c = "<" -> <<"&", "lt", ";">>
                [] c = ">" -> <<"&", "gt", ";">>
                [] c = "&" -> <<"&", "amp", ";">>]

\* Mutant: text is written as it is, like xml_escape_quote does.
xml_escape_nothing(cdata) == cdata

\* The table has an entry for every char from 0 to 127.  The code looks bytes
\* above that up before its start, as char is signed; no symbol here is one.
xml_escape_entities(cdata) ==
    FlattenSeq([i \in DOMAIN cdata |->
        IF cdata[i] \in DOMAIN Escapes THEN Escapes[cdata[i]] ELSE <<cdata[i]>>])

Indent(n) == [i \in 1..n |-> " "]

WriteAttrs(attrs) ==
    FlattenSeq([i \in DOMAIN attrs |->
        <<" ">> \o attrs[i][1] \o
        (IF attrs[i][2] = Null THEN <<>>
         ELSE <<"=", "\"">> \o attrs[i][2] \o <<"\"">>)])

RECURSIVE xml_node_output(_, _)

\* xml_node_output: text that has several lines, and children, begin on a line
\* of their own; the root, which has no name, has no tags.
xml_node_output(node, indent) ==
    LET named == node.name # Null
        lines == node.cdata # Null /\ "\n" \in ToSet(node.cdata)
        nl == ~named \/ lines
        inner == IF named THEN indent + 2 ELSE indent
        cdata == IF node.cdata = Null THEN <<>>
                 ELSE (IF lines THEN <<"\n">> ELSE <<>>)
                      \o xml_escape_entities(node.cdata)
                      \o (IF nl /\ node.cdata # <<>> /\ Last(node.cdata) # "\n"
                          THEN <<"\n">> ELSE <<>>)
        children == IF node.children = <<>> THEN <<>>
                    ELSE (IF nl THEN <<>> ELSE <<"\n">>)
                         \o FlattenSeq([i \in DOMAIN node.children |->
                                xml_node_output(node.children[i], inner)])
        start == Indent(indent) \o <<"<">> \o node.name \o WriteAttrs(node.attrs)
    IN  CASE ~named -> cdata \o children
          [] named /\ node.cdata = Null /\ node.children = <<>> ->
               start \o <<"/", ">", "\n">>
          [] OTHER ->
               start \o <<">">> \o cdata \o children
               \o (IF nl \/ node.children # <<>> THEN Indent(indent) ELSE <<>>)
               \o <<"<", "/">> \o node.name \o <<">", "\n">>

xml_document_output(root) ==
    <<"<", "?", "xml", " ", "a", "=", "\"", "b", "\"", "?", ">", "\n">>
    \o xml_node_output(root, 0)

---------------------------------------------------------------------------
(* The lexer.  A token is its type, its text, where it ends and the state  *)
(* the lexer is in behind it.                                              *)

Token(t, v, p, s) == [type |-> t, value |-> v, next |-> p, lex |-> s]
NoToken == Token("None", <<>>, pos, lex)

\* xml_getc; "EOF" behind the end.
xml_getc(p) == IF p \in DOMAIN text THEN text[p] ELSE "EOF"

\* The first position from p on whose character is in S, or behind the end.
FirstOf(p, S) == Min({i \in p..Len(text) : text[i] \in S} \cup {Len(text) + 1})

xml_skip_space(p) ==
    Min({i \in p..Len(text) : text[i] \notin Space} \cup {Max({p, Len(text) + 1})})

\* xml_skip_comment: behind the first > that follows two dashes.
xml_skip_comment(p) ==
    LET ends == {i \in p + 3 .. Len(text) :
                   text[i] = ">" /\ text[i - 1] = "-" /\ text[i - 2] = "-"}
    IN  IF xml_getc(p) # "-" \/ ends = {} THEN NoToken
        ELSE Token("Comment", <<>>, Min(ends) + 1, "Initial")

\* xml_expand_entity: what &name; stands for; Null when it stands for nothing.
\* Entities with the number of a character are left out.
xml_expand_entity(name) ==
    LET n == SelectSeq(name, LAMBDA c : c \notin Space)
    IN  CASE n = <<"lt">> -> <<"<">>
          [] n = <<"gt">> -> <<">">>
          [] n = <<"amp">> -> <<"&">>
          [] OTHER -> Null

\* ni_stringbuf_trim_empty_lines: the blank lines at the end but for the first
\* newline, then those at the start.
ni_stringbuf_trim_empty_lines(s) ==
    LET blank(i, j) == \A k \in i..j : s[k] \in Space
        ends == {n \in 1..Len(s) : s[n] = "\n" /\ blank(n + 1, Len(s))}
        t == IF ends = {} THEN s ELSE SubSeq(s, 1, Min(ends))
        starts == {n \in 1..Len(t) : t[n] = "\n" /\ blank(1, n)}
    IN  IF starts = {} THEN t ELSE SubSeq(t, Max(starts) + 1, Len(t))

RECURSIVE CData(_, _)

\* Text up to the next <, its entities expanded.  An entity is read to its
\* semicolon whatever comes before it.
CData(p, res) ==
    CASE xml_getc(p) \in {"<", "EOF"} ->
           Token("CData", ni_stringbuf_trim_empty_lines(res), p, "Initial")
      [] xml_getc(p) = "&" ->
           LET e == FirstOf(p + 1, {";"})
               c == xml_expand_entity(SubSeq(text, p + 1, e - 1))
           IN  IF e > Len(text) \/ c = Null THEN NoToken ELSE CData(e + 1, res \o c)
      [] OTHER -> CData(p + 1, Append(res, text[p]))

\* White space before a tag is dropped; before text it is part of the text.
xml_get_token_initial ==
    LET p == xml_skip_space(pos)
        c == xml_getc(p + 1)
    IN  CASE xml_getc(p) = "EOF" -> Token("EndOfDocument", <<>>, p, "Initial")
          [] xml_getc(p) = "<" ->
               (CASE c = "/" -> Token("LeftAngleSlash", <<>>, p + 2, "Tag")
                  [] c = "?" -> Token("LeftAngleQ", <<>>, p + 2, "Tag")
                  [] c = "!" ->
                       IF xml_getc(p + 2) = "-" THEN xml_skip_comment(p + 3)
                       ELSE Token("LeftAngleExclam", <<>>, p + 2, "Tag")
                  [] OTHER -> Token("LeftAngle", <<>>, p + 1, "Tag"))
          [] OTHER -> CData(p, SubSeq(text, pos, p - 1))

xml_get_token_tag ==
    LET p == xml_skip_space(pos)
        c == xml_getc(p)
        pair(t) == IF xml_getc(p + 1) = ">" THEN Token(t, <<>>, p + 2, "Initial")
                   ELSE NoToken
    IN  CASE c = "?" -> pair("RightAngleQ")
          [] c = "/" -> pair("RightAngleSlash")
          [] c = ">" -> Token("RightAngle", <<>>, p + 1, "Initial")
          [] c = "=" -> Token("Equals", <<>>, p + 1, "Tag")
          [] c \in Words \cup {"!"} ->
               LET e == Min({i \in p + 1 .. Len(text) :
                               text[i] \notin Words \cup {"!", "-"}}
                            \cup {Len(text) + 1})
               IN  Token("Identifier", SubSeq(text, p, e - 1), e, "Tag")
          [] c \in {"\"", "'"} ->
               LET e == FirstOf(p + 1, {c})
               IN  IF e > Len(text) THEN NoToken
                   ELSE Token("QuotedString", SubSeq(text, p + 1, e - 1), e + 1, "Tag")
          [] OTHER -> NoToken

xml_get_token ==
    IF lex = "Initial" THEN xml_get_token_initial ELSE xml_get_token_tag

---------------------------------------------------------------------------
(* The parser. *)

NoTag == [node |-> xml_node_new(Null), by |-> "none", attr |-> Null]

ReaderIdle ==
    /\ text = <<>> /\ pos = 1 /\ lex = "Initial" /\ at = "idle"
    /\ tag = NoTag /\ open = <<>>

\* xml_document_read: a new reader at the start of the text.
xml_document_read(input) ==
    /\ at \in {"idle", "done", "failed"}
    /\ text' = input
    /\ pos' = 1
    /\ lex' = "Initial"
    /\ at' = "nested"
    /\ tag' = NoTag
    /\ open' = <<xml_node_new(Null)>>

\* What follows a token that is not an error.
Goto(tok, a, tg, op) ==
    /\ pos' = tok.next
    /\ lex' = tok.lex
    /\ at' = a
    /\ tag' = tg
    /\ open' = op
    /\ UNCHANGED text

\* A parse error: the document is given up.
Fails ==
    /\ at' = "failed"
    /\ tag' = NoTag
    /\ open' = <<>>
    /\ UNCHANGED <<text, pos, lex>>

Innermost == Last(open)

\* xml_process_element_nested: the token at the top of its loop.
ElementContent ==
    /\ at = "nested"
    /\ LET tok == xml_get_token
           opens(a) == Goto(tok, a, [NoTag EXCEPT !.by = tok.type], open)
       IN  CASE tok.type = "CData" ->
                  Goto(tok, "nested", NoTag,
                       [open EXCEPT ![Len(open)].cdata = tok.value])
             [] tok.type = "Comment" -> Goto(tok, "nested", NoTag, open)
             [] tok.type \in {"LeftAngle", "LeftAngleQ", "LeftAngleSlash",
                              "LeftAngleExclam"} -> opens("identifier")
             [] tok.type = "EndOfDocument" /\ Len(open) = 1 ->
                  Goto(tok, "done", NoTag, open)
             [] OTHER -> Fails

\* The name behind <, </, <? or <!.
xml_get_identifier ==
    /\ at = "identifier"
    /\ LET tok == xml_get_token
           named == [tag EXCEPT !.node = xml_node_new(tok.value)]
       IN  CASE tok.type # "Identifier" -> Fails
             [] tag.by = "LeftAngleExclam" ->
                  IF tok.value = <<"DOCTYPE">> THEN Goto(tok, "doctype", NoTag, open)
                  ELSE Fails
             [] tag.by = "LeftAngleSlash" -> Goto(tok, "close", named, open)
             [] OTHER -> Goto(tok, "attribute", named, open)

\* The rest of <!DOCTYPE ...>.
Doctype ==
    /\ at = "doctype"
    /\ LET tok == xml_get_token
       IN  CASE tok.type = "RightAngle" -> Goto(tok, "nested", NoTag, open)
             [] tok.type \in {"Identifier", "QuotedString"} ->
                  Goto(tok, "doctype", NoTag, open)
             [] OTHER -> Fails

\* The end of a tag: a new open node, a node that is complete, or a
\* processing instruction, which is dropped.
TagEnds(tok, node) ==
    CASE tag.by = "LeftAngle" /\ tok.type = "RightAngle" ->
           Goto(tok, "nested", NoTag, Append(open, node))
      [] tag.by = "LeftAngle" /\ tok.type = "RightAngleSlash" ->
           Goto(tok, "nested", NoTag,
                Append(Front(open), xml_node_add_child(Innermost, node)))
      [] tag.by = "LeftAngleQ" /\ tok.type = "RightAngleQ" ->
           Goto(tok, "nested", NoTag, open)
      [] OTHER -> Fails

\* xml_get_tag_attributes: a name, = and a value; a name alone has no value.
TagAttributes ==
    LET tok == xml_get_token
        bare == IF tag.attr = Null THEN tag.node
                ELSE xml_node_add_attr(tag.node, tag.attr, Null)
    IN  \/ /\ at = "attribute"
           /\ CASE tok.type \in {"RightAngle", "RightAngleQ", "RightAngleSlash"} ->
                     TagEnds(tok, bare)
                [] tok.type = "Identifier" ->
                     Goto(tok, "attribute",
                          [tag EXCEPT !.node = bare, !.attr = tok.value], open)
                [] tok.type = "Equals" /\ tag.attr # Null ->
                     Goto(tok, "value", tag, open)
                [] OTHER -> Fails
        \/ /\ at = "value"
           /\ IF tok.type # "QuotedString" THEN Fails
              ELSE Goto(tok, "attribute",
                        [tag EXCEPT !.node = xml_node_add_attr(@, tag.attr, tok.value),
                                    !.attr = Null], open)

\* Mutant: an end tag closes the innermost node whatever it names.
CloseAnyElement ==
    /\ at = "close"
    /\ LET tok == xml_get_token
       IN  IF tok.type = "RightAngle" /\ Len(open) > 1
           THEN Goto(tok, "nested", NoTag,
                     Append(Front(Front(open)),
                            xml_node_add_child(open[Len(open) - 1], Innermost)))
           ELSE Fails

\* The > of an end tag, which must name the innermost open node.
CloseElement ==
    /\ at = "close"
    /\ LET tok == xml_get_token
       IN  IF tok.type = "RightAngle" /\ Len(open) > 1 /\ Innermost.name = tag.node.name
           THEN Goto(tok, "nested", NoTag,
                     Append(Front(Front(open)),
                            xml_node_add_child(open[Len(open) - 1], Innermost)))
           ELSE Fails

\* The document so far: every open node is already the last child of the one
\* it was found in.
Document ==
    FoldRight(LAMBDA n, below : IF below = NoNode THEN n
                                ELSE xml_node_add_child(n, below), open, NoNode)

ReaderStep ==
    \/ ElementContent
    \/ xml_get_identifier
    \/ Doctype
    \/ TagAttributes
    \/ CloseElement

=============================================================================
