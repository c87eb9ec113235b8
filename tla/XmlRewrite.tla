----------------------------- MODULE XmlRewrite -----------------------------
(***************************************************************************)
(* A text somebody wrote is read, the document is written and read again,  *)
(* twice, and then walked with xml_node_get_next.  The text is a sequence  *)
(* of pieces (a tag, a comment, some text), so that what it should be read *)
(* as can be said without the reader.                                      *)
(***************************************************************************)
EXTENDS Xml

CONSTANTS
    Pieces,     \* records [kind, name, text]: what a text is made of
    MaxPieces   \* bound: how many of them

VARIABLES
    pieces,     \* the pieces of the text that was read first
    docs,       \* the documents that were read; NoNode where reading failed
    walk,       \* the nodes the traversal has returned, <<0>> behind the last
    job         \* "read", "walk" or "over"

rewriteVars == <<pieces, docs, walk, job>>

RewriteInit ==
    /\ pieces \in BoundedSeq(Pieces, MaxPieces)
    /\ docs = <<>>
    /\ walk = <<>>
    /\ job = "read"
    /\ ReaderIdle

FirstRead ==
    /\ job = "read" /\ at = "idle"
    /\ xml_document_read(FlattenSeq([i \in DOMAIN pieces |-> pieces[i].text]))
    /\ UNCHANGED rewriteVars

ReadOn ==
    /\ job = "read"
    /\ ReaderStep
    /\ UNCHANGED rewriteVars

\* A document is read.  The first two are written, and what was written is
\* read.
Reread ==
    /\ job = "read" /\ at \in {"done", "failed"}
    /\ docs' = Append(docs, IF at = "done" THEN Document ELSE NoNode)
    /\ IF at = "done" /\ Len(docs) < 2
       THEN xml_document_read(xml_document_output(Document)) /\ UNCHANGED job
       ELSE /\ job' = IF docs'[1] = NoNode THEN "over" ELSE "walk"
            /\ text' = <<>> /\ pos' = 1 /\ lex' = "Initial" /\ at' = "idle"
            /\ tag' = NoTag /\ open' = <<>>
    /\ UNCHANGED <<pieces, walk>>

\* One call of xml_node_get_next on the first document.
Walk ==
    /\ job = "walk"
    /\ LET prev == IF walk = <<>> THEN <<0>> ELSE Last(walk)
           next == xml_node_get_next(docs[1], prev)
       IN  /\ walk' = IF next = <<0>> THEN walk ELSE Append(walk, next)
           /\ job' = IF next = <<0>> THEN "over" ELSE "walk"
    /\ UNCHANGED <<pieces, docs, readerVars>>

RewriteNext ==
    \/ FirstRead
    \/ ReadOn
    \/ Reread
    \/ Walk

---------------------------------------------------------------------------

RECURSIVE Names(_), SameDocument(_, _)

\* The names of a document's nodes, in the order of their start tags.
Names(node) ==
    FlattenSeq([i \in DOMAIN node.children |->
                  <<node.children[i].name>> \o Names(node.children[i])])

Trimmed(t) == IF t # Null /\ t # <<>> /\ Last(t) = "\n" THEN Front(t) ELSE t

SameDocument(d, e) ==
    /\ d.name = e.name
    /\ d.attrs = e.attrs
    /\ Trimmed(d.cdata) = Trimmed(e.cdata)
    /\ Len(d.children) = Len(e.children)
    /\ \A i \in DOMAIN d.children : SameDocument(d.children[i], e.children[i])

Opening == {i \in DOMAIN pieces : pieces[i].kind = "open"}
Closing == {i \in DOMAIN pieces : pieces[i].kind = "close"}

\* Every end tag has its start tag: as many of both between the two, and the
\* same name.
Matches(i, j) ==
    LET within(S) == Cardinality({k \in S : i < k /\ k < j})
    IN  /\ i < j
        /\ pieces[i].name = pieces[j].name
        /\ within(Opening) = within(Closing)
        /\ \A k \in i + 1 .. j :
             Cardinality({l \in Opening : i < l /\ l <= k})
               >= Cardinality({l \in Closing : i < l /\ l < j /\ l <= k})

Balanced ==
    /\ \A i \in Opening : \E j \in Closing : Matches(i, j)
    /\ \A j \in Closing : \E i \in Opening : Matches(i, j)
    /\ \A i \in DOMAIN pieces : pieces[i].kind # "bad"

\* xml_process_element_nested accepts exactly the texts whose tags match, and
\* finds every element of them, in order.
ReadsTheText ==
    docs # <<>> =>
      IF Balanced
      THEN /\ docs[1] # NoNode
           /\ Names(docs[1]) =
                LET named == SelectSeq(pieces, LAMBDA p : p.kind \in {"open", "empty"})
                IN  [i \in DOMAIN named |-> named[i].name]
      ELSE docs[1] = NoNode

\* What xml_node_output writes reads back as the document it was, but for one
\* newline at the end of a text, and from then on as exactly the same.
RewriteIsStable ==
    /\ Len(docs) >= 2 => docs[2] # NoNode /\ SameDocument(docs[1], docs[2])
    /\ Len(docs) = 3 => docs[3] = docs[2]

\* xml_node_get_next returns every node below the top once, behind its
\* children (and the top alone when it has none).
WalkIsComplete ==
    LET all == IF docs[1].children = <<>> THEN <<<<>>>> ELSE Paths(docs[1])
    IN  walk # <<>> =>
          /\ IsPrefix(walk, all)
          /\ job = "over" => walk = all

\* Nothing of a document is lost or made up when it is written and read again,
\* or when it is walked (xml_node_output, xml_node_get_next).
DocumentIsKept == RewriteIsStable /\ WalkIsComplete
=============================================================================
