----------------------------- MODULE AgentState -----------------------------
(***************************************************************************)
(* The state file of the agent (agent/main.c): the host name and the uuid  *)
(* by which the master knows the host.  The agent reads the file when it   *)
(* starts and writes it when it has registered.  The file is written in    *)
(* place, so that a crash leaves any prefix of it behind.                  *)
(***************************************************************************)
EXTENDS Xml

CONSTANTS
    MyName,     \* what gethostname returns
    Uuids,      \* what the master may assign
    MaxStarts   \* bound: how often the agent is started

VARIABLES
    file,       \* the state file; Null while there is none
    agent,      \* where the agent stands
    state,      \* ni_testbus_agent_state_t: hostname and uuid
    unwritten,  \* what xml_document_write has not handed to the system yet
    saved,      \* the state of the last write that was begun
    torn,       \* that write did not reach its end
    starts      \* how often the agent was started

agentVars == <<file, agent, state, unwritten, saved, torn, starts>>

NoState == [hostname |-> Null, uuid |-> Null]

AgentInit ==
    /\ file = Null
    /\ agent = "down"
    /\ state = NoState
    /\ unwritten = <<>>
    /\ saved = NoState
    /\ torn = FALSE
    /\ starts = 0
    /\ ReaderIdle

\* ni_testbus_agent_read_state: without a file there is nothing to read.
StartAgent ==
    /\ agent = "down"
    /\ starts < MaxStarts
    /\ starts' = starts + 1
    /\ state' = NoState
    /\ IF file = Null
       THEN agent' = "loaded" /\ UNCHANGED readerVars
       ELSE agent' = "reading" /\ xml_document_read(file)
    /\ UNCHANGED <<file, unwritten, saved, torn>>

ReadStateFile ==
    /\ agent = "reading"
    /\ ReaderStep
    /\ UNCHANGED agentVars

\* The text of the last child of that name: later ones overwrite earlier ones.
ChildText(node, name) ==
    LET S == {i \in DOMAIN node.children : node.children[i].name = name}
    IN  IF S = {} THEN Null ELSE node.children[Max(S)].cdata

\* The document is read: the children of <state> are taken over; a file that
\* cannot be read is fatal.
read_state ==
    /\ agent = "reading"
    /\ at \in {"done", "failed"}
    /\ IF at = "failed" THEN agent' = "fatal" /\ UNCHANGED state
       ELSE LET k == xml_node_get_child(Document, <<"state">>)
                node == IF k = 0 THEN xml_node_new(<<"state">>)
                        ELSE Document.children[k]
            IN  /\ state' = [hostname |-> ChildText(node, <<"hostname">>),
                             uuid |-> ChildText(node, <<"uuid">>)]
                /\ agent' = "loaded"
    /\ text' = <<>> /\ pos' = 1 /\ lex' = "Initial" /\ at' = "idle"
    /\ tag' = NoTag /\ open' = <<>>
    /\ UNCHANGED <<file, unwritten, saved, torn, starts>>

\* Mutant: the uuid is not written.
StateDocumentNameOnly(s) ==
    xml_node_add_child(xml_node_new(Null),
        xml_node_add_child(xml_node_new(<<"state">>),
                           xml_node_new_element(<<"hostname">>, s.hostname)))

\* ni_testbus_agent_write_state: the document that is written.
StateDocument(s) ==
    LET uuid == IF s.uuid = Null THEN <<>>
                ELSE <<xml_node_new_element(<<"uuid">>, s.uuid)>>
    IN  xml_node_add_child(xml_node_new(Null),
            [xml_node_new(<<"state">>) EXCEPT !.children =
                <<xml_node_new_element(<<"hostname">>, s.hostname)>> \o uuid])

\* The agent registers; with --reconnect it saves its state, which fopen
\* begins by emptying the file.
Register ==
    /\ agent = "loaded"
    /\ \E u \in IF state.uuid = Null THEN Uuids ELSE {state.uuid} :
         LET name == IF state.hostname = Null THEN MyName ELSE state.hostname
         IN  state' = [hostname |-> name, uuid |-> u]
    /\ agent' = "writing"
    /\ unwritten' = xml_document_output(StateDocument(state'))
    /\ saved' = state'
    /\ torn' = TRUE
    /\ file' = <<>>
    /\ UNCHANGED <<starts, readerVars>>

\* Without --reconnect the state is not saved.
RegisterOnly ==
    /\ agent = "loaded"
    /\ agent' = "up"
    /\ state' = NoState
    /\ UNCHANGED <<file, unwritten, saved, torn, starts, readerVars>>

\* The writer hands one more symbol to the system; behind the last one the
\* file is closed.
WriteState ==
    /\ agent = "writing"
    /\ IF unwritten = <<>>
       THEN /\ agent' = "up"
            /\ torn' = FALSE
            /\ state' = NoState
            /\ UNCHANGED <<file, unwritten>>
       ELSE /\ file' = Append(file, Head(unwritten))
            /\ unwritten' = Tail(unwritten)
            /\ UNCHANGED <<agent, torn, state>>
    /\ UNCHANGED <<saved, starts, readerVars>>

\* The agent ends, at any point.
AgentDies ==
    /\ agent \in {"loaded", "writing", "up"}
    /\ agent' = "down"
    /\ unwritten' = <<>>
    /\ state' = NoState
    /\ UNCHANGED <<file, saved, torn, starts, readerVars>>

AgentNext ==
    \/ StartAgent
    \/ ReadStateFile
    \/ read_state
    \/ Register
    \/ RegisterOnly
    \/ WriteState
    \/ AgentDies

---------------------------------------------------------------------------

\* A state that was written to its end is read back as it was: the master
\* knows a restarted agent (agent/main.c read_state and write_state).
StateSurvives ==
    /\ agent = "loaded" /\ ~torn => state = saved
    /\ agent = "fatal" => torn

\* A crash in the middle of a write never makes up a state: what is read from
\* the torn file is everything that was written, or nothing at all, and never
\* a host name without its uuid (xml_process_element_nested refuses the end of
\* the document inside of an element).
TornIsNotMisread ==
    agent = "loaded" /\ torn => state \in {saved, NoState}

\* Whenever an agent starts again it is the host it was registered as, or the
\* write of its state file was cut off, and then it is nobody.
StateFileSound == StateSurvives /\ TornIsNotMisread
=============================================================================
