------------------------------ MODULE Inspector ------------------------------
(***************************************************************************)
(* The live inspector: the server in the host (runtime/inspect.c), which is *)
(* polled between the host's pool operations, and the `arche inspect`       *)
(* clients (cli/cmd_inspect.c): the terminal UI, which stays connected, and *)
(* the one-shot `poke`.  The pool the clients look at is the one of module  *)
(* Pool; the cells of a row are not modelled, only which row an edit hits.  *)
(*                                                                          *)
(* A connection is a queue of requests on the host's side and a queue of    *)
(* answers on the client's; what a queue carries is a whole request line or *)
(* a whole answer, except that an answer may be cut when the host's         *)
(* non-blocking write meets a full buffer.                                  *)
(***************************************************************************)
EXTENDS Pool, Sequences, SequencesExt

CONSTANTS
    TUI,          \* terminal clients
    Shots,        \* one-shot `arche inspect poke` processes
    Backlog,      \* connections the kernel queues before connect blocks
    MaxFaults,    \* bound on read timeouts and cut answers in a behaviour
    MaxBoots,     \* bound on the hosts started in a behaviour
    Crews         \* clients that are started, and beside which host

ASSUME InspectorAssumption ==
    /\ TUI \cap Shots = {}
    /\ Backlog \in Nat \ {0} /\ MaxFaults \in Nat /\ MaxBoots \in Nat \ {0}
    /\ Crews \subseteq [who : SUBSET (TUI \cup Shots), boot : 1..MaxBoots]

VARIABLES
    boot,      \* which host is running
    listening, \* whether it has opened its socket (ensure_listen)
    line,      \* connections the host has: the first is the client it serves
    accepted,  \* whether line's first connection has been accepted
    pc,        \* where each client stands
    tab,       \* pool_idx: the pool a client looks at
    schema,    \* the pool whose schema is loaded, or None
    asked,     \* the last request a client sent
    inbox,     \* answers waiting at a client's socket
    view,      \* rows of the last ROWS answer a client took
    misread,   \* answers taken for those of another request: history
    strays,    \* edits that wrote another row than they were made for: history
    faults     \* read timeouts (SO_RCVTIMEO) and cut answers so far

inspVars == <<boot, listening, line, accepted, pc, tab, schema, asked, inbox, view, misread, strays, faults>>
clientVars == <<pc, tab, schema, asked, inbox, view, misread>>

Clients == TUI \cup Shots
None == "none"

(***************************************************************************)
(* The registry: what codegen registers at the start of main.  "Foo" is the *)
(* pool of module Pool; "Bar" is another, whose one row never changes.      *)
(***************************************************************************)
Tabs == {"Foo", "Bar"}

(* kind, writable (neither a handle nor opaque), one element per row.       *)
Fields ==
    [num  |-> [column |-> TRUE,  writable |-> TRUE,  single |-> TRUE],
     text |-> [column |-> TRUE,  writable |-> TRUE,  single |-> FALSE],
     ref  |-> [column |-> TRUE,  writable |-> FALSE, single |-> TRUE],
     meta |-> [column |-> FALSE, writable |-> TRUE,  single |-> TRUE]]

Row(s, g, e) == [slot |-> s, gen |-> g, ent |-> e, boot |-> boot]
NoRow == [slot |-> 0, gen |-> 0, ent |-> NoEnt, boot |-> 0]
BarRow == Row(0, 1, 1)

Request(verb, pool, row, field) == [verb |-> verb, pool |-> pool, row |-> row, field |-> field]
Ask(verb, pool) == Request(verb, pool, NoRow, None)
Nothing == Ask("hello", None)

(***************************************************************************)
(* Requests at the host.                                                    *)
(***************************************************************************)
slot_is_free(s) == \E i \in 1..(freeCount - 1) : FreeListAt(i) = s

RowsOf(pool) ==
    IF pool = "Bar" THEN {BarRow}
    ELSE {Row(s, gen[s], val[s]) : s \in {t \in Slots : t < count /\ ~slot_is_free(t)}}

(* The row an accepted POKE writes: none for the field of the whole pool.   *)
poke_without_gen(q) ==
    /\ Fields[q.field].writable
    /\ Fields[q.field].column =>
          (q.pool = "Foo" => /\ q.row.slot \in Slots /\ q.row.slot < count
                             /\ ~slot_is_free(q.row.slot))

poke_accepted(q) ==
    /\ Fields[q.field].writable
    /\ Fields[q.field].column =>
          IF q.pool = "Foo"
          THEN /\ q.row.slot \in Slots /\ q.row.slot < count
               /\ ~slot_is_free(q.row.slot)
               /\ gen[q.row.slot] = q.row.gen
          ELSE q.row.slot = BarRow.slot /\ q.row.gen = BarRow.gen

Written(q) == IF q.pool = "Foo" THEN Row(q.row.slot, gen[q.row.slot], val[q.row.slot]) ELSE BarRow

arche_inspect_handle(q) ==
    [of |-> q,
     ok |-> q.verb = "POKE" => poke_accepted(q),
     rows |-> IF q.verb = "ROWS" THEN RowsOf(q.pool) ELSE {},
     cut |-> FALSE]

Hello == [of |-> Nothing, ok |-> TRUE, rows |-> {}, cut |-> FALSE]

(***************************************************************************)
(* arche_inspect_poll: accept when no client is served, then answer every   *)
(* request that has arrived.  The host's write fails when the client has    *)
(* closed, and may fail on a full buffer; the connection is then dropped.   *)
(***************************************************************************)
Pokes(q) == q.verb = "POKE" /\ poke_accepted(q)
Astray(qs) == {q \in ToSet(qs) : Pokes(q) /\ Fields[q.field].column /\ Written(q) # q.row}

Serve(c, answers, handled) ==
    /\ inbox' = [inbox EXCEPT ![c] = @ \o answers]
    /\ strays' = strays \cup Astray(handled)

Greeting == IF accepted THEN <<>> ELSE <<Hello>>

PollAnswers ==
    /\ listening /\ phase = "run"
    /\ line # <<>> /\ line[1].open
    /\ accepted => line[1].reqs # <<>>
    /\ Serve(line[1].client, Greeting \o [i \in DOMAIN line[1].reqs |-> arche_inspect_handle(line[1].reqs[i])],
             line[1].reqs)
    /\ line' = [line EXCEPT ![1] = [line[1] EXCEPT !.reqs = <<>>]]
    /\ accepted' = TRUE
    /\ UNCHANGED <<poolVars, boot, listening, pc, tab, schema, asked, view, misread, faults>>

(* The k-th answer does not fit: it is sent in part, the rest is not read.  *)
PollFull(k) ==
    /\ listening /\ phase = "run"
    /\ line # <<>> /\ line[1].open
    /\ k \in DOMAIN line[1].reqs
    /\ faults < MaxFaults /\ faults' = faults + 1
    /\ LET done == SubSeq(line[1].reqs, 1, k)
           whole == [i \in 1..k |-> arche_inspect_handle(done[i])]
       IN  Serve(line[1].client, Greeting \o [whole EXCEPT ![k].cut = TRUE], done)
    /\ line' = Tail(line)
    /\ accepted' = FALSE
    /\ UNCHANGED <<poolVars, boot, listening, pc, tab, schema, asked, view, misread>>

(* The client is gone: the first request it left is still carried out, and  *)
(* the answer to it is what fails.                                          *)
Unanswered == IF accepted /\ line[1].reqs # <<>> THEN <<line[1].reqs[1]>> ELSE <<>>

poll_misses_close ==
    /\ listening /\ phase = "run"
    /\ line # <<>> /\ ~line[1].open /\ ~accepted
    /\ line' = Tail(line)
    /\ UNCHANGED <<poolVars, boot, listening, accepted, clientVars, strays, faults>>

PollGone ==
    /\ listening /\ phase = "run"
    /\ line # <<>> /\ ~line[1].open
    /\ strays' = strays \cup Astray(Unanswered)
    /\ line' = Tail(line)
    /\ accepted' = FALSE
    /\ UNCHANGED <<poolVars, boot, listening, clientVars, faults>>

(* The first poll of a host creates the socket, in place of a stale one.    *)
ensure_listen ==
    /\ ~listening /\ phase = "run"
    /\ listening' = TRUE
    /\ UNCHANGED <<poolVars, boot, line, accepted, clientVars, strays, faults>>

(* `arche run` starts a host again after the last one was killed or died.   *)
Restart ==
    /\ boot < MaxBoots
    /\ boot' = boot + 1
    /\ listening' = FALSE /\ line' = <<>> /\ accepted' = FALSE
    /\ val' = [s \in Slots |-> IF s < InitLen THEN s + 1 ELSE NoEnt]
    /\ count' = InitLen
    /\ freeList' = [i \in Slots |-> 0] /\ freeCount' = 1
    /\ gen' = [s \in Slots |-> 0]
    /\ next' = InitLen /\ held' = {} /\ drops' = [e \in Ents |-> 0]
    /\ out' = [op |-> "init", ok |-> 1, h |-> Zero, e |-> NoEnt]
    /\ phase' = "run" /\ sorts' = 0 /\ events' = {}
    /\ UNCHANGED <<clientVars, strays, faults>>

(***************************************************************************)
(* A client.  Its own end of a connection is the open entry of line, as     *)
(* long as the host has not dropped it.                                     *)
(***************************************************************************)
Waiting == {"hello", "LIST", "SCHEMA", "ROWS", "POKE"}
MineIn(l, c) == {i \in DOMAIN l : l[i].open /\ l[i].client = c}
Connected(c) == MineIn(line, c) # {}

Sent(c, q) ==
    [i \in DOMAIN line |-> IF i \in MineIn(line, c) THEN [line[i] EXCEPT !.reqs = Append(@, q)] ELSE line[i]]
Hung(c) == [i \in DOMAIN line |-> IF i \in MineIn(line, c) THEN [line[i] EXCEPT !.open = FALSE] ELSE line[i]]

(* send_req, and where the client waits for the answer.                     *)
Send(c, q) ==
    /\ line' = Sent(c, q)
    /\ asked' = [asked EXCEPT ![c] = q]
    /\ pc' = [pc EXCEPT ![c] = q.verb]

(* close: the terminal goes back to its waiting screen, `poke` exits.       *)
Hangup(c) ==
    /\ line' = Hung(c)
    /\ inbox' = [inbox EXCEPT ![c] = <<>>]
    /\ pc' = [pc EXCEPT ![c] = IF c \in TUI THEN "off" ELSE "done"]
    /\ asked' = [asked EXCEPT ![c] = Nothing]
    /\ view' = [view EXCEPT ![c] = {}]
    /\ schema' = [schema EXCEPT ![c] = None]

(* inspect_connect: connect blocks while the backlog is full.               *)
Pending == IF accepted THEN Tail(line) ELSE line

inspect_connect(c) ==
    /\ pc[c] = "off" /\ listening /\ phase = "run"
    /\ Len(Pending) < Backlog
    /\ line' = Append(line, [client |-> c, open |-> TRUE, reqs |-> <<>>])
    /\ pc' = [pc EXCEPT ![c] = "hello"]
    /\ UNCHANGED <<poolVars, boot, listening, accepted, tab, schema, asked, inbox, view, misread, strays, faults>>

(* What the reader makes of an answer: `OK n m` can only be that of ROWS,   *)
(* `OK n` that of LIST and SCHEMA too, and POKE asks for `OK` alone.        *)
loose_reads_as(verb, a) == a.ok /\ ~a.cut

ReadsAs(verb, a) ==
    /\ a.ok /\ ~a.cut
    /\ verb = "hello" => a.of.verb = "hello"
    /\ verb = "ROWS" => a.of.verb = "ROWS"
    /\ verb \in {"LIST", "SCHEMA"} => a.of.verb \in {"LIST", "SCHEMA", "ROWS"}

(* What is sent next: tui_run's loop loads the schema of a new tab and then *)
(* the rows; `poke` needs the schema, the rows and then edits.              *)
FollowUp(c, verb) ==
    CASE verb = "hello" -> IF c \in TUI THEN Ask("LIST", None) ELSE Ask("SCHEMA", tab[c])
      [] verb = "LIST" -> Ask("SCHEMA", tab[c])
      [] OTHER -> Ask("ROWS", tab[c])

Take(c) ==
    /\ inbox' = [inbox EXCEPT ![c] = Tail(@)]
    /\ misread' = misread \cup ({inbox[c][1].of} \ {asked[c]})

Understood(c) == inbox[c] # <<>> /\ ReadsAs(pc[c], inbox[c][1])

(* hello, LIST and SCHEMA lead to the next request.                         *)
ReadSetup(c) ==
    /\ pc[c] \in {"hello", "LIST", "SCHEMA"}
    /\ Understood(c)
    /\ Take(c)
    /\ Send(c, FollowUp(c, pc[c]))
    /\ schema' = IF pc[c] = "SCHEMA" THEN [schema EXCEPT ![c] = tab[c]] ELSE schema
    /\ UNCHANGED <<poolVars, boot, listening, accepted, tab, view, strays, faults>>

(* tui_fetch_rows, and the scan of the rows in do_poke.                     *)
ReadRows(c) ==
    /\ pc[c] = "ROWS"
    /\ Understood(c)
    /\ Take(c)
    /\ view' = [view EXCEPT ![c] = inbox[c][1].rows]
    /\ pc' = [pc EXCEPT ![c] = "shown"]
    /\ UNCHANGED <<poolVars, boot, listening, line, accepted, tab, schema, asked, strays, faults>>

(* The answer to an edit, an error too, is shown in the status line.        *)
ReadPoke(c) ==
    /\ pc[c] = "POKE"
    /\ inbox[c] # <<>> /\ ~inbox[c][1].cut
    /\ Take(c)
    /\ IF c \in TUI
       THEN Send(c, Ask("ROWS", tab[c])) /\ UNCHANGED <<schema, view>>
       ELSE /\ line' = Hung(c)
            /\ pc' = [pc EXCEPT ![c] = "done"]
            /\ asked' = [asked EXCEPT ![c] = Nothing]
            /\ UNCHANGED <<schema, view>>
    /\ UNCHANGED <<poolVars, boot, listening, accepted, tab, strays, faults>>

(* A read that fails: an answer that cannot be read as the one expected, or *)
(* an end of file, or nothing for five seconds.                             *)
NotUnderstood(c) == inbox[c] # <<>> /\ (IF pc[c] = "POKE" THEN inbox[c][1].cut ELSE ~Understood(c))
EndOfFile(c) == inbox[c] = <<>> /\ ~Connected(c)

(* After a failed SCHEMA or POKE the terminal goes on to fetch the rows on  *)
(* the same connection, if it still is one; every other failure hangs up.   *)
Fails(c) ==
    IF c \in TUI /\ pc[c] \in {"SCHEMA", "POKE"} /\ Connected(c)
    THEN /\ Send(c, Ask("ROWS", tab[c]))
         /\ inbox' = [inbox EXCEPT ![c] = IF @ = <<>> THEN <<>> ELSE Tail(@)]
         /\ schema' = IF pc[c] = "SCHEMA" THEN [schema EXCEPT ![c] = None] ELSE schema
         /\ UNCHANGED view
    ELSE Hangup(c)

ReadFails(c) ==
    /\ pc[c] \in Waiting
    /\ NotUnderstood(c) \/ EndOfFile(c)
    /\ Fails(c)
    /\ UNCHANGED <<poolVars, boot, listening, accepted, tab, misread, strays, faults>>

ReadTimesOut(c) ==
    /\ pc[c] \in Waiting
    /\ inbox[c] = <<>> /\ Connected(c)
    /\ faults < MaxFaults
    /\ faults' = faults + 1
    /\ Fails(c)
    /\ UNCHANGED <<poolVars, boot, listening, accepted, tab, misread, strays>>

(***************************************************************************)
(* What a client does with the rows it shows.                               *)
(***************************************************************************)
SendOrHangup(c, q) ==
    IF Connected(c)
    THEN Send(c, q) /\ view' = [view EXCEPT ![c] = {}] /\ UNCHANGED <<inbox, schema>>
    ELSE Hangup(c)

(* The next tick, or a key that moves the selection.                        *)
Refresh(c) ==
    /\ c \in TUI /\ pc[c] = "shown"
    /\ SendOrHangup(c, Ask("ROWS", tab[c]))
    /\ UNCHANGED <<poolVars, boot, listening, accepted, tab, misread, strays, faults>>

(* `[`, `]`, gt, gT.                                                        *)
SwitchPool(c) ==
    /\ c \in TUI /\ pc[c] = "shown"
    /\ \E t \in Tabs \ {tab[c]} :
          /\ tab' = [tab EXCEPT ![c] = t]
          /\ SendOrHangup(c, Ask("SCHEMA", t))
    /\ UNCHANGED <<poolVars, boot, listening, accepted, misread, strays, faults>>

(* Edit and +/- of a cell of a shown row: array cells cannot be encoded,    *)
(* and the terminal offers the columns only and no handle.                  *)
Editable(c) ==
    {f \in DOMAIN Fields : /\ Fields[f].single
                           /\ c \in TUI => Fields[f].column /\ Fields[f].writable}

Edit(c) ==
    /\ pc[c] = "shown" /\ schema[c] # None
    /\ \E row \in view[c], f \in Editable(c) :
          /\ c \in Shots => row.gen >= 0
          /\ SendOrHangup(c, Request("POKE", tab[c], row, f))
    /\ UNCHANGED <<poolVars, boot, listening, accepted, tab, misread, strays, faults>>

(* `poke` of a slot that is not among the rows, or of no field.             *)
NothingToEdit(c) ==
    /\ c \in Shots /\ pc[c] = "shown"
    /\ Hangup(c)
    /\ UNCHANGED <<poolVars, boot, listening, accepted, tab, misread, strays, faults>>

(* q, or the process is killed.                                             *)
Quit(c) ==
    /\ pc[c] \notin {"off", "done"}
    /\ line' = Hung(c)
    /\ inbox' = [inbox EXCEPT ![c] = <<>>]
    /\ pc' = [pc EXCEPT ![c] = "done"]
    /\ asked' = [asked EXCEPT ![c] = Nothing]
    /\ view' = [view EXCEPT ![c] = {}]
    /\ UNCHANGED <<poolVars, boot, listening, accepted, tab, schema, misread, strays, faults>>

-----------------------------------------------------------------------------
InspInit ==
    /\ Init
    /\ \E crew \in Crews :
          /\ boot = crew.boot
          /\ pc = [c \in Clients |-> IF c \in crew.who THEN "off" ELSE "done"]
    /\ listening = FALSE /\ line = <<>> /\ accepted = FALSE
    /\ tab = [c \in Clients |-> "Foo"]
    /\ schema = [c \in Clients |-> None]
    /\ asked = [c \in Clients |-> Nothing]
    /\ inbox = [c \in Clients |-> <<>>]
    /\ view = [c \in Clients |-> {}]
    /\ misread = {} /\ strays = {}
    /\ faults = 0

arche_inspect_poll ==
    \/ ensure_listen
    \/ PollAnswers
    \/ \E k \in 1..2 : PollFull(k)
    \/ PollGone

Client(c) ==
    \/ inspect_connect(c)
    \/ ReadSetup(c)
    \/ ReadRows(c)
    \/ ReadPoke(c)
    \/ ReadFails(c)
    \/ ReadTimesOut(c)
    \/ Refresh(c)
    \/ SwitchPool(c)
    \/ Edit(c)
    \/ NothingToEdit(c)
    \/ Quit(c)

InspNext ==
    \/ Next /\ UNCHANGED inspVars
    \/ Restart
    \/ arche_inspect_poll
    \/ \E c \in Clients : Client(c)

(* The host polls at every device call, a connected client goes on reading, *)
(* a waiting terminal tries again every second; nobody has to edit or quit. *)
Answering == ensure_listen \/ PollAnswers \/ PollGone
Reading(c) == ReadSetup(c) \/ ReadRows(c) \/ ReadPoke(c) \/ ReadFails(c) \/ NothingToEdit(c)

InspSpec ==
    /\ InspInit /\ [][InspNext]_<<poolVars, inspVars>>
    /\ WF_<<poolVars, inspVars>>(Answering)
    /\ \A c \in Clients : WF_<<poolVars, inspVars>>(inspect_connect(c) \/ Reading(c))

-----------------------------------------------------------------------------
(* An edit writes the row it was made for, or nothing: between the answer   *)
(* that showed the row and the POKE, the program may have deleted it and    *)
(* reused its slot, the terminal may have switched pools, and the host may  *)
(* have been replaced by one whose generations start again.                 *)
EditHitsItsRow == strays = {}

(* A client never takes the answer of one request for that of another,      *)
(* although an answer may still arrive when the client has given it up and  *)
(* asked for something else on the same connection.                         *)
AnswersMatch == misread = {}

(* A terminal that waits for a host gets to show its rows, whatever was     *)
(* lost before, a one-shot edit in between or not, as long as the host runs *)
(* and no other terminal stays connected for ever: arche_inspect_poll       *)
(* accepts only while it serves nobody, and the others wait in the backlog. *)
TerminalRecovers ==
    \A c \in TUI :
        (\A d \in TUI \ {c} : []<>~Connected(d))
            => (pc[c] = "off" ~> (pc[c] \in {"shown", "done"} \/ phase # "run"))

-----------------------------------------------------------------------------
(* The instance: a terminal and an edit over two hosts, and two terminals   *)
(* beside the last one.                                                     *)
MCCrews == {[who |-> {"tui", "poke"}, boot |-> 1], [who |-> {"tui", "other"}, boot |-> MaxBoots]}
=============================================================================
