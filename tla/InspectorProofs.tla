-------------------------- MODULE InspectorProofs --------------------------
(***************************************************************************)
(* Proofs about the inspector, for every number of clients, hosts and       *)
(* faults: no client takes one answer for another, and an edit writes the   *)
(* row it was made for or none.                                             *)
(***************************************************************************)
EXTENDS Inspector, PoolProofs, SequenceTheorems

RowRecs == [slot : Nat, gen : Int, ent : Nat, boot : Nat]
Requests == [verb : Waiting, pool : Tabs \cup {None}, row : RowRecs, field : DOMAIN Fields \cup {None}]
AnswerRecs == [of : Requests, ok : BOOLEAN, rows : SUBSET RowRecs, cut : BOOLEAN]
Conns == [client : Clients, open : BOOLEAN, reqs : Seq(Requests)]
Points == Waiting \cup {"off", "shown", "done"}

InspTypes ==
    /\ boot \in Nat /\ accepted \in BOOLEAN
    /\ line \in Seq(Conns)
    /\ pc \in [Clients -> Points] /\ tab \in [Clients -> Tabs]
    /\ asked \in [Clients -> Requests]
    /\ inbox \in [Clients -> Seq(AnswerRecs)]
    /\ view \in [Clients -> SUBSET RowRecs]

(* A request the terminal gives up and asks for the rows instead.           *)
GivenUp(q) == q.verb \in {"SCHEMA", "POKE"}

(* What can be at the head of a client's socket: the answer to its last     *)
(* request, alone, or that to a request it has given up, which it cannot    *)
(* take for the rows it waits for.                                          *)
HeadInv(c) ==
    inbox[c] # <<>> =>
        /\ pc[c] \in Waiting
        /\ \/ Len(inbox[c]) = 1 /\ inbox[c][1].of = asked[c]
           \/ pc[c] = "ROWS" /\ GivenUp(inbox[c][1].of)

(* An open connection owes the answer to the client's last request, either  *)
(* first or behind a given-up one; before it is accepted it owes the        *)
(* greeting, and while rows are shown nothing.                              *)
Greeted(i) == i = 1 /\ accepted

OwedInv(c, i) ==
    LET got == inbox[c]
        reqs == line[i].reqs
    IN  /\ pc[c] \in Waiting \cup {"shown"}
        /\ ~Greeted(i) => got = <<>> /\ reqs = <<>> /\ pc[c] = "hello" /\ asked[c] = Nothing
        /\ pc[c] = "shown" => got = <<>> /\ reqs = <<>>
        /\ Greeted(i) /\ pc[c] \in Waiting =>
              \/ got = <<>> /\ Len(reqs) = 1 /\ reqs[1] = asked[c]
              \/ Len(got) = 1 /\ reqs = <<>> /\ got[1].of = asked[c]
              \/ pc[c] = "ROWS" /\ got = <<>> /\ reqs # <<>> /\ GivenUp(reqs[1])
              \/ pc[c] = "ROWS" /\ got # <<>> /\ GivenUp(got[1].of)

ClientInv(c) ==
    /\ pc[c] \in Waiting => asked[c].verb = pc[c]
    /\ pc[c] = "off" => asked[c] = Nothing
    /\ HeadInv(c)
    /\ \A i \in MineIn(line, c) : OwedInv(c, i)

Single ==
    \A i, j \in DOMAIN line :
        line[i].open /\ line[j].open /\ line[i].client = line[j].client => i = j

Served == accepted => 1 \in DOMAIN line

FlowInv == InspTypes /\ Single /\ Served /\ \A c \in Clients : ClientInv(c)

AnswersInv == TypeInv /\ FlowInv /\ misread = {}

(* A row as a client was shown it, in the host it was shown by: its         *)
(* generation is not ahead of the slot's, behind it if the row was live and *)
(* is freed, and the slot's own only while the entity is there.             *)
KnownRow(r) ==
    /\ r.slot \in Slots /\ r.slot < count /\ r.gen \in Words
    /\ Low(r.gen) <= Low(gen[r.slot])
    /\ gen[r.slot] < 0 /\ r.gen >= 0 => r.gen < Low(gen[r.slot])
    /\ gen[r.slot] = r.gen => val[r.slot] = r.ent

RowInv(r, p) == r.boot = boot /\ IF p = "Bar" THEN r = BarRow ELSE KnownRow(r)

(* Edits under way, and rows on their way to a client or on its screen, as  *)
(* long as its connection lasts, are of the running host and the right pool.*)
EditsOk(i) ==
    \A q \in ToSet(line[i].reqs) : q.verb = "POKE" => q.pool \in Tabs /\ RowInv(q.row, q.pool)

ScreenOk(c) ==
    /\ \A p \in {tab[c]} : \A r \in view[c] : RowInv(r, p)
    /\ \A a \in ToSet(inbox[c]) : \A r \in a.rows : RowInv(r, a.of.pool)

RowsInv ==
    /\ \A i \in DOMAIN line : EditsOk(i)
    /\ \A c \in Clients : Connected(c) => ScreenOk(c)
    /\ \A c \in Clients : pc[c] = "off" => view[c] = {}
    /\ \A c \in Clients : pc[c] = "ROWS" => asked[c].pool = tab[c]

(* A slot's generation counts two for every entity offered, at most.        *)
BoundInv ==
    \A s \in Slots :
        /\ gen[s] >= 0 => gen[s] <= 2 * next
        /\ gen[s] < 0 => Low(gen[s]) <= 2 * next + 1

EditsInv == AnswersInv /\ RowsInv /\ BoundInv /\ strays = {}

-----------------------------------------------------------------------------
(* The queues are short: only their first elements matter.                  *)
LEMMA AppendFacts ==
    ASSUME NEW S, NEW s \in Seq(S), NEW e \in S
    PROVE  /\ Append(s, e) \in Seq(S) /\ Append(s, e) # <<>>
           /\ s = <<>> => Len(Append(s, e)) = 1 /\ Append(s, e)[1] = e
           /\ s # <<>> => Append(s, e)[1] = s[1]
  <1>1. /\ Append(s, e) \in Seq(S) /\ Append(s, e) # <<>> /\ Len(Append(s, e)) = Len(s) + 1
        /\ \A i \in 1..Len(s) : Append(s, e)[i] = s[i]
        /\ Append(s, e)[Len(s) + 1] = e
    BY AppendProperties
  <1>2. Len(s) \in Nat /\ (s # <<>> => Len(s) # 0) /\ (s = <<>> => Len(s) = 0)
    BY EmptySeq
  <1> QED
    BY <1>1, <1>2

LEMMA ConcatFacts ==
    ASSUME NEW S, NEW s \in Seq(S), NEW t \in Seq(S)
    PROVE  /\ s \o t \in Seq(S) /\ Len(s \o t) = Len(s) + Len(t)
           /\ s = <<>> => s \o t = t
           /\ s # <<>> => s \o t # <<>> /\ (s \o t)[1] = s[1]
           /\ \A j \in DOMAIN (s \o t) :
                 \/ j \in DOMAIN s /\ (s \o t)[j] = s[j]
                 \/ \E k \in DOMAIN t : (s \o t)[j] = t[k]
  <1>1. /\ s \o t \in Seq(S) /\ Len(s \o t) = Len(s) + Len(t)
        /\ \A i \in 1..Len(s) + Len(t) : (s \o t)[i] = IF i <= Len(s) THEN s[i] ELSE t[i - Len(s)]
    BY ConcatProperties
  <1>2. Len(s) \in Nat /\ Len(t) \in Nat /\ (s # <<>> => Len(s) # 0)
        /\ DOMAIN s = 1..Len(s) /\ DOMAIN t = 1..Len(t) /\ DOMAIN (s \o t) = 1..(Len(s) + Len(t))
    BY <1>1, EmptySeq, LenProperties
  <1>3. s = <<>> => s \o t = t
    BY ConcatEmptySeq
  <1>4. s # <<>> => s \o t # <<>> /\ (s \o t)[1] = s[1]
    BY <1>1, <1>2
  <1>5. ASSUME NEW j \in DOMAIN (s \o t), ~(j <= Len(s)) PROVE \E k \in DOMAIN t : (s \o t)[j] = t[k]
    <2>1. j - Len(s) \in DOMAIN t /\ (s \o t)[j] = t[j - Len(s)]
      BY <1>1, <1>2, <1>5
    <2> QED
      BY <2>1
  <1>6. ASSUME NEW j \in DOMAIN (s \o t), j <= Len(s) PROVE j \in DOMAIN s /\ (s \o t)[j] = s[j]
    BY <1>1, <1>2, <1>6
  <1> QED
    BY <1>1, <1>3, <1>4, <1>5, <1>6, Zenon

LEMMA TailFacts ==
    ASSUME NEW S, NEW s \in Seq(S), s # <<>>
    PROVE  /\ Tail(s) \in Seq(S) /\ s[1] \in S /\ 1 \in DOMAIN s
           /\ Len(s) = 1 => Tail(s) = <<>>
           /\ \A i \in DOMAIN Tail(s) : i \in Nat /\ i # 0 /\ i + 1 \in DOMAIN s /\ Tail(s)[i] = s[i + 1]
  <1>1. /\ Tail(s) \in Seq(S) /\ Len(Tail(s)) = Len(s) - 1
        /\ \A i \in 1..Len(Tail(s)) : Tail(s)[i] = s[i + 1]
    BY HeadTailProperties
  <1>2. Len(s) \in Nat \ {0} /\ DOMAIN s = 1..Len(s) /\ DOMAIN Tail(s) = 1..(Len(s) - 1)
    BY <1>1, EmptySeq, LenProperties
  <1>3. s[1] \in S
    BY <1>2, ElementOfSeq
  <1>4. ASSUME Len(s) = 1 PROVE Tail(s) = <<>>
    <2>1. Tail(s) \in Seq(S) /\ Len(Tail(s)) = 0
      BY <1>1, <1>4
    <2> QED
      BY <2>1, EmptySeq
  <1> QED
    BY <1>1, <1>2, <1>3, <1>4

LEMMA Values ==
    /\ NoRow \in RowRecs /\ Nothing \in Requests /\ Nothing.verb = "hello"
    /\ \A t \in Tabs : /\ Ask("ROWS", t) \in Requests /\ Ask("SCHEMA", t) \in Requests
                       /\ Ask("ROWS", t).verb = "ROWS" /\ Ask("SCHEMA", t).verb = "SCHEMA"
                       /\ Ask("ROWS", t).pool = t
    /\ Ask("LIST", None) \in Requests /\ Ask("LIST", None).verb = "LIST"
    /\ Hello \in AnswerRecs /\ Hello.of = Nothing /\ Hello.rows = {}
  <1>1. NoRow \in RowRecs
    BY DEF NoRow, RowRecs, NoEnt
  <1>2. ASSUME NEW v \in Waiting, NEW p \in Tabs \cup {None}
        PROVE  Ask(v, p) \in Requests /\ Ask(v, p).verb = v /\ Ask(v, p).pool = p
    BY <1>1 DEF Ask, Request, Requests
  <1>3. Nothing \in Requests /\ Nothing.verb = "hello"
    BY <1>2 DEF Nothing, Waiting
  <1>4. Hello \in AnswerRecs /\ Hello.of = Nothing /\ Hello.rows = {}
    BY <1>3 DEF Hello, AnswerRecs
  <1> QED
    BY <1>1, <1>2, <1>3, <1>4 DEF Waiting

(* What the types say of one connection and of one client.                  *)
LEMMA ConnTypes ==
    ASSUME InspTypes
    PROVE  /\ DOMAIN line = 1..Len(line) /\ Len(line) \in Nat
           /\ \A i \in DOMAIN line :
                 /\ line[i] \in Conns /\ line[i].client \in Clients /\ line[i].open \in BOOLEAN
                 /\ line[i].reqs \in Seq(Requests)
           /\ \A c \in Clients :
                 /\ pc[c] \in Points /\ tab[c] \in Tabs /\ asked[c] \in Requests
                 /\ inbox[c] \in Seq(AnswerRecs) /\ view[c] \in SUBSET RowRecs
  <1>1. line \in Seq(Conns)
    BY DEF InspTypes
  <1>2. DOMAIN line = 1..Len(line) /\ Len(line) \in Nat /\ \A i \in DOMAIN line : line[i] \in Conns
    BY <1>1
  <1>3. ASSUME NEW r \in Conns PROVE r.client \in Clients /\ r.open \in BOOLEAN /\ r.reqs \in Seq(Requests)
    BY DEF Conns
  <1> QED
    BY <1>2, <1>3 DEF InspTypes

(* Sending on a connection that is open, and on none.                       *)
LEMMA SentFacts ==
    ASSUME InspTypes, NEW c \in Clients, NEW q \in Requests, line' = Sent(c, q)
    PROVE  /\ line' \in Seq(Conns) /\ DOMAIN line' = DOMAIN line
           /\ \A i \in DOMAIN line :
                 /\ line'[i].client = line[i].client /\ line'[i].open = line[i].open
                 /\ i \in MineIn(line, c) => line'[i].reqs = Append(line[i].reqs, q)
                 /\ i \notin MineIn(line, c) => line'[i] = line[i]
  <1>1. DOMAIN line = 1..Len(line) /\ Len(line) \in Nat /\ \A i \in DOMAIN line : line[i] \in Conns
    BY ConnTypes
  <1>2. ASSUME NEW i \in DOMAIN line
        PROVE  /\ line'[i] \in Conns
               /\ line'[i].client = line[i].client /\ line'[i].open = line[i].open
               /\ i \in MineIn(line, c) => line'[i].reqs = Append(line[i].reqs, q)
               /\ i \notin MineIn(line, c) => line'[i] = line[i]
    <2>1. line'[i] = IF i \in MineIn(line, c) THEN [line[i] EXCEPT !.reqs = Append(line[i].reqs, q)] ELSE line[i]
      BY DEF Sent
    <2>2. line[i] \in Conns /\ line[i].reqs \in Seq(Requests)
      BY <1>1 DEF Conns
    <2>3. Append(line[i].reqs, q) \in Seq(Requests)
      BY <2>2
    <2> QED
      BY <2>1, <2>2, <2>3 DEF Conns
  <1>3. line' \in [1..Len(line) -> Conns]
    BY <1>1, <1>2 DEF Sent
  <1> QED
    BY <1>1, <1>2, <1>3

LEMMA HungFacts ==
    ASSUME InspTypes, NEW c \in Clients, line' = Hung(c)
    PROVE  /\ line' \in Seq(Conns) /\ DOMAIN line' = DOMAIN line
           /\ \A i \in DOMAIN line :
                 /\ line'[i].client = line[i].client /\ line'[i].reqs = line[i].reqs
                 /\ i \in MineIn(line, c) => line'[i].open = FALSE
                 /\ i \notin MineIn(line, c) => line'[i] = line[i]
           /\ MineIn(line', c) = {}
  <1>1. DOMAIN line = 1..Len(line) /\ Len(line) \in Nat /\ \A i \in DOMAIN line : line[i] \in Conns
    BY ConnTypes
  <1>2. ASSUME NEW i \in DOMAIN line
        PROVE  /\ line'[i] \in Conns
               /\ line'[i].client = line[i].client /\ line'[i].reqs = line[i].reqs
               /\ i \in MineIn(line, c) => line'[i].open = FALSE
               /\ i \notin MineIn(line, c) => line'[i] = line[i]
    <2>1. line'[i] = IF i \in MineIn(line, c) THEN [line[i] EXCEPT !.open = FALSE] ELSE line[i]
      BY DEF Hung
    <2>2. line[i] \in Conns
      BY <1>1
    <2> QED
      BY <2>1, <2>2 DEF Conns
  <1>3. line' \in [1..Len(line) -> Conns]
    BY <1>1, <1>2 DEF Hung
  <1>4. DOMAIN line' = DOMAIN line
    BY DEF Hung
  <1>5. ASSUME NEW i \in MineIn(line', c) PROVE FALSE
    <2>1. i \in DOMAIN line /\ line'[i].open /\ line'[i].client = c
      BY <1>4 DEF MineIn
    <2>2. i \in MineIn(line, c)
      BY <1>2, <2>1 DEF MineIn
    <2> QED
      BY <1>2, <2>1, <2>2
  <1> QED
    <2>1. line' \in Seq(Conns)
      BY <1>1, <1>3
    <2> QED
      BY <1>2, <1>4, <1>5, <2>1, Zenon

(* A step of client c alone: nobody else's connection or socket changes.    *)
Alone(c) ==
    /\ InspTypes' /\ accepted' = accepted
    /\ DOMAIN line' = DOMAIN line
    /\ \A i \in DOMAIN line :
          /\ line'[i].client = line[i].client /\ (line'[i].open => line[i].open)
          /\ line[i].client # c => line'[i] = line[i]
    /\ \A d \in Clients \ {c} : pc'[d] = pc[d] /\ asked'[d] = asked[d] /\ inbox'[d] = inbox[d]

LEMMA OthersKept ==
    ASSUME FlowInv, NEW c \in Clients, Alone(c), ClientInv(c)'
    PROVE  FlowInv'
  <1>1. Single'
    BY DEF FlowInv, Single, Alone
  <1>2. ASSUME NEW d \in Clients, d # c PROVE ClientInv(d)'
    <2>1. MineIn(line', d) = MineIn(line, d) /\ \A i \in MineIn(line, d) : line'[i] = line[i]
      BY <1>2 DEF Alone, MineIn
    <2>2. pc'[d] = pc[d] /\ asked'[d] = asked[d] /\ inbox'[d] = inbox[d] /\ accepted' = accepted
      BY <1>2 DEF Alone
    <2>3. ClientInv(d)
      BY DEF FlowInv
    <2>4. ASSUME NEW i \in MineIn(line, d) PROVE OwedInv(d, i)'
      BY <2>1, <2>2, <2>3, <2>4 DEF ClientInv, OwedInv, Greeted
    <2> QED
      BY <2>1, <2>2, <2>3, <2>4 DEF ClientInv, HeadInv
  <1>3. Served'
    BY DEF FlowInv, Served, Alone
  <1> QED
    BY <1>1, <1>2, <1>3 DEF FlowInv, Alone

(* Rows, tabs and hosts are typed whatever happens to the queues.           *)
Rest == boot' \in Nat /\ accepted' = accepted
        /\ tab' \in [Clients -> Tabs] /\ view' \in [Clients -> SUBSET RowRecs]

(* A client that has read everything sends its next request, or gives up    *)
(* one that is not answered and asks for the rows.                          *)
LEMMA SendFlow ==
    ASSUME FlowInv, NEW c \in Clients, NEW q \in Requests, q.verb # "hello",
           Send(c, q), Rest,
           inbox' \in [Clients -> Seq(AnswerRecs)], inbox'[c] = <<>>,
           \A d \in Clients \ {c} : inbox'[d] = inbox[d],
           \A i \in MineIn(line, c) :
               /\ Greeted(i)
               /\ \/ line[i].reqs = <<>>
                  \/ q.verb = "ROWS" /\ line[i].reqs # <<>> /\ GivenUp(line[i].reqs[1])
    PROVE  FlowInv'
  <1>1. InspTypes /\ line' = Sent(c, q) /\ asked' = [asked EXCEPT ![c] = q] /\ pc' = [pc EXCEPT ![c] = q.verb]
    BY DEF FlowInv, Send
  <1>2. q.verb \in Waiting /\ q.verb \in Points
    BY DEF Requests, Points
  <1>3. asked' \in [Clients -> Requests] /\ pc' \in [Clients -> Points]
    BY <1>1, <1>2 DEF InspTypes
  <1>4. asked'[c] = q /\ pc'[c] = q.verb /\ \A d \in Clients \ {c} : asked'[d] = asked[d] /\ pc'[d] = pc[d]
    BY <1>1 DEF InspTypes
  <1>5. /\ line' \in Seq(Conns) /\ DOMAIN line' = DOMAIN line
        /\ \A i \in DOMAIN line :
              /\ line'[i].client = line[i].client /\ line'[i].open = line[i].open
              /\ i \in MineIn(line, c) => line'[i].reqs = Append(line[i].reqs, q)
              /\ i \notin MineIn(line, c) => line'[i] = line[i]
    BY <1>1, SentFacts
  <1>6. InspTypes'
    BY <1>1, <1>3, <1>5 DEF InspTypes, Rest
  <1>7. \A i \in DOMAIN line : line[i].client # c => line'[i] = line[i]
    BY <1>5 DEF MineIn
  <1>8. Alone(c)
    BY <1>4, <1>5, <1>6, <1>7 DEF Alone, Rest
  <1>9. MineIn(line', c) = MineIn(line, c) /\ MineIn(line, c) \subseteq DOMAIN line
    BY <1>5 DEF MineIn
  <1>10. ASSUME NEW i \in MineIn(line, c) PROVE OwedInv(c, i)'
    <2>1. line[i].reqs \in Seq(Requests) /\ line'[i].reqs = Append(line[i].reqs, q)
      BY <1>1, <1>5, <1>9, ConnTypes
    <2>2. CASE line[i].reqs = <<>>
      <3>1. Len(line'[i].reqs) = 1 /\ line'[i].reqs[1] = q
        BY <2>1, <2>2
      <3> QED
        BY <1>2, <1>4, <3>1 DEF OwedInv, Greeted, Rest, Waiting
    <2>3. CASE q.verb = "ROWS" /\ line[i].reqs # <<>> /\ GivenUp(line[i].reqs[1])
      <3>1. line'[i].reqs # <<>> /\ line'[i].reqs[1] = line[i].reqs[1]
        <4>1. Append(line[i].reqs, q) # <<>>
          BY <2>1, AppendFacts
        <4>2. line[i].reqs # <<>> => Append(line[i].reqs, q)[1] = line[i].reqs[1]
          BY <2>1, AppendFacts
        <4>3. line[i].reqs # <<>>
          BY <2>3
        <4> QED
          BY <2>1, <4>1, <4>2, <4>3, Zenon
      <3> QED
        BY <1>2, <1>4, <2>3, <3>1 DEF OwedInv, Greeted, Rest, Waiting
    <2> QED
      BY <2>2, <2>3
  <1>11. ClientInv(c)'
    BY <1>2, <1>4, <1>9, <1>10 DEF ClientInv, HeadInv, Waiting
  <1> QED
    BY <1>8, <1>11, OthersKept

(* A client that closes its connection.                                     *)
LEMMA HangFlow ==
    ASSUME FlowInv, NEW c \in Clients, NEW p \in {"off", "done"}, Rest,
           line' = Hung(c), pc' = [pc EXCEPT ![c] = p], asked' = [asked EXCEPT ![c] = Nothing],
           inbox' \in [Clients -> Seq(AnswerRecs)], inbox'[c] = <<>>,
           \A d \in Clients \ {c} : inbox'[d] = inbox[d]
    PROVE  FlowInv'
  <1>1. InspTypes /\ Nothing \in Requests
    BY Values DEF FlowInv
  <1>2. p \in Points /\ p \notin Waiting
    BY DEF Points, Waiting
  <1>3. asked' \in [Clients -> Requests] /\ pc' \in [Clients -> Points]
    BY <1>1, <1>2 DEF InspTypes
  <1>4. asked'[c] = Nothing /\ pc'[c] = p /\ \A d \in Clients \ {c} : asked'[d] = asked[d] /\ pc'[d] = pc[d]
    BY <1>1 DEF InspTypes
  <1>5. /\ line' \in Seq(Conns) /\ DOMAIN line' = DOMAIN line /\ MineIn(line', c) = {}
        /\ \A i \in DOMAIN line :
              /\ line'[i].client = line[i].client
              /\ i \in MineIn(line, c) => line'[i].open = FALSE
              /\ i \notin MineIn(line, c) => line'[i] = line[i]
    BY <1>1, HungFacts
  <1>6. InspTypes'
    BY <1>1, <1>3, <1>5 DEF InspTypes, Rest
  <1>7. \A i \in DOMAIN line : (line[i].client # c => line'[i] = line[i]) /\ (line'[i].open => line[i].open)
    BY <1>5 DEF MineIn
  <1>8. Alone(c)
    BY <1>4, <1>5, <1>6, <1>7 DEF Alone, Rest
  <1>9. ClientInv(c)'
    BY <1>2, <1>4, <1>5 DEF ClientInv, HeadInv
  <1> QED
    BY <1>8, <1>9, OthersKept

(* What a client takes is the answer to its last request.                   *)
LEMMA HeadMatches ==
    ASSUME FlowInv, NEW c \in Clients, inbox[c] # <<>>,
           pc[c] # "ROWS" \/ Understood(c)
    PROVE  /\ Len(inbox[c]) = 1 /\ inbox[c][1].of = asked[c] /\ Tail(inbox[c]) = <<>>
           /\ pc[c] \in Waiting /\ asked[c].verb = pc[c]
           /\ \A i \in MineIn(line, c) : Greeted(i) /\ line[i].reqs = <<>>
  <1>1. ClientInv(c) /\ inbox[c] \in Seq(AnswerRecs)
    BY ConnTypes DEF FlowInv
  <1>2. ~(pc[c] = "ROWS" /\ GivenUp(inbox[c][1].of))
    BY DEF Understood, ReadsAs, GivenUp
  <1>3. pc[c] \in Waiting /\ asked[c].verb = pc[c] /\ Len(inbox[c]) = 1 /\ inbox[c][1].of = asked[c]
    BY <1>1, <1>2 DEF ClientInv, HeadInv
  <1>4. Tail(inbox[c]) = <<>>
    <2>1. Tail(inbox[c]) \in Seq(AnswerRecs) /\ Len(Tail(inbox[c])) = 0
      BY <1>1, <1>3, HeadTailProperties
    <2> QED
      BY <2>1, EmptySeq
  <1>5. ASSUME NEW i \in MineIn(line, c) PROVE Greeted(i) /\ line[i].reqs = <<>>
    BY <1>1, <1>2, <1>3, <1>5 DEF ClientInv, OwedInv
  <1> QED
    BY <1>3, <1>4, <1>5
LEMMA TakeFacts ==
    ASSUME FlowInv, NEW c \in Clients, inbox[c] # <<>>, Take(c),
           pc[c] # "ROWS" \/ Understood(c)
    PROVE  /\ inbox' \in [Clients -> Seq(AnswerRecs)] /\ inbox'[c] = <<>>
           /\ \A d \in Clients \ {c} : inbox'[d] = inbox[d]
           /\ misread' = misread
  <1>1. Tail(inbox[c]) = <<>> /\ inbox[c][1].of = asked[c]
    BY HeadMatches
  <1>2. inbox \in [Clients -> Seq(AnswerRecs)]
    BY DEF FlowInv, InspTypes
  <1>3. inbox' = [inbox EXCEPT ![c] = <<>>]
    BY <1>1 DEF Take
  <1>4. misread' = misread
    BY <1>1 DEF Take
  <1> QED
    BY <1>2, <1>3, <1>4

LEMMA RestKept ==
    ASSUME FlowInv, UNCHANGED <<boot, accepted, tab>>, view' \in [Clients -> SUBSET RowRecs]
    PROVE  Rest
  BY DEF FlowInv, InspTypes, Rest

LEMMA ReadSetupFlow ==
    ASSUME FlowInv, NEW c \in Clients, ReadSetup(c)
    PROVE  FlowInv' /\ misread' = misread
  <1>1. pc[c] \in {"hello", "LIST", "SCHEMA"} /\ inbox[c] # <<>> /\ Take(c) /\ Send(c, FollowUp(c, pc[c]))
        /\ UNCHANGED <<boot, accepted, tab, view>>
    BY DEF ReadSetup, Understood
  <1>2. /\ inbox' \in [Clients -> Seq(AnswerRecs)] /\ inbox'[c] = <<>>
        /\ \A d \in Clients \ {c} : inbox'[d] = inbox[d]
        /\ misread' = misread
    BY <1>1, TakeFacts
  <1>3. \A i \in MineIn(line, c) : Greeted(i) /\ line[i].reqs = <<>>
    BY <1>1, HeadMatches
  <1>4. FollowUp(c, pc[c]) \in Requests /\ FollowUp(c, pc[c]).verb # "hello"
    <2>1. tab[c] \in Tabs
      BY ConnTypes DEF FlowInv
    <2>2. FollowUp(c, pc[c]) \in {Ask("LIST", None), Ask("SCHEMA", tab[c]), Ask("ROWS", tab[c])}
      BY <1>1 DEF FollowUp
    <2> QED
      BY <2>1, <2>2, Values
  <1>5. Rest
    BY <1>1, RestKept DEF FlowInv, InspTypes
  <1> QED
    BY <1>1, <1>2, <1>3, <1>4, <1>5, SendFlow

LEMMA ReadPokeFlow ==
    ASSUME FlowInv, NEW c \in Clients, ReadPoke(c)
    PROVE  FlowInv' /\ misread' = misread
  <1>1. pc[c] = "POKE" /\ inbox[c] # <<>> /\ Take(c) /\ UNCHANGED <<boot, accepted, tab, view>>
    BY DEF ReadPoke
  <1>2. /\ inbox' \in [Clients -> Seq(AnswerRecs)] /\ inbox'[c] = <<>>
        /\ \A d \in Clients \ {c} : inbox'[d] = inbox[d]
        /\ misread' = misread
    BY <1>1, TakeFacts
  <1>3. \A i \in MineIn(line, c) : Greeted(i) /\ line[i].reqs = <<>>
    BY <1>1, HeadMatches
  <1>4. Rest
    BY <1>1, RestKept DEF FlowInv, InspTypes
  <1>5. CASE c \in TUI
    <2>1. Send(c, Ask("ROWS", tab[c]))
      BY <1>5 DEF ReadPoke
    <2>2. Ask("ROWS", tab[c]) \in Requests /\ Ask("ROWS", tab[c]).verb # "hello"
      BY Values, ConnTypes DEF FlowInv
    <2> QED
      BY <1>2, <1>3, <1>4, <2>1, <2>2, SendFlow
  <1>6. CASE c \notin TUI
    <2>1. line' = Hung(c) /\ pc' = [pc EXCEPT ![c] = "done"] /\ asked' = [asked EXCEPT ![c] = Nothing]
      BY <1>6 DEF ReadPoke
    <2> QED
      BY <1>2, <1>4, <2>1, HangFlow
  <1> QED
    BY <1>5, <1>6

(* The rows arrive: the client has read everything it asked for.            *)
LEMMA ReadRowsFlow ==
    ASSUME FlowInv, NEW c \in Clients, ReadRows(c)
    PROVE  FlowInv' /\ misread' = misread
  <1>1. pc[c] = "ROWS" /\ inbox[c] # <<>> /\ Understood(c) /\ Take(c)
        /\ view' = [view EXCEPT ![c] = inbox[c][1].rows] /\ pc' = [pc EXCEPT ![c] = "shown"]
        /\ UNCHANGED <<boot, line, accepted, tab, asked>>
    BY DEF ReadRows, Understood
  <1>2. /\ inbox' \in [Clients -> Seq(AnswerRecs)] /\ inbox'[c] = <<>>
        /\ \A d \in Clients \ {c} : inbox'[d] = inbox[d]
        /\ misread' = misread
    BY <1>1, TakeFacts
  <1>3. \A i \in MineIn(line, c) : Greeted(i) /\ line[i].reqs = <<>>
    BY <1>1, HeadMatches
  <1>4. InspTypes'
    <2>1. inbox[c][1] \in AnswerRecs
      BY <1>1, ConnTypes, TailFacts DEF FlowInv
    <2>2. inbox[c][1].rows \in SUBSET RowRecs
      BY <2>1 DEF AnswerRecs
    <2>3. view' \in [Clients -> SUBSET RowRecs]
      BY <1>1, <2>2 DEF FlowInv, InspTypes
    <2>4. pc' \in [Clients -> Points]
      BY <1>1 DEF FlowInv, InspTypes, Points
    <2> QED
      BY <1>1, <1>2, <2>3, <2>4 DEF FlowInv, InspTypes
  <1>5. pc'[c] = "shown" /\ \A d \in Clients \ {c} : pc'[d] = pc[d]
    BY <1>1 DEF FlowInv, InspTypes
  <1>6. Alone(c)
    BY <1>1, <1>2, <1>4, <1>5 DEF Alone
  <1>7. ASSUME NEW i \in MineIn(line', c) PROVE OwedInv(c, i)'
    <2>1. i \in MineIn(line, c) /\ line'[i].reqs = <<>> /\ Greeted(i)'
      BY <1>1, <1>3, <1>7 DEF Greeted
    <2> QED
      BY <1>2, <1>5, <2>1 DEF OwedInv, Waiting
  <1>8. ClientInv(c)'
    BY <1>2, <1>5, <1>7 DEF ClientInv, HeadInv, Waiting
  <1> QED
    BY <1>2, <1>6, <1>8, OthersKept

(* A read that fails.                                                       *)
LEMMA FailsFlow ==
    ASSUME FlowInv, NEW c \in Clients, pc[c] \in Waiting, Fails(c), UNCHANGED <<boot, accepted, tab>>
    PROVE  FlowInv'
  <1>1. ClientInv(c) /\ inbox \in [Clients -> Seq(AnswerRecs)] /\ view \in [Clients -> SUBSET RowRecs]
    BY DEF FlowInv, InspTypes
  <1>2. CASE c \in TUI /\ pc[c] \in {"SCHEMA", "POKE"} /\ Connected(c)
    <2>1. /\ Send(c, Ask("ROWS", tab[c])) /\ UNCHANGED view
          /\ inbox' = [inbox EXCEPT ![c] = IF inbox[c] = <<>> THEN <<>> ELSE Tail(inbox[c])]
      BY <1>2 DEF Fails
    <2>2. inbox[c] # <<>> => Tail(inbox[c]) = <<>>
      BY <1>2, HeadMatches
    <2>3. inbox' = [inbox EXCEPT ![c] = <<>>]
      BY <2>1, <2>2
    <2>4. /\ inbox' \in [Clients -> Seq(AnswerRecs)] /\ inbox'[c] = <<>>
          /\ \A d \in Clients \ {c} : inbox'[d] = inbox[d]
      BY <1>1, <2>3
    <2>5. Rest
      BY <1>1, <2>1, RestKept
    <2>6. Ask("ROWS", tab[c]) \in Requests /\ Ask("ROWS", tab[c]).verb = "ROWS"
      BY Values, ConnTypes DEF FlowInv
    <2>7. ASSUME NEW i \in MineIn(line, c)
          PROVE  /\ Greeted(i)
                 /\ line[i].reqs = <<>> \/ (line[i].reqs # <<>> /\ GivenUp(line[i].reqs[1]))
      <3>1. OwedInv(c, i) /\ asked[c].verb = pc[c]
        BY <1>1 DEF ClientInv
      <3>2. Greeted(i)
        BY <1>2, <3>1 DEF OwedInv
      <3>3. \/ Len(line[i].reqs) = 1 /\ line[i].reqs[1] = asked[c]
            \/ line[i].reqs = <<>>
        BY <1>2, <3>1, <3>2 DEF OwedInv
      <3>4. GivenUp(asked[c])
        BY <1>2, <3>1 DEF GivenUp
      <3> QED
        BY <3>2, <3>3, <3>4
    <2> QED
      BY <2>1, <2>4, <2>5, <2>6, <2>7, SendFlow
  <1>3. CASE ~(c \in TUI /\ pc[c] \in {"SCHEMA", "POKE"} /\ Connected(c))
    <2>1. Hangup(c)
      BY <1>3 DEF Fails
    <2>2. inbox' = [inbox EXCEPT ![c] = <<>>] /\ view' = [view EXCEPT ![c] = {}]
      BY <2>1 DEF Hangup
    <2>3. view' \in [Clients -> SUBSET RowRecs]
      BY <1>1, <2>2
    <2>4. Rest
      BY <2>3, RestKept
    <2>5. /\ inbox' \in [Clients -> Seq(AnswerRecs)] /\ inbox'[c] = <<>>
          /\ \A d \in Clients \ {c} : inbox'[d] = inbox[d]
      BY <1>1, <2>2
    <2> QED
      BY <2>1, <2>4, <2>5, HangFlow DEF Hangup
  <1> QED
    BY <1>2, <1>3
(* From the shown rows a client sends or, if the host is gone, hangs up.    *)
LEMMA ShownFlow ==
    ASSUME FlowInv, NEW c \in Clients, NEW q \in Requests, pc[c] = "shown", q.verb # "hello",
           SendOrHangup(c, q), UNCHANGED <<boot, accepted>>, tab' \in [Clients -> Tabs]
    PROVE  FlowInv'
  <1>1. ClientInv(c) /\ inbox \in [Clients -> Seq(AnswerRecs)] /\ view \in [Clients -> SUBSET RowRecs]
    BY DEF FlowInv, InspTypes
  <1>2. view' = [view EXCEPT ![c] = {}]
    BY DEF SendOrHangup, Hangup
  <1>3. view' \in [Clients -> SUBSET RowRecs]
    BY <1>1, <1>2
  <1>4. Rest
    BY <1>3 DEF Rest, FlowInv, InspTypes
  <1>5. inbox[c] = <<>>
    BY <1>1 DEF ClientInv, HeadInv, Waiting
  <1>6. CASE Connected(c)
    <2>1. Send(c, q) /\ inbox' = inbox
      BY <1>6 DEF SendOrHangup
    <2>2. ASSUME NEW i \in MineIn(line, c) PROVE Greeted(i) /\ line[i].reqs = <<>>
      <3>1. OwedInv(c, i)
        BY <1>1 DEF ClientInv
      <3> QED
        BY <3>1 DEF OwedInv
    <2> QED
      BY <1>1, <1>4, <1>5, <2>1, <2>2, SendFlow
  <1>7. CASE ~Connected(c)
    <2>1. Hangup(c) /\ inbox' = [inbox EXCEPT ![c] = <<>>]
      BY <1>7 DEF SendOrHangup, Hangup
    <2>2. /\ inbox' \in [Clients -> Seq(AnswerRecs)] /\ inbox'[c] = <<>>
          /\ \A d \in Clients \ {c} : inbox'[d] = inbox[d]
      BY <1>1, <2>1
    <2> QED
      BY <1>4, <2>1, <2>2, HangFlow DEF Hangup
  <1> QED
    BY <1>6, <1>7

LEMMA PokeRequest ==
    ASSUME FlowInv, NEW c \in Clients, NEW row \in view[c], NEW f \in Editable(c)
    PROVE  /\ Request("POKE", tab[c], row, f) \in Requests
           /\ Request("POKE", tab[c], row, f).verb = "POKE"
           /\ Request("POKE", tab[c], row, f).row = row
           /\ Request("POKE", tab[c], row, f).pool = tab[c]
           /\ Request("POKE", tab[c], row, f).field = f
  <1>1. tab[c] \in Tabs /\ row \in RowRecs
    BY ConnTypes DEF FlowInv
  <1>2. f \in DOMAIN Fields
    BY DEF Editable
  <1> QED
    BY <1>1, <1>2 DEF Request, Requests, Waiting

LEMMA ShownActionsFlow ==
    ASSUME FlowInv, NEW c \in Clients, Refresh(c) \/ SwitchPool(c) \/ Edit(c)
    PROVE  FlowInv' /\ misread' = misread
  <1>1. tab \in [Clients -> Tabs] /\ tab[c] \in Tabs
    BY DEF FlowInv, InspTypes
  <1>2. CASE Refresh(c)
    <2>1. pc[c] = "shown" /\ SendOrHangup(c, Ask("ROWS", tab[c])) /\ UNCHANGED <<boot, accepted, tab, misread>>
      BY <1>2 DEF Refresh
    <2>2. Ask("ROWS", tab[c]) \in Requests /\ Ask("ROWS", tab[c]).verb # "hello"
      BY <1>1, Values
    <2> QED
      BY <1>1, <2>1, <2>2, ShownFlow
  <1>3. CASE SwitchPool(c)
    <2>1. pc[c] = "shown" /\ UNCHANGED <<boot, accepted, misread>>
      BY <1>3 DEF SwitchPool
    <2>2. PICK t \in Tabs : tab' = [tab EXCEPT ![c] = t] /\ SendOrHangup(c, Ask("SCHEMA", t))
      BY <1>3 DEF SwitchPool
    <2>3. Ask("SCHEMA", t) \in Requests /\ Ask("SCHEMA", t).verb # "hello"
      BY Values
    <2>4. tab' \in [Clients -> Tabs]
      BY <1>1, <2>2
    <2> QED
      BY <2>1, <2>2, <2>3, <2>4, ShownFlow
  <1>4. CASE Edit(c)
    <2>1. pc[c] = "shown" /\ UNCHANGED <<boot, accepted, tab, misread>>
      BY <1>4 DEF Edit
    <2>2. PICK row \in view[c], f \in Editable(c) : SendOrHangup(c, Request("POKE", tab[c], row, f))
      BY <1>4 DEF Edit
    <2>3. Request("POKE", tab[c], row, f) \in Requests /\ Request("POKE", tab[c], row, f).verb # "hello"
      BY PokeRequest
    <2> QED
      BY <1>1, <2>1, <2>2, <2>3, ShownFlow
  <1> QED
    BY <1>2, <1>3, <1>4

LEMMA CloseFlow ==
    ASSUME FlowInv, NEW c \in Clients, NothingToEdit(c) \/ Quit(c)
    PROVE  FlowInv' /\ misread' = misread
  <1>1. PICK p \in {"off", "done"} :
           /\ line' = Hung(c) /\ pc' = [pc EXCEPT ![c] = p] /\ asked' = [asked EXCEPT ![c] = Nothing]
           /\ inbox' = [inbox EXCEPT ![c] = <<>>] /\ view' = [view EXCEPT ![c] = {}]
           /\ UNCHANGED <<boot, accepted, tab, misread>>
    BY DEF NothingToEdit, Hangup, Quit
  <1>2. inbox \in [Clients -> Seq(AnswerRecs)] /\ view \in [Clients -> SUBSET RowRecs]
    BY DEF FlowInv, InspTypes
  <1>3. view' \in [Clients -> SUBSET RowRecs]
    BY <1>1, <1>2
  <1>4. Rest
    BY <1>1, <1>3, RestKept
  <1>5. /\ inbox' \in [Clients -> Seq(AnswerRecs)] /\ inbox'[c] = <<>>
        /\ \A d \in Clients \ {c} : inbox'[d] = inbox[d]
    BY <1>1, <1>2
  <1> QED
    BY <1>1, <1>4, <1>5, HangFlow

LEMMA ConnectFlow ==
    ASSUME FlowInv, NEW c \in Clients, inspect_connect(c)
    PROVE  FlowInv' /\ misread' = misread
  <1>1. /\ pc[c] = "off" /\ pc' = [pc EXCEPT ![c] = "hello"]
        /\ line' = Append(line, [client |-> c, open |-> TRUE, reqs |-> <<>>])
        /\ UNCHANGED <<boot, accepted, tab, asked, inbox, view, misread>>
    BY DEF inspect_connect
  <1>2. InspTypes /\ ClientInv(c) /\ Served /\ Single
    BY DEF FlowInv
  <1>3. DOMAIN line = 1..Len(line) /\ Len(line) \in Nat /\ line \in Seq(Conns)
    BY <1>2, ConnTypes DEF InspTypes
  <1>4. [client |-> c, open |-> TRUE, reqs |-> <<>>] \in Conns
    BY DEF Conns
  <1>0. PICK n \in Nat : n = Len(line) + 1
    BY <1>3
  <1>5. /\ line' \in Seq(Conns) /\ DOMAIN line' = 1..n
        /\ \A i \in DOMAIN line : line'[i] = line[i]
        /\ line'[n] = [client |-> c, open |-> TRUE, reqs |-> <<>>]
    BY <1>0, <1>1, <1>3, <1>4, AppendProperties, LenProperties
  <1>6. pc'[c] = "hello" /\ asked'[c] = Nothing /\ inbox'[c] = <<>> /\ \A d \in Clients \ {c} : pc'[d] = pc[d]
    BY <1>1, <1>2 DEF InspTypes, ClientInv, HeadInv, Waiting
  <1>7. InspTypes'
    <2>1. pc' \in [Clients -> Points]
      BY <1>1, <1>2 DEF InspTypes, Points, Waiting
    <2> QED
      BY <1>1, <1>2, <1>5, <2>1 DEF InspTypes
  <1>8. MineIn(line, c) = {}
    BY <1>1, <1>2 DEF ClientInv, OwedInv, Waiting
  <1>9. MineIn(line', c) = {n} /\ ~Greeted(n)'
    <2>1. n \in MineIn(line', c)
      BY <1>0, <1>3, <1>5 DEF MineIn
    <2>2. ASSUME NEW i \in MineIn(line', c) PROVE i = n
      BY <1>0, <1>3, <1>5, <1>8, <2>2 DEF MineIn
    <2>3. n = 1 => ~accepted
      BY <1>0, <1>2, <1>3 DEF Served
    <2> QED
      BY <1>1, <2>1, <2>2, <2>3 DEF Greeted
  <1>10. Single'
    <2> SUFFICES ASSUME NEW i \in DOMAIN line', NEW j \in DOMAIN line',
                        line'[i].open, line'[j].open, line'[i].client = line'[j].client
                 PROVE  i = j
      BY DEF Single
    <2>1. CASE line'[i].client = c
      <3>1. i \in MineIn(line', c) /\ j \in MineIn(line', c)
        BY <2>1 DEF MineIn
      <3> QED
        BY <1>9, <3>1
    <2>2. CASE line'[i].client # c
      <3>1. i # n /\ j # n
        BY <1>5, <2>2
      <3>2. i \in DOMAIN line /\ j \in DOMAIN line
        BY <1>0, <1>3, <1>5, <3>1
      <3> QED
        BY <1>2, <1>5, <3>2 DEF Single
    <2> QED
      BY <2>1, <2>2
  <1>11. Served'
    BY <1>0, <1>1, <1>2, <1>3, <1>5 DEF Served
  <1>12. ClientInv(c)'
    <2>1. OwedInv(c, n)'
      BY <1>5, <1>6, <1>9 DEF OwedInv, Waiting
    <2> QED
      BY <1>6, <1>9, <2>1, Values DEF ClientInv, HeadInv
  <1>13. ASSUME NEW d \in Clients, d # c PROVE ClientInv(d)'
    <2>1. MineIn(line', d) = MineIn(line, d) /\ \A i \in MineIn(line, d) : line'[i] = line[i]
      BY <1>0, <1>3, <1>5, <1>13 DEF MineIn
    <2>2. pc'[d] = pc[d] /\ asked'[d] = asked[d] /\ inbox'[d] = inbox[d] /\ accepted' = accepted
      BY <1>1, <1>6, <1>13
    <2>3. ClientInv(d)
      BY DEF FlowInv
    <2>4. ASSUME NEW i \in MineIn(line, d) PROVE OwedInv(d, i)'
      BY <2>1, <2>2, <2>3, <2>4 DEF ClientInv, OwedInv, Greeted
    <2> QED
      BY <2>1, <2>2, <2>3, <2>4 DEF ClientInv, HeadInv
  <1> QED
    BY <1>1, <1>7, <1>10, <1>11, <1>12, <1>13 DEF FlowInv
(* The host's answers.                                                      *)
LEMMA RowTypes ==
    ASSUME TypeInv, InspTypes
    PROVE  /\ \A s \in Slots : Row(s, gen[s], val[s]) \in RowRecs
           /\ BarRow \in RowRecs
           /\ \A p \in Tabs \cup {None} : RowsOf(p) \in SUBSET RowRecs
  <1>0. Slots \subseteq Nat
    BY PoolAssumption DEF Slots
  <1>1. boot \in Nat /\ gen \in [Slots -> Words] /\ val \in [Slots -> 0..MaxEnt]
    BY DEF InspTypes, TypeInv, TypeOK
  <1>2. Words \subseteq Int /\ 0..MaxEnt \subseteq Nat
    BY PoolAssumption DEF Words, Modulus
  <1>3. ASSUME NEW s \in Slots PROVE Row(s, gen[s], val[s]) \in RowRecs
    <2>1. gen[s] \in Int /\ val[s] \in Nat /\ s \in Nat
      BY <1>0, <1>1, <1>2
    <2> QED
      BY <1>1, <2>1 DEF Row, RowRecs
  <1>4. BarRow \in RowRecs
    BY <1>1 DEF BarRow, Row, RowRecs
  <1> QED
    BY <1>3, <1>4 DEF RowsOf

LEMMA HandleType ==
    ASSUME TypeInv, InspTypes, NEW q \in Requests
    PROVE  /\ arche_inspect_handle(q) \in AnswerRecs /\ arche_inspect_handle(q).of = q
           /\ arche_inspect_handle(q).rows = IF q.verb = "ROWS" THEN RowsOf(q.pool) ELSE {}
  <1>1. q.pool \in Tabs \cup {None}
    BY DEF Requests
  <1>2. (IF q.verb = "ROWS" THEN RowsOf(q.pool) ELSE {}) \in SUBSET RowRecs
    BY <1>1, RowTypes
  <1>3. (q.verb = "POKE" => poke_accepted(q)) \in BOOLEAN
    OBVIOUS
  <1> QED
    BY <1>2, <1>3 DEF arche_inspect_handle, AnswerRecs

(* The client whose requests are answered finds the answer it waits for, or *)
(* before it one to a request it gave up.                                   *)
LEMMA AnswersArrive ==
    ASSUME FlowInv, 1 \in DOMAIN line, line[1].open, accepted, line[1].reqs # <<>>,
           NEW c \in Clients, c = line[1].client, NEW ans \in Seq(AnswerRecs), ans # <<>>,
           ans[1].of = line[1].reqs[1], Len(line[1].reqs) = 1 => Len(ans) = 1
    PROVE  /\ pc[c] \in Waiting /\ inbox[c] \o ans # <<>> /\ inbox[c] \o ans \in Seq(AnswerRecs)
           /\ \/ Len(inbox[c] \o ans) = 1 /\ (inbox[c] \o ans)[1].of = asked[c]
              \/ pc[c] = "ROWS" /\ GivenUp((inbox[c] \o ans)[1].of)
  <1>1. inbox[c] \in Seq(AnswerRecs) /\ ClientInv(c)
    BY ConnTypes DEF FlowInv
  <1>2. 1 \in MineIn(line, c) /\ Greeted(1)
    BY DEF MineIn, Greeted
  <1>3. OwedInv(c, 1)
    BY <1>1, <1>2 DEF ClientInv
  <1>4. pc[c] \in Waiting
    BY <1>2, <1>3 DEF OwedInv
  <1>5. \/ inbox[c] = <<>> /\ Len(line[1].reqs) = 1 /\ line[1].reqs[1] = asked[c]
        \/ pc[c] = "ROWS" /\ inbox[c] = <<>> /\ GivenUp(line[1].reqs[1])
        \/ pc[c] = "ROWS" /\ inbox[c] # <<>> /\ GivenUp(inbox[c][1].of)
    BY <1>2, <1>3, <1>4 DEF OwedInv
  <1>6. /\ inbox[c] \o ans \in Seq(AnswerRecs)
        /\ inbox[c] = <<>> => inbox[c] \o ans = ans
        /\ inbox[c] # <<>> => inbox[c] \o ans # <<>> /\ (inbox[c] \o ans)[1] = inbox[c][1]
    BY <1>1, ConcatFacts
  <1>7. CASE inbox[c] = <<>>
    <2>1. inbox[c] \o ans = ans
      BY <1>6, <1>7
    <2> QED
      BY <1>4, <1>5, <1>7, <2>1
  <1>8. CASE inbox[c] # <<>>
    BY <1>4, <1>5, <1>6, <1>8
  <1> QED
    BY <1>7, <1>8

LEMMA PollAnswersFlow ==
    ASSUME TypeInv, FlowInv, PollAnswers
    PROVE  FlowInv' /\ misread' = misread
  <1> DEFINE reqs == line[1].reqs
             H == [i \in DOMAIN reqs |-> arche_inspect_handle(reqs[i])]
  <1>1. /\ line # <<>> /\ line[1].open /\ (accepted => reqs # <<>>)
        /\ inbox' = [inbox EXCEPT ![line[1].client] = inbox[line[1].client] \o (Greeting \o H)]
        /\ line' = [line EXCEPT ![1] = [line[1] EXCEPT !.reqs = <<>>]]
        /\ accepted' = TRUE
        /\ UNCHANGED <<boot, pc, tab, asked, view, misread>>
    BY DEF PollAnswers, Serve
  <1>2. InspTypes /\ Single /\ line \in Seq(Conns) /\ inbox \in [Clients -> Seq(AnswerRecs)]
    BY DEF FlowInv, InspTypes
  <1>3. /\ 1 \in DOMAIN line /\ DOMAIN line = 1..Len(line) /\ Len(line) \in Nat
        /\ line[1] \in Conns /\ line[1].client \in Clients /\ reqs \in Seq(Requests)
    BY <1>1, <1>2, ConnTypes, TailFacts
  <1>4. PICK c \in Clients : c = line[1].client
    BY <1>3
  <1>5. H \in Seq(AnswerRecs) /\ Len(H) = Len(reqs) /\ (reqs # <<>> => H # <<>> /\ H[1].of = reqs[1])
    <2>1. DOMAIN reqs = 1..Len(reqs) /\ Len(reqs) \in Nat /\ \A i \in DOMAIN reqs : reqs[i] \in Requests
      BY <1>3, LenProperties, ElementOfSeq
    <2>2. \A i \in DOMAIN reqs : H[i] \in AnswerRecs /\ H[i].of = reqs[i]
      BY <1>2, <2>1, HandleType
    <2>3. H \in [1..Len(reqs) -> AnswerRecs]
      BY <2>1, <2>2
    <2>4. H \in Seq(AnswerRecs) /\ Len(H) = Len(reqs)
      BY <2>1, <2>3
    <2>5. reqs # <<>> => 1 \in DOMAIN reqs
      BY <1>3, TailFacts
    <2>6. reqs # <<>> => H # <<>>
      BY <1>3, <2>1, <2>4, <2>5, EmptySeq
    <2> QED
      BY <2>2, <2>4, <2>5, <2>6
  <1>6. /\ line' \in Seq(Conns) /\ DOMAIN line' = DOMAIN line
        /\ \A i \in DOMAIN line : /\ line'[i].client = line[i].client /\ line'[i].open = line[i].open
                                  /\ i # 1 => line'[i] = line[i]
        /\ line'[1].reqs = <<>>
    <2>1. line'[1] = [line[1] EXCEPT !.reqs = <<>>]
      BY <1>1, <1>2, <1>3
    <2>2. \A i \in DOMAIN line : i # 1 => line'[i] = line[i]
      BY <1>1, <1>2, <1>3
    <2>3. line'[1] \in Conns /\ line'[1].client = line[1].client /\ line'[1].open = line[1].open /\ line'[1].reqs = <<>>
      <3>1. ASSUME NEW r \in Conns, NEW q \in Seq(Requests)
            PROVE  /\ [r EXCEPT !.reqs = q] \in Conns
                   /\ [r EXCEPT !.reqs = q].client = r.client /\ [r EXCEPT !.reqs = q].open = r.open
                   /\ [r EXCEPT !.reqs = q].reqs = q
        BY DEF Conns
      <3>2. <<>> \in Seq(Requests)
        OBVIOUS
      <3> QED
        <4>1. line[1] \in Conns
          BY <1>3
        <4>2. /\ [line[1] EXCEPT !.reqs = <<>>] \in Conns
              /\ [line[1] EXCEPT !.reqs = <<>>].client = line[1].client
              /\ [line[1] EXCEPT !.reqs = <<>>].open = line[1].open
              /\ [line[1] EXCEPT !.reqs = <<>>].reqs = <<>>
          BY <3>1, <3>2, <4>1
        <4> QED
          BY <2>1, <4>2
    <2>4. DOMAIN line' = DOMAIN line /\ line' \in Seq(Conns)
      BY <1>1, <1>2, <1>3, <2>1, <2>3
    <2> QED
      BY <2>2, <2>3, <2>4
  <1>7. OwedInv(c, 1) /\ ClientInv(c) /\ 1 \in MineIn(line, c)
    BY <1>1, <1>3, <1>4 DEF FlowInv, ClientInv, MineIn
  <1>8. /\ inbox'[c] \in Seq(AnswerRecs) /\ inbox'[c] # <<>> /\ pc[c] \in Waiting
        /\ \/ Len(inbox'[c]) = 1 /\ inbox'[c][1].of = asked[c]
           \/ pc[c] = "ROWS" /\ GivenUp(inbox'[c][1].of)
    <2>1. inbox'[c] = inbox[c] \o (Greeting \o H)
      BY <1>1, <1>2, <1>4
    <2>2. CASE accepted
      <3>1. Greeting \o H = H
        BY <1>5, <2>2, ConcatFacts DEF Greeting
      <3>2. /\ pc[c] \in Waiting /\ inbox[c] \o H # <<>> /\ inbox[c] \o H \in Seq(AnswerRecs)
            /\ \/ Len(inbox[c] \o H) = 1 /\ (inbox[c] \o H)[1].of = asked[c]
               \/ pc[c] = "ROWS" /\ GivenUp((inbox[c] \o H)[1].of)
        <4> HIDE DEF H
        <4> QED
          BY <1>1, <1>3, <1>4, <1>5, <2>2, AnswersArrive
      <3> QED
        BY <2>1, <3>1, <3>2
    <2>3. CASE ~accepted
      <3>1. inbox[c] = <<>> /\ reqs = <<>> /\ pc[c] = "hello" /\ asked[c] = Nothing
        BY <1>7, <2>3 DEF OwedInv, Greeted
      <3>2. H = <<>>
        BY <1>5, <3>1, EmptySeq
      <3>3. inbox'[c] = <<Hello>>
        <4>1. Greeting = <<Hello>>
          BY <2>3 DEF Greeting
        <4>3. Hello \in AnswerRecs
          BY Values
        <4>2. <<Hello>> \o <<>> = <<Hello>> /\ <<>> \o <<Hello>> = <<Hello>>
          BY <4>3, ConcatEmptySeq
        <4> QED
          BY <2>1, <3>1, <3>2, <4>1, <4>2
      <3> QED
        BY <3>1, <3>3, Values DEF Waiting
    <2> QED
      BY <2>2, <2>3
  <1>9. inbox' \in [Clients -> Seq(AnswerRecs)] /\ \A d \in Clients \ {c} : inbox'[d] = inbox[d]
    BY <1>1, <1>2, <1>4, <1>8
  <1>10. InspTypes'
    BY <1>1, <1>2, <1>6, <1>9 DEF InspTypes
  <1>11. Single' /\ Served'
    BY <1>2, <1>3, <1>6 DEF Single, Served
  <1>12. \A d \in Clients : MineIn(line', d) = MineIn(line, d)
    BY <1>6 DEF MineIn
  <1>13. MineIn(line, c) = {1}
    BY <1>2, <1>7 DEF Single, MineIn
  <1>14. ClientInv(c)'
    <2>1. OwedInv(c, 1)'
      BY <1>1, <1>6, <1>8 DEF OwedInv, Greeted, Waiting
    <2> QED
      BY <1>1, <1>7, <1>8, <1>12, <1>13, <2>1 DEF ClientInv, HeadInv
  <1>15. ASSUME NEW d \in Clients, d # c PROVE ClientInv(d)'
    <2>1. \A i \in MineIn(line, d) : i # 1 /\ line'[i] = line[i]
      BY <1>4, <1>6, <1>15 DEF MineIn
    <2>2. pc'[d] = pc[d] /\ asked'[d] = asked[d] /\ inbox'[d] = inbox[d]
      BY <1>1, <1>9, <1>15
    <2>3. ClientInv(d)
      BY DEF FlowInv
    <2>4. ASSUME NEW i \in MineIn(line, d) PROVE OwedInv(d, i)'
      BY <2>1, <2>2, <2>3, <2>4 DEF ClientInv, OwedInv, Greeted
    <2> QED
      BY <1>12, <2>2, <2>3, <2>4 DEF ClientInv, HeadInv
  <1> QED
    BY <1>1, <1>10, <1>11, <1>14, <1>15 DEF FlowInv
(* The answers a full buffer lets through: those of the first requests, the *)
(* last of them in part.                                                    *)
Passed(rs, k) == [i \in 1..k |-> arche_inspect_handle(SubSeq(rs, 1, k)[i])]
Clipped(rs, k) == [Passed(rs, k) EXCEPT ![k].cut = TRUE]

LEMMA ClippedFacts ==
    ASSUME TypeInv, InspTypes, NEW rs \in Seq(Requests), NEW k \in DOMAIN rs
    PROVE  /\ Clipped(rs, k) \in Seq(AnswerRecs) /\ Clipped(rs, k) # <<>>
           /\ Len(rs) = 1 => Len(Clipped(rs, k)) = 1
           /\ Clipped(rs, k)[1].of = rs[1]
           /\ \A i \in DOMAIN Clipped(rs, k) :
                 /\ i \in DOMAIN rs /\ Clipped(rs, k)[i].of = rs[i]
                 /\ Clipped(rs, k)[i].rows = arche_inspect_handle(rs[i]).rows
  <1>1. k \in Nat /\ 1 <= k /\ k <= Len(rs) /\ Len(rs) \in Nat /\ DOMAIN rs = 1..Len(rs)
        /\ \A i \in DOMAIN rs : rs[i] \in Requests
    BY LenProperties, ElementOfSeq
  <1>2. \A i \in 1..k : SubSeq(rs, 1, k)[i] = rs[i]
    BY <1>1
  <1>3. ASSUME NEW i \in 1..k
        PROVE  /\ i \in DOMAIN rs /\ Passed(rs, k)[i] \in AnswerRecs
               /\ Passed(rs, k)[i].of = rs[i]
               /\ Passed(rs, k)[i].rows = arche_inspect_handle(rs[i]).rows
    <2>1. i \in DOMAIN rs /\ rs[i] \in Requests
      BY <1>1
    <2>2. Passed(rs, k)[i] = arche_inspect_handle(rs[i])
      BY <1>2 DEF Passed
    <2> QED
      BY <2>1, <2>2, HandleType
  <1>4. ASSUME NEW a \in AnswerRecs
        PROVE  /\ [a EXCEPT !.cut = TRUE] \in AnswerRecs
               /\ [a EXCEPT !.cut = TRUE].of = a.of /\ [a EXCEPT !.cut = TRUE].rows = a.rows
    BY DEF AnswerRecs
  <1>5. Clipped(rs, k) = [i \in 1..k |-> IF i = k THEN [Passed(rs, k)[k] EXCEPT !.cut = TRUE] ELSE Passed(rs, k)[i]]
    BY <1>1 DEF Clipped, Passed
  <1>6. ASSUME NEW i \in 1..k
        PROVE  /\ Clipped(rs, k)[i] \in AnswerRecs /\ Clipped(rs, k)[i].of = rs[i]
               /\ Clipped(rs, k)[i].rows = arche_inspect_handle(rs[i]).rows
    <2>1. CASE i = k
      <3>1. Clipped(rs, k)[i] = [Passed(rs, k)[i] EXCEPT !.cut = TRUE]
        BY <1>5, <2>1
      <3>2. Passed(rs, k)[i] \in AnswerRecs
        BY <1>3
      <3>3. /\ [Passed(rs, k)[i] EXCEPT !.cut = TRUE] \in AnswerRecs
            /\ [Passed(rs, k)[i] EXCEPT !.cut = TRUE].of = Passed(rs, k)[i].of
            /\ [Passed(rs, k)[i] EXCEPT !.cut = TRUE].rows = Passed(rs, k)[i].rows
        BY <1>4, <3>2
      <3> QED
        BY <1>3, <3>1, <3>3
    <2>2. CASE i # k
      <3>1. Clipped(rs, k)[i] = Passed(rs, k)[i]
        BY <1>5, <2>2
      <3> QED
        BY <1>3, <3>1
    <2> QED
      BY <2>1, <2>2
  <1>7. DOMAIN Clipped(rs, k) = 1..k
    BY <1>5
  <1>8. Clipped(rs, k) \in [1..k -> AnswerRecs]
    BY <1>5, <1>6, <1>7
  <1>9. Clipped(rs, k) \in Seq(AnswerRecs) /\ Len(Clipped(rs, k)) = k
    BY <1>1, <1>8
  <1>10. Clipped(rs, k) # <<>>
    BY <1>1, <1>9, EmptySeq
  <1>11. Len(rs) = 1 => Len(Clipped(rs, k)) = 1
    BY <1>1, <1>9
  <1>12. Clipped(rs, k)[1].of = rs[1]
    BY <1>1, <1>6
  <1> QED
    BY <1>3, <1>6, <1>7, <1>9, <1>10, <1>11, <1>12, Zenon

(* The host drops the connection it serves: the others move up and are not  *)
(* accepted yet.                                                            *)
LEMMA DropFlow ==
    ASSUME FlowInv, line # <<>>, line' = Tail(line), accepted' = FALSE,
           UNCHANGED <<boot, pc, tab, asked, view>>,
           inbox' \in [Clients -> Seq(AnswerRecs)],
           \A d \in Clients : HeadInv(d)' /\ (inbox'[d] = inbox[d] \/ (line[1].open /\ line[1].client = d))
    PROVE  FlowInv'
  <1>1. InspTypes /\ Single /\ line \in Seq(Conns)
    BY DEF FlowInv, InspTypes
  <1>2. /\ line' \in Seq(Conns) /\ 1 \in DOMAIN line
        /\ \A i \in DOMAIN line' : i \in Nat /\ i # 0 /\ i + 1 \in DOMAIN line /\ line'[i] = line[i + 1]
    BY <1>1, TailFacts
  <1>3. InspTypes'
    BY <1>1, <1>2 DEF InspTypes
  <1>4. Single'
    <2> SUFFICES ASSUME NEW i \in DOMAIN line', NEW j \in DOMAIN line',
                        line'[i].open, line'[j].open, line'[i].client = line'[j].client
                 PROVE  i = j
      BY DEF Single
    <2>1. i + 1 = j + 1
      BY <1>1, <1>2 DEF Single
    <2> QED
      BY <1>2, <2>1
  <1>5. ASSUME NEW d \in Clients PROVE ClientInv(d)'
    <2>1. ASSUME NEW i \in MineIn(line', d) PROVE OwedInv(d, i)'
      <3>1. i \in Nat /\ i # 0 /\ i + 1 \in MineIn(line, d) /\ line'[i] = line[i + 1]
        BY <1>2, <2>1 DEF MineIn
      <3>2. ~(line[1].open /\ line[1].client = d)
        <4>1. i + 1 # 1 /\ i + 1 \in DOMAIN line /\ line[i + 1].open /\ line[i + 1].client = d
          BY <3>1 DEF MineIn
        <4> QED
          BY <1>1, <1>2, <4>1 DEF Single
      <3>3. inbox'[d] = inbox[d]
        BY <3>2
      <3>4. OwedInv(d, i + 1) /\ ~Greeted(i + 1)
        BY <3>1 DEF FlowInv, ClientInv, Greeted
      <3>5. ~Greeted(i)'
        BY DEF Greeted
      <3> QED
        BY <3>1, <3>3, <3>4, <3>5 DEF OwedInv
    <2>2. ClientInv(d)
      BY DEF FlowInv
    <2> QED
      BY <2>1, <2>2 DEF ClientInv
  <1> QED
    BY <1>3, <1>4, <1>5 DEF FlowInv, Served

LEMMA PollGoneFlow ==
    ASSUME FlowInv, PollGone
    PROVE  FlowInv' /\ misread' = misread
  <1>1. line # <<>> /\ line' = Tail(line) /\ accepted' = FALSE /\ UNCHANGED <<boot, pc, tab, asked, view, inbox, misread>>
    BY DEF PollGone, clientVars
  <1>2. inbox' \in [Clients -> Seq(AnswerRecs)] /\ \A d \in Clients : HeadInv(d)'
    BY <1>1 DEF FlowInv, InspTypes, ClientInv, HeadInv
  <1> QED
    BY <1>1, <1>2, DropFlow

LEMMA PollFullFlow ==
    ASSUME TypeInv, FlowInv, NEW k, PollFull(k)
    PROVE  FlowInv' /\ misread' = misread
  <1> DEFINE rs == line[1].reqs
  <1>1. /\ line # <<>> /\ line[1].open /\ k \in DOMAIN rs
        /\ inbox' = [inbox EXCEPT ![line[1].client] = inbox[line[1].client] \o (Greeting \o Clipped(rs, k))]
        /\ line' = Tail(line) /\ accepted' = FALSE
        /\ UNCHANGED <<boot, pc, tab, asked, view, misread>>
    BY DEF PollFull, Serve, Clipped, Passed
  <1>2. InspTypes /\ line \in Seq(Conns) /\ inbox \in [Clients -> Seq(AnswerRecs)]
    BY DEF FlowInv, InspTypes
  <1>3. 1 \in DOMAIN line /\ line[1].client \in Clients /\ rs \in Seq(Requests)
    BY <1>1, <1>2, ConnTypes, TailFacts
  <1>4. PICK c \in Clients : c = line[1].client
    BY <1>3
  <1>5. OwedInv(c, 1)
    BY <1>1, <1>3, <1>4 DEF FlowInv, ClientInv, MineIn
  <1>6. rs # <<>>
    BY <1>1
  <1>7. accepted
    BY <1>5, <1>6 DEF OwedInv, Greeted
  <1>8. /\ Clipped(rs, k) \in Seq(AnswerRecs) /\ Clipped(rs, k) # <<>>
        /\ Len(rs) = 1 => Len(Clipped(rs, k)) = 1
        /\ Clipped(rs, k)[1].of = rs[1]
    BY <1>1, <1>2, <1>3, ClippedFacts
  <1>9. Greeting \o Clipped(rs, k) = Clipped(rs, k)
    BY <1>7, <1>8, ConcatFacts DEF Greeting
  <1>10. inbox'[c] = inbox[c] \o Clipped(rs, k) /\ \A d \in Clients \ {c} : inbox'[d] = inbox[d]
    BY <1>1, <1>2, <1>4, <1>9
  <1>11. /\ pc[c] \in Waiting /\ inbox[c] \o Clipped(rs, k) \in Seq(AnswerRecs)
         /\ \/ Len(inbox[c] \o Clipped(rs, k)) = 1 /\ (inbox[c] \o Clipped(rs, k))[1].of = asked[c]
            \/ pc[c] = "ROWS" /\ GivenUp((inbox[c] \o Clipped(rs, k))[1].of)
    BY <1>1, <1>3, <1>4, <1>6, <1>7, <1>8, AnswersArrive
  <1>12. inbox' \in [Clients -> Seq(AnswerRecs)]
    BY <1>1, <1>2, <1>4, <1>9, <1>11
  <1>13. HeadInv(c)'
    BY <1>1, <1>10, <1>11 DEF HeadInv
  <1>14. ASSUME NEW d \in Clients, d # c PROVE HeadInv(d)'
    BY <1>1, <1>10, <1>14 DEF FlowInv, ClientInv, HeadInv
  <1> QED
    BY <1>1, <1>4, <1>10, <1>12, <1>13, <1>14, DropFlow
(* A restarted host knows none of the connections; the clients keep what    *)
(* they have read.                                                          *)
LEMMA RestartFlow ==
    ASSUME FlowInv, Restart
    PROVE  FlowInv' /\ misread' = misread
  <1>1. boot' = boot + 1 /\ line' = <<>> /\ accepted' = FALSE /\ UNCHANGED <<pc, tab, asked, inbox, view, misread>>
    BY DEF Restart, clientVars
  <1>2. InspTypes'
    <2>1. line' \in Seq(Conns)
      BY <1>1
    <2>2. boot' \in Nat
      BY <1>1 DEF FlowInv, InspTypes
    <2>3. accepted' \in BOOLEAN
      BY <1>1
    <2> QED
      BY <1>1, <2>1, <2>2, <2>3 DEF FlowInv, InspTypes
  <1>3. DOMAIN line' = {}
    BY <1>1
  <1>4. Single' /\ Served'
    BY <1>1, <1>3 DEF Single, Served
  <1>5. ASSUME NEW c \in Clients PROVE ClientInv(c)'
    <2>1. ClientInv(c) /\ MineIn(line', c) = {}
      BY <1>3 DEF FlowInv, MineIn
    <2> QED
      BY <1>1, <2>1 DEF ClientInv, HeadInv
  <1> QED
    BY <1>1, <1>2, <1>4, <1>5 DEF FlowInv

LEMMA FlowUnchanged ==
    ASSUME FlowInv, UNCHANGED <<boot, line, accepted, clientVars>>
    PROVE  FlowInv' /\ misread' = misread
  <1>1. UNCHANGED <<boot, line, accepted, pc, tab, asked, inbox, view, misread>>
    BY DEF clientVars
  <1>2. InspTypes' /\ Single' /\ Served'
    BY <1>1 DEF FlowInv, InspTypes, Single, Served
  <1>3. ASSUME NEW c \in Clients PROVE ClientInv(c)'
    <2>1. ClientInv(c)
      BY DEF FlowInv
    <2> QED
      BY <1>1, <2>1 DEF ClientInv, HeadInv, OwedInv, Greeted, MineIn
  <1> QED
    BY <1>1, <1>2, <1>3 DEF FlowInv

LEMMA FlowInit == InspInit => AnswersInv
  <1> SUFFICES ASSUME InspInit PROVE AnswersInv
    OBVIOUS
  <1>1. TypeInv
    BY TypeInvInit DEF InspInit
  <1>0. PICK crew \in Crews :
            boot = crew.boot /\ pc = [c \in Clients |-> IF c \in crew.who THEN "off" ELSE "done"]
    BY DEF InspInit
  <1>2. /\ boot \in Nat /\ line = <<>> /\ accepted = FALSE /\ misread = {}
        /\ pc \in [Clients -> {"off", "done"}] /\ tab = [c \in Clients |-> "Foo"]
        /\ asked = [c \in Clients |-> Nothing] /\ inbox = [c \in Clients |-> <<>>]
        /\ view = [c \in Clients |-> {}]
    BY <1>0, InspectorAssumption DEF InspInit
  <1>3. DOMAIN line = {} /\ line \in Seq(Conns)
    BY <1>2
  <1>4. inbox \in [Clients -> Seq(AnswerRecs)]
    BY <1>2
  <1>5. asked \in [Clients -> Requests]
    BY <1>2, Values
  <1>6. InspTypes
    BY <1>2, <1>3, <1>4, <1>5 DEF InspTypes, Points, Tabs
  <1>7. Single /\ Served
    BY <1>2, <1>3 DEF Single, Served
  <1>8. ASSUME NEW c \in Clients PROVE ClientInv(c)
    BY <1>2, <1>3 DEF ClientInv, HeadInv, MineIn, Waiting
  <1> QED
    BY <1>1, <1>2, <1>6, <1>7, <1>8 DEF AnswersInv, FlowInv

(* A restarted host's pool is a new one.                                    *)
LEMMA RestartInit == Restart => Init'
  BY DEF Restart, Init

LEMMA PoolTypes ==
    ASSUME TypeInv, [InspNext]_<<poolVars, inspVars>>
    PROVE  TypeInv'
  <1>1. CASE Restart
    <2>1. Init'
      BY <1>1, RestartInit
    <2>2. (Init => TypeInv)'
      BY TypeInvInit, PTL
    <2> QED
      BY <2>1, <2>2
  <1>2. CASE ~Restart
    <2>1. [Next]_poolVars
      BY <1>2 DEF InspNext, arche_inspect_poll, ensure_listen, PollAnswers, PollFull, PollGone,
         Client, inspect_connect, ReadSetup, ReadRows, ReadPoke, ReadFails, ReadTimesOut,
         Refresh, SwitchPool, Edit, NothingToEdit, Quit
    <2> QED
      BY <2>1, TypeInvStep
  <1> QED
    BY <1>1, <1>2

LEMMA ClientFlow ==
    ASSUME FlowInv, NEW c \in Clients, Client(c)
    PROVE  FlowInv' /\ misread' = misread
  <1>1. CASE inspect_connect(c)
    BY <1>1, ConnectFlow
  <1>2. CASE ReadSetup(c)
    BY <1>2, ReadSetupFlow
  <1>3. CASE ReadRows(c)
    BY <1>3, ReadRowsFlow
  <1>4. CASE ReadPoke(c)
    BY <1>4, ReadPokeFlow
  <1>5. CASE ReadFails(c) \/ ReadTimesOut(c)
    <2>1. pc[c] \in Waiting /\ Fails(c) /\ UNCHANGED <<boot, accepted, tab, misread>>
      BY <1>5 DEF ReadFails, ReadTimesOut
    <2> QED
      BY <2>1, FailsFlow
  <1>6. CASE Refresh(c) \/ SwitchPool(c) \/ Edit(c)
    BY <1>6, ShownActionsFlow
  <1>7. CASE NothingToEdit(c) \/ Quit(c)
    BY <1>7, CloseFlow
  <1> QED
    BY <1>1, <1>2, <1>3, <1>4, <1>5, <1>6, <1>7 DEF Client

LEMMA AnswersStep == AnswersInv /\ [InspNext]_<<poolVars, inspVars>> => AnswersInv'
  <1> SUFFICES ASSUME AnswersInv, [InspNext]_<<poolVars, inspVars>> PROVE AnswersInv'
    OBVIOUS
  <1>1. TypeInv /\ FlowInv /\ misread = {}
    BY DEF AnswersInv
  <1>2. TypeInv'
    BY <1>1, PoolTypes
  <1>3. FlowInv' /\ misread' = misread
    <2>1. CASE (Next /\ UNCHANGED inspVars) \/ UNCHANGED <<poolVars, inspVars>>
      <3>1. UNCHANGED <<boot, line, accepted, clientVars>>
        BY <2>1 DEF inspVars, clientVars
      <3> QED
        BY <1>1, <3>1, FlowUnchanged
    <2>2. CASE Restart
      BY <1>1, <2>2, RestartFlow
    <2>3. CASE ensure_listen
      <3>1. UNCHANGED <<boot, line, accepted, clientVars>>
        BY <2>3 DEF ensure_listen
      <3> QED
        BY <1>1, <3>1, FlowUnchanged
    <2>4. CASE PollAnswers
      BY <1>1, <2>4, PollAnswersFlow
    <2>5. CASE \E k \in 1..2 : PollFull(k)
      BY <1>1, <2>5, PollFullFlow
    <2>6. CASE PollGone
      BY <1>1, <2>6, PollGoneFlow
    <2>7. ASSUME NEW c \in Clients, Client(c) PROVE FlowInv' /\ misread' = misread
      BY <1>1, <2>7, ClientFlow
    <2> QED
      BY <2>1, <2>2, <2>3, <2>4, <2>5, <2>6, <2>7 DEF InspNext, arche_inspect_poll
  <1> QED
    BY <1>1, <1>2, <1>3 DEF AnswersInv

(* No client ever takes the answer of one request for that of another,      *)
(* although it may ask again before the answer to what it gave up arrives,  *)
(* whatever is cut, lost or restarted and however many clients there are.   *)
THEOREM AnswersAreMatched == InspSpec => []AnswersMatch
  <1>1. AnswersInv => AnswersMatch
    BY DEF AnswersInv, AnswersMatch
  <1> QED
    BY <1>1, FlowInit, AnswersStep, PTL DEF InspSpec
-----------------------------------------------------------------------------
(* Edits, in programs that never sort: a sort gives the rows other slots    *)
(* and generations that were in use before.  With a handler that evicts, a  *)
(* generation must not come round within the run.                           *)
Steady == MaxSorts = 0 /\ ("evict" \in Policies => 2 * MaxEnt <= GenMax)

(* What the steps of the program do to one slot: nothing but a change of    *)
(* the entity with a greater generation, or a tombstone with the next one.  *)
SlotStep(s) ==
    \/ gen'[s] = gen[s] /\ val'[s] = val[s]
    \/ gen[s] < 0 /\ gen'[s] >= 1 /\ gen'[s] >= Low(gen[s])
       /\ gen'[s] <= 2 * next'
    \/ gen'[s] > Low(gen[s]) /\ gen'[s] <= 2 * next'
    \/ gen[s] >= 0 /\ gen'[s] < 0 /\ Low(gen'[s]) = gen[s] + 1 /\ val'[s] = val[s]
    \/ s >= count /\ gen'[s] >= 0 /\ gen'[s] <= 2 * next'

SlotSteps ==
    /\ count' >= count /\ count' \in Nat
    /\ next' >= next /\ next' \in Nat
    /\ gen' \in [Slots -> Words]
    /\ \A s \in Slots : SlotStep(s)

LEMMA PoolNats ==
    ASSUME TypeInv
    PROVE  /\ next \in Nat /\ count \in Nat /\ GenMax \in Nat /\ Slots \subseteq Nat
           /\ gen \in [Slots -> Words] /\ val \in [Slots -> 0..MaxEnt]
           /\ \A s \in Slots : gen[s] \in Words /\ gen[s] \in Int /\ Low(gen[s]) \in 0..GenMax
  <1>1. next \in InitLen..MaxEnt /\ count \in 0..Cap /\ gen \in [Slots -> Words] /\ val \in [Slots -> 0..MaxEnt]
    BY DEF TypeInv, TypeOK
  <1>2. next \in Nat /\ count \in Nat /\ GenMax \in Nat /\ Slots \subseteq Nat
    BY <1>1, PoolAssumption DEF Slots
  <1>3. ASSUME NEW s \in Slots PROVE gen[s] \in Words /\ gen[s] \in Int /\ Low(gen[s]) \in 0..GenMax
    <2>1. gen[s] \in Words
      BY <1>1
    <2>2. gen[s] \in Int
      BY <2>1, PoolAssumption DEF Words, Modulus
    <2> QED
      BY <2>1, <2>2, WordFacts
  <1> QED
    BY <1>1, <1>2, <1>3

LEMMA SlotBound ==
    ASSUME TypeInv, BoundInv, NEW t \in Slots
    PROVE  Low(gen[t]) <= 2 * next + 1 /\ (gen[t] >= 0 => Low(gen[t]) = gen[t] /\ gen[t] <= 2 * next)
  <1>1. gen[t] \in Int /\ next \in Nat
    BY PoolNats
  <1> QED
    BY <1>1 DEF BoundInv, Low

LEMMA WriteSlots ==
    ASSUME TypeInv, BoundInv, NEW t \in Slots, NEW g \in 1..GenMax,
           gen' = [gen EXCEPT ![t] = g], val' = [val EXCEPT ![t] = next + 1], next' = next + 1,
           \/ (gen[t] < 0 \/ t >= count) /\ g = (IF Low(gen[t]) = 0 THEN 1 ELSE Low(gen[t]))
           \/ g = Low(gen[t]) + 1
    PROVE  gen' \in [Slots -> Words] /\ \A s \in Slots : SlotStep(s)
  <1>1. /\ next \in Nat /\ count \in Nat /\ GenMax \in Nat
        /\ gen \in [Slots -> Words] /\ val \in [Slots -> 0..MaxEnt]
        /\ gen[t] \in Int /\ Low(gen[t]) \in 0..GenMax
    BY PoolNats
  <1>2. g \in Words
    BY <1>1 DEF Words, Modulus
  <1>3. gen' \in [Slots -> Words]
    BY <1>1, <1>2
  <1>4. \A s \in Slots : s # t => gen'[s] = gen[s] /\ val'[s] = val[s]
    BY <1>1
  <1>5. gen'[t] = g
    BY <1>1
  <1>6. Low(gen[t]) <= 2 * next + 1 /\ (gen[t] >= 0 => Low(gen[t]) = gen[t] /\ gen[t] <= 2 * next)
    BY SlotBound
  <1>7. g <= 2 * next'
    BY <1>1, <1>6
  <1>8. SlotStep(t)
    BY <1>1, <1>5, <1>6, <1>7 DEF SlotStep
  <1> QED
    BY <1>3, <1>4, <1>8 DEF SlotStep

LEMMA IssuedByInsert ==
    ASSUME TypeInv, NEW s \in Slots
    PROVE  IssuedGen(s, FALSE) = IF Low(gen[s]) = 0 THEN 1 ELSE Low(gen[s])
  BY DEF IssuedGen

LEMMA IssuedByEviction ==
    ASSUME TypeInv, NEW s \in Slots, Low(gen[s]) < GenMax
    PROVE  IssuedGen(s, TRUE) = Low(gen[s]) + 1
  <1>1. gen[s] \in Words /\ gen[s] \in Int /\ Low(gen[s]) \in 0..GenMax /\ GenMax \in Nat
    BY PoolNats
  <1>2. Low(Inc(gen[s])) = Low(gen[s]) + 1
    <2>1. gen[s] # GenMax /\ gen[s] # -1
      BY <1>1 DEF Low, Modulus
    <2>2. Inc(gen[s]) = gen[s] + 1
      BY <1>1, <2>1 DEF Inc
    <2> QED
      BY <1>1, <2>1, <2>2 DEF Low, Modulus
  <1>3. IssuedGen(s, TRUE) = IF Low(Inc(gen[s])) = 0 THEN 1 ELSE Low(Inc(gen[s]))
    BY DEF IssuedGen
  <1>4. Low(gen[s]) + 1 # 0
    BY <1>1
  <1> QED
    BY <1>2, <1>3, <1>4

(* Every step of a steady program moves the slots that way.                 *)
LEMMA PoolSlots ==
    ASSUME Steady, TypeInv, BoundInv, Next
    PROVE  SlotSteps
  <1>1. /\ next \in Nat /\ count \in Nat /\ GenMax \in Nat /\ Slots \subseteq Nat
        /\ gen \in [Slots -> Words] /\ val \in [Slots -> 0..MaxEnt]
    BY PoolNats
  <1>2. ASSUME UNCHANGED <<val, gen>> PROVE gen' \in [Slots -> Words] /\ \A s \in Slots : SlotStep(s)
    BY <1>1, <1>2 DEF SlotStep
  <1>3. CASE InsertAbort \/ InsertOutOfRange \/ InsertRefused
    <2>1. UNCHANGED <<val, gen, count>> /\ next' = next + 1
      BY <1>3 DEF InsertAbort, InsertOutOfRange, InsertRefused, Offer, Overflow
    <2> QED
      BY <1>1, <1>2, <2>1 DEF SlotSteps
  <1>4. CASE InsertPopFree
    <2> DEFINE i == freeCount - 1
    <2>1. /\ HasFree /\ next' = next + 1 /\ count' = count /\ FreeListAt(i) \in Slots
          /\ WriteRow(FreeListAt(i), FALSE)
      BY <1>4 DEF InsertPopFree, Offer
    <2>2. freeCount \in 0..(Cap + 1) /\ freeCount > 1 /\ Cap \in Nat \ {0}
      BY <2>1, PoolAssumption DEF TypeInv, TypeOK, HasFree
    <2>3. i \in 1..(freeCount - 1) /\ i < Cap
      BY <2>1, <2>2 DEF FreeListAt, Slots
    <2>4. PICK t \in Slots : t = FreeListAt(i)
      BY <2>1
    <2>5. gen[t] < 0
      BY <2>2, <2>3, <2>4 DEF FreeListAt, TypeInv, FreeListInv
    <2>6. gen' = [gen EXCEPT ![t] = IssuedGen(t, FALSE)] /\ val' = [val EXCEPT ![t] = next + 1]
      BY <2>1, <2>4 DEF WriteRow
    <2>7. IssuedGen(t, FALSE) \in 1..GenMax /\ IssuedGen(t, FALSE) = IF Low(gen[t]) = 0 THEN 1 ELSE Low(gen[t])
      BY <1>1, IssuedFacts, IssuedByInsert
    <2>8. gen' \in [Slots -> Words] /\ \A s \in Slots : SlotStep(s)
      BY <2>1, <2>5, <2>6, <2>7, WriteSlots
    <2> QED
      BY <1>1, <2>1, <2>8 DEF SlotSteps
  <1>5. CASE InsertAppend
    <2>1. next' = next + 1 /\ count' = count + 1 /\ ~AtCapacity /\ WriteRow(count, FALSE)
      BY <1>5 DEF InsertAppend, Offer
    <2>2. count \in Slots
      BY <1>1, <2>1, PoolAssumption DEF AtCapacity, Slots
    <2>3. PICK t \in Slots : t = count
      BY <2>2
    <2>6. gen' = [gen EXCEPT ![t] = IssuedGen(t, FALSE)] /\ val' = [val EXCEPT ![t] = next + 1]
      BY <2>1, <2>3 DEF WriteRow
    <2>7. IssuedGen(t, FALSE) \in 1..GenMax /\ IssuedGen(t, FALSE) = IF Low(gen[t]) = 0 THEN 1 ELSE Low(gen[t])
      BY <1>1, IssuedFacts, IssuedByInsert
    <2>8. t >= count
      BY <1>1, <2>3
    <2>9. gen' \in [Slots -> Words] /\ \A s \in Slots : SlotStep(s)
      BY <2>1, <2>6, <2>7, <2>8, WriteSlots
    <2> QED
      BY <1>1, <2>1, <2>9 DEF SlotSteps
  <1>6. ASSUME NEW t \in Slots, InsertEvict(t) PROVE SlotSteps
    <2>1. next' = next + 1 /\ count' = count /\ WriteRow(t, TRUE) /\ next < MaxEnt /\ "evict" \in Policies
      BY <1>6 DEF InsertEvict, Overflow, Offer
    <2>2. Low(gen[t]) <= 2 * next + 1 /\ Low(gen[t]) \in 0..GenMax /\ 2 * MaxEnt <= GenMax /\ MaxEnt \in Nat
      BY <2>1, SlotBound, PoolNats, PoolAssumption DEF Steady
    <2>3. Low(gen[t]) < GenMax
      BY <1>1, <2>1, <2>2
    <2>6. gen' = [gen EXCEPT ![t] = IssuedGen(t, TRUE)] /\ val' = [val EXCEPT ![t] = next + 1]
      BY <2>1 DEF WriteRow
    <2>7. IssuedGen(t, TRUE) \in 1..GenMax /\ IssuedGen(t, TRUE) = Low(gen[t]) + 1
      BY <1>1, <2>3, IssuedFacts, IssuedByEviction
    <2>8. gen' \in [Slots -> Words] /\ \A s \in Slots : SlotStep(s)
      BY <2>1, <2>6, <2>7, WriteSlots
    <2> QED
      BY <1>1, <2>1, <2>8 DEF SlotSteps
  <1>7. ASSUME NEW he \in held, UseStale(he) \/ Cell(he) \/ DeleteExhausted(he) PROVE SlotSteps
    <2>1. UNCHANGED <<val, gen, count, next>>
      BY <1>7 DEF UseStale, Cell, DeleteExhausted
    <2> QED
      BY <1>1, <1>2, <2>1 DEF SlotSteps
  <1>8. ASSUME NEW he \in held, DeleteRow(he) PROVE SlotSteps
    <2>1. PICK t \in Slots : t = he[1].slot
      BY <1>8 DEF DeleteRow, Valid
    <2>2. he[1].gen \in 0..GenMax
      BY DEF TypeInv, TypeOK, Issues, Handles
    <2>3. gen[t] = he[1].gen /\ gen[t] # GenMax /\ UNCHANGED <<val, count, next>>
          /\ gen' = [gen EXCEPT ![t] = FreedGen(gen[t])]
      BY <1>8, <2>1 DEF DeleteRow, Valid
    <2>4. /\ gen[t] \in Words /\ gen[t] >= 0 /\ FreedGen(gen[t]) \in Words /\ FreedGen(gen[t]) < 0
          /\ Low(FreedGen(gen[t])) = gen[t] + 1
      BY <1>1, <2>2, <2>3, WordFacts
    <2>5. gen'[t] = FreedGen(gen[t]) /\ \A s \in Slots : s # t => gen'[s] = gen[s]
      BY <1>1, <2>3
    <2>6. gen' \in [Slots -> Words]
      BY <1>1, <2>3, <2>4
    <2>7. \A s \in Slots : SlotStep(s)
      BY <2>3, <2>4, <2>5 DEF SlotStep
    <2> QED
      BY <1>1, <2>3, <2>6, <2>7 DEF SlotSteps
  <1>9. ASSUME NEW s \in Slots, Mint(s) PROVE SlotSteps
    <2>1. UNCHANGED <<val, gen, count, next>>
      BY <1>9 DEF Mint
    <2> QED
      BY <1>1, <1>2, <2>1 DEF SlotSteps
  <1>10. ASSUME NEW desc \in BOOLEAN, Sort(desc) PROVE FALSE
    <2>1. sorts < MaxSorts /\ sorts \in 0..MaxSorts /\ MaxSorts = 0
      BY <1>10 DEF Sort, TypeInv, TypeOK, Steady
    <2> QED
      BY <2>1
  <1> QED
    BY <1>3, <1>4, <1>5, <1>6, <1>7, <1>8, <1>9, <1>10 DEF Next, Insert, Use
LEMMA WordInts ==
    ASSUME NEW w \in Words
    PROVE  w \in Int /\ Low(w) \in Nat /\ GenMax \in Nat
  <1>1. w \in Int /\ GenMax \in Nat
    BY PoolAssumption DEF Words, Modulus
  <1> QED
    BY <1>1, WordFacts

LEMMA BoundKept ==
    ASSUME TypeInv, BoundInv, SlotSteps
    PROVE  BoundInv'
  <1> SUFFICES ASSUME NEW s \in Slots
               PROVE  /\ gen'[s] >= 0 => gen'[s] <= 2 * next'
                      /\ gen'[s] < 0 => Low(gen'[s]) <= 2 * next' + 1
    BY DEF BoundInv, Low
  <1>1. next \in Nat /\ next' \in Nat /\ next' >= next /\ SlotStep(s) /\ gen'[s] \in Words
    BY PoolNats DEF SlotSteps
  <1>2. gen[s] \in Int /\ gen'[s] \in Int /\ Low(gen[s]) \in Nat /\ Low(gen'[s]) \in Nat /\ GenMax \in Nat
    BY <1>1, PoolNats, WordInts
  <1>3. /\ Low(gen[s]) <= 2 * next + 1 /\ (gen[s] >= 0 => Low(gen[s]) = gen[s] /\ gen[s] <= 2 * next)
    BY SlotBound
  <1>4. gen'[s] = gen[s] => Low(gen'[s]) = Low(gen[s])
    OBVIOUS
  <1> QED
    BY <1>1, <1>2, <1>3, <1>4 DEF SlotStep

LEMMA KnownKept ==
    ASSUME TypeInv, SlotSteps, NEW r \in RowRecs, KnownRow(r)
    PROVE  KnownRow(r)'
  <1>1. PICK s \in Slots : s = r.slot
    BY DEF KnownRow
  <1>2. PICK g \in Words : g = r.gen
    BY DEF KnownRow
  <1>3. count \in Nat /\ count' \in Nat /\ count' >= count /\ SlotStep(s) /\ gen'[s] \in Words /\ s \in Nat
    BY PoolNats DEF SlotSteps
  <1>4. /\ gen[s] \in Words /\ gen[s] \in Int /\ gen'[s] \in Int /\ g \in Int /\ GenMax \in Nat
        /\ Low(gen[s]) \in Nat /\ Low(gen'[s]) \in Nat /\ Low(g) \in Nat
    BY <1>3, PoolNats, WordInts
  <1>5. (gen[s] >= 0 => Low(gen[s]) = gen[s]) /\ (gen'[s] >= 0 => Low(gen'[s]) = gen'[s]) /\ (g >= 0 => Low(g) = g)
    BY <1>3, <1>4, WordFacts
  <1>6. /\ s < count /\ Low(g) <= Low(gen[s])
        /\ gen[s] < 0 /\ g >= 0 => g < Low(gen[s])
        /\ gen[s] = g => val[s] = r.ent
    BY <1>1, <1>2 DEF KnownRow
  <1>7. s < count'
    BY <1>3, <1>6
  <1>8. /\ Low(g) <= Low(gen'[s])
        /\ gen'[s] < 0 /\ g >= 0 => g < Low(gen'[s])
        /\ gen'[s] = g => val'[s] = r.ent
    <2>1. CASE gen'[s] = gen[s] /\ val'[s] = val[s]
      BY <1>6, <2>1
    <2>2. CASE gen[s] < 0 /\ gen'[s] >= 1 /\ gen'[s] >= Low(gen[s]) /\ gen'[s] <= 2 * next'
      BY <1>4, <1>5, <1>6, <2>2
    <2>3. CASE gen'[s] > Low(gen[s]) /\ gen'[s] <= 2 * next'
      BY <1>4, <1>5, <1>6, <2>3
    <2>4. CASE gen[s] >= 0 /\ gen'[s] < 0 /\ Low(gen'[s]) = gen[s] + 1 /\ val'[s] = val[s]
      BY <1>4, <1>5, <1>6, <2>4
    <2> QED
      BY <1>3, <1>6, <2>1, <2>2, <2>3, <2>4 DEF SlotStep
  <1> QED
    <2>1. r.slot \in Slots /\ r.slot < count' /\ r.gen \in Words
      BY <1>1, <1>2, <1>7
    <2>2. /\ Low(r.gen) <= Low(gen'[r.slot])
          /\ gen'[r.slot] < 0 /\ r.gen >= 0 => r.gen < Low(gen'[r.slot])
          /\ gen'[r.slot] = r.gen => val'[r.slot] = r.ent
      BY <1>1, <1>2, <1>8
    <2> QED
      BY <2>1, <2>2 DEF KnownRow, Low

(* Rows stay what they are in a step of the program, and of anybody else.   *)
RowsLast == \A r \in RowRecs : \A p \in Tabs \cup {None} : RowInv(r, p) => RowInv(r, p)'

LEMMA PoolRows ==
    ASSUME TypeInv, SlotSteps, boot' = boot
    PROVE  RowsLast
  <1> SUFFICES ASSUME NEW r \in RowRecs, NEW p \in Tabs \cup {None}, RowInv(r, p)
               PROVE  RowInv(r, p)'
    BY DEF RowsLast
  <1>1. BarRow' = BarRow /\ r.boot = boot'
    BY DEF BarRow, Row, RowInv
  <1>2. CASE p = "Bar"
    BY <1>1, <1>2 DEF RowInv
  <1>3. CASE p # "Bar"
    <2>1. KnownRow(r)'
      BY <1>3, KnownKept DEF RowInv
    <2> QED
      BY <1>1, <1>3, <2>1 DEF RowInv
  <1> QED
    BY <1>2, <1>3

LEMMA QuietRows ==
    ASSUME UNCHANGED <<boot, poolVars>>
    PROVE  RowsLast /\ (BoundInv => BoundInv')
  <1>1. UNCHANGED <<boot, count, gen, val, next>>
    BY DEF poolVars
  <1>2. BoundInv => BoundInv'
    BY <1>1 DEF BoundInv, Low
  <1>3. ASSUME NEW r \in RowRecs, NEW p \in Tabs \cup {None}, RowInv(r, p)
        PROVE  RowInv(r, p)'
    BY <1>1, <1>3 DEF RowInv, KnownRow, BarRow, Row, Low
  <1> QED
    BY <1>2, <1>3 DEF RowsLast

(* What a ROWS answer carries.                                              *)
LEMMA ShownRows ==
    ASSUME TypeInv, InspTypes, NEW p, NEW r \in RowsOf(p)
    PROVE  RowInv(r, p)
  <1>1. CASE p = "Bar"
    BY <1>1 DEF RowsOf, RowInv, BarRow, Row
  <1>2. CASE p # "Bar"
    <2>1. PICK s \in Slots : s < count /\ r = Row(s, gen[s], val[s])
      BY <1>2 DEF RowsOf
    <2>2. r.slot = s /\ r.gen = gen[s] /\ r.ent = val[s] /\ r.boot = boot
      BY <2>1 DEF Row
    <2>3. gen[s] \in Words /\ gen[s] \in Int /\ Low(gen[s]) \in 0..GenMax /\ GenMax \in Nat
      BY PoolNats
    <2>4. KnownRow(r)
      BY <2>1, <2>2, <2>3 DEF KnownRow
    <2> QED
      BY <1>2, <2>2, <2>4 DEF RowInv
  <1> QED
    BY <1>1, <1>2

(* An accepted edit of a column writes its own row.                         *)
LEMMA EditHits ==
    ASSUME TypeInv, InspTypes, NEW q \in Requests, q.pool \in Tabs, RowInv(q.row, q.pool),
           poke_accepted(q), Fields[q.field].column
    PROVE  Written(q) = q.row
  <1>1. q.row \in RowRecs
    BY DEF Requests
  <1>2. CASE q.pool = "Foo"
    <2>1. q.row.slot \in Slots /\ gen[q.row.slot] = q.row.gen
      BY <1>2 DEF poke_accepted
    <2>2. q.row.boot = boot /\ val[q.row.slot] = q.row.ent
      BY <1>2, <2>1 DEF RowInv, KnownRow
    <2>3. Written(q) = [slot |-> q.row.slot, gen |-> q.row.gen, ent |-> q.row.ent, boot |-> q.row.boot]
      BY <1>2, <2>1, <2>2 DEF Written, Row
    <2> QED
      BY <1>1, <2>3 DEF RowRecs
  <1>3. CASE q.pool = "Bar"
    BY <1>3 DEF RowInv, Written
  <1> QED
    BY <1>2, <1>3 DEF Tabs

LEMMA SetFacts ==
    ASSUME NEW S, NEW s \in Seq(S)
    PROVE  /\ ToSet(s) \subseteq S /\ ToSet(<<>>) = {}
           /\ s # <<>> => s[1] \in ToSet(s)
           /\ \A e \in S : ToSet(Append(s, e)) \subseteq ToSet(s) \cup {e}
           /\ \A t \in Seq(S) : ToSet(s \o t) \subseteq ToSet(s) \cup ToSet(t)
  <1>1. ToSet(s) \subseteq S
    BY LenProperties, ElementOfSeq DEF ToSet
  <1>2. ToSet(<<>>) = {}
    BY DEF ToSet
  <1>3. s # <<>> => s[1] \in ToSet(s)
    BY TailFacts DEF ToSet
  <1>4. ASSUME NEW e \in S PROVE ToSet(Append(s, e)) \subseteq ToSet(s) \cup {e}
    <2>1. /\ DOMAIN Append(s, e) = 1..(Len(s) + 1) /\ DOMAIN s = 1..Len(s) /\ Len(s) \in Nat
          /\ \A i \in 1..Len(s) : Append(s, e)[i] = s[i]
          /\ Append(s, e)[Len(s) + 1] = e
      BY AppendProperties, LenProperties
    <2>2. ASSUME NEW i \in DOMAIN Append(s, e) PROVE Append(s, e)[i] = e \/ (i \in DOMAIN s /\ Append(s, e)[i] = s[i])
      BY <2>1
    <2> QED
      BY <2>2 DEF ToSet
  <1>5. ASSUME NEW t \in Seq(S) PROVE ToSet(s \o t) \subseteq ToSet(s) \cup ToSet(t)
    <2>1. \A j \in DOMAIN (s \o t) :
             \/ j \in DOMAIN s /\ (s \o t)[j] = s[j]
             \/ \E k \in DOMAIN t : (s \o t)[j] = t[k]
      BY ConcatFacts
    <2> QED
      BY <2>1 DEF ToSet
  <1> QED
    BY <1>1, <1>2, <1>3, <1>4, <1>5

LEMMA NoStrays ==
    ASSUME TypeInv, InspTypes, RowsInv, line # <<>>, NEW qs, ToSet(qs) \subseteq ToSet(line[1].reqs)
    PROVE  Astray(qs) = {}
  <1> SUFFICES ASSUME NEW q \in Astray(qs) PROVE FALSE
    OBVIOUS
  <1>1. q \in ToSet(line[1].reqs)
    BY DEF Astray
  <1>2. 1 \in DOMAIN line /\ line[1].reqs \in Seq(Requests)
    BY ConnTypes, TailFacts DEF InspTypes
  <1>3. q \in Requests
    BY <1>1, <1>2, SetFacts
  <1>4. q.verb = "POKE" /\ poke_accepted(q) /\ Fields[q.field].column /\ Written(q) # q.row
    BY DEF Astray, Pokes
  <1>5. EditsOk(1)
    BY <1>2 DEF RowsInv
  <1>6. q.pool \in Tabs /\ RowInv(q.row, q.pool)
    BY <1>1, <1>4, <1>5 DEF EditsOk
  <1> QED
    BY <1>3, <1>4, <1>6, EditHits

(* The edits of a connection and the rows of a client that a step leaves.   *)
LEMMA EditsKept ==
    ASSUME InspTypes, RowsLast, NEW i \in DOMAIN line, EditsOk(i), NEW k,
           ToSet(line'[k].reqs) \subseteq ToSet(line[i].reqs)
    PROVE  EditsOk(k)'
  <1> SUFFICES ASSUME NEW q \in ToSet(line'[k].reqs), q.verb = "POKE"
               PROVE  q.pool \in Tabs /\ RowInv(q.row, q.pool)'
    BY DEF EditsOk
  <1>1. q \in ToSet(line[i].reqs) /\ line[i].reqs \in Seq(Requests)
    BY ConnTypes
  <1>2. q.row \in RowRecs /\ q.pool \in Tabs \cup {None}
    <2>1. q \in Requests
      BY <1>1, SetFacts
    <2> QED
      BY <2>1 DEF Requests
  <1>3. q.pool \in Tabs /\ RowInv(q.row, q.pool)
    BY <1>1 DEF EditsOk
  <1> QED
    BY <1>2, <1>3 DEF RowsLast

LEMMA ScreenKept ==
    ASSUME InspTypes, RowsLast, NEW d \in Clients, ScreenOk(d),
           ToSet(inbox'[d]) \subseteq ToSet(inbox[d]),
           view'[d] = {} \/ (view'[d] = view[d] /\ tab'[d] = tab[d])
    PROVE  ScreenOk(d)'
  <1>1. inbox[d] \in Seq(AnswerRecs) /\ view[d] \in SUBSET RowRecs /\ tab[d] \in Tabs
    BY ConnTypes
  <1>2. ASSUME NEW p \in {tab'[d]}, NEW r \in view'[d] PROVE RowInv(r, p)'
    <2>1. r \in view[d] /\ p = tab[d] /\ r \in RowRecs /\ p \in Tabs
      BY <1>1, <1>2
    <2>2. RowInv(r, p)
      BY <2>1 DEF ScreenOk
    <2> QED
      BY <2>1, <2>2 DEF RowsLast
  <1>3. ASSUME NEW a \in ToSet(inbox'[d]), NEW r \in a.rows PROVE RowInv(r, a.of.pool)'
    <2>1. a \in ToSet(inbox[d]) /\ a \in AnswerRecs
      BY <1>1, SetFacts
    <2>2. r \in RowRecs /\ a.of.pool \in Tabs \cup {None}
      BY <2>1 DEF AnswerRecs, Requests
    <2>3. RowInv(r, a.of.pool)
      BY <2>1 DEF ScreenOk
    <2> QED
      BY <2>2, <2>3 DEF RowsLast
  <1> QED
    BY <1>2, <1>3 DEF ScreenOk

(* A client that sends, and one that closes.                                *)
LEMMA SendRows ==
    ASSUME FlowInv, RowsInv, RowsLast, NEW c \in Clients, NEW q \in Requests, Send(c, q),
           inbox'[c] = <<>>,
           \A d \in Clients \ {c} : inbox'[d] = inbox[d] /\ view'[d] = view[d] /\ tab'[d] = tab[d],
           view'[c] = {} \/ (view'[c] = view[c] /\ tab'[c] = tab[c]),
           Connected(c) /\ q.verb = "POKE" => q.pool \in Tabs /\ RowInv(q.row, q.pool),
           q.verb = "ROWS" => q.pool = tab'[c]
    PROVE  RowsInv'
  <1>1. InspTypes /\ line' = Sent(c, q) /\ asked' = [asked EXCEPT ![c] = q] /\ pc' = [pc EXCEPT ![c] = q.verb]
    BY DEF FlowInv, Send
  <1>2. asked'[c] = q /\ pc'[c] = q.verb /\ \A d \in Clients \ {c} : asked'[d] = asked[d] /\ pc'[d] = pc[d]
    BY <1>1 DEF InspTypes
  <1>3. /\ DOMAIN line' = DOMAIN line
        /\ \A i \in DOMAIN line :
              /\ line'[i].client = line[i].client /\ line'[i].open = line[i].open
              /\ i \in MineIn(line, c) => line'[i].reqs = Append(line[i].reqs, q)
              /\ i \notin MineIn(line, c) => line'[i] = line[i]
    BY <1>1, SentFacts
  <1>4. ASSUME NEW i \in DOMAIN line PROVE EditsOk(i)'
    <2>1. EditsOk(i) /\ line[i].reqs \in Seq(Requests)
      BY <1>1, ConnTypes DEF RowsInv
    <2>2. CASE i \notin MineIn(line, c)
      BY <1>1, <1>3, <2>1, <2>2, EditsKept
    <2>3. CASE i \in MineIn(line, c)
      <3> SUFFICES ASSUME NEW e \in ToSet(line'[i].reqs), e.verb = "POKE"
                   PROVE  e.pool \in Tabs /\ RowInv(e.row, e.pool)'
        BY DEF EditsOk
      <3>1. e \in ToSet(line[i].reqs) \cup {q} /\ e \in Requests
        <4>1. ToSet(line[i].reqs) \subseteq Requests
          BY <2>1, SetFacts
        <4>2. ToSet(Append(line[i].reqs, q)) \subseteq ToSet(line[i].reqs) \cup {q}
          BY <2>1, SetFacts
        <4>3. e \in ToSet(Append(line[i].reqs, q))
          BY <1>3, <2>3
        <4> QED
          BY <4>1, <4>2, <4>3
      <3>2. e.row \in RowRecs /\ e.pool \in Tabs \cup {None}
        BY <3>1 DEF Requests
      <3>3. e.pool \in Tabs /\ RowInv(e.row, e.pool)
        BY <2>1, <2>3, <3>1 DEF EditsOk, Connected
      <3> QED
        BY <3>2, <3>3 DEF RowsLast
    <2> QED
      BY <2>2, <2>3
  <1>5. ASSUME NEW d \in Clients, Connected(d)' PROVE ScreenOk(d)'
    <2>1. Connected(d)
      BY <1>3, <1>5 DEF Connected, MineIn
    <2>2. ScreenOk(d)
      BY <2>1 DEF RowsInv
    <2>3. ToSet(inbox'[d]) \subseteq ToSet(inbox[d])
      BY DEF ToSet
    <2> QED
      BY <1>1, <2>2, <2>3, ScreenKept
  <1>6. q.verb # "off"
    BY DEF Requests, Waiting
  <1> QED
    BY <1>2, <1>3, <1>4, <1>5, <1>6 DEF RowsInv
LEMMA HangRows ==
    ASSUME FlowInv, RowsInv, RowsLast, NEW c \in Clients, NEW p \in {"off", "done"},
           line' = Hung(c), pc' = [pc EXCEPT ![c] = p], asked' = [asked EXCEPT ![c] = Nothing],
           \A d \in Clients \ {c} : inbox'[d] = inbox[d] /\ view'[d] = view[d] /\ tab'[d] = tab[d],
           p = "off" => view'[c] = {}
    PROVE  RowsInv'
  <1>1. InspTypes
    BY DEF FlowInv
  <1>2. asked'[c] = Nothing /\ pc'[c] = p /\ \A d \in Clients \ {c} : asked'[d] = asked[d] /\ pc'[d] = pc[d]
    BY <1>1 DEF InspTypes
  <1>3. /\ DOMAIN line' = DOMAIN line /\ MineIn(line', c) = {}
        /\ \A i \in DOMAIN line :
              /\ line'[i].client = line[i].client /\ line'[i].reqs = line[i].reqs
              /\ i \in MineIn(line, c) => line'[i].open = FALSE
              /\ i \notin MineIn(line, c) => line'[i] = line[i]
    BY <1>1, HungFacts
  <1>4. ASSUME NEW i \in DOMAIN line PROVE EditsOk(i)'
    <2>1. EditsOk(i) /\ ToSet(line'[i].reqs) \subseteq ToSet(line[i].reqs)
      BY <1>3 DEF RowsInv
    <2> QED
      BY <1>1, <2>1, EditsKept
  <1>5. ASSUME NEW d \in Clients, Connected(d)' PROVE ScreenOk(d)'
    <2>1. d # c
      BY <1>3, <1>5 DEF Connected
    <2>2. MineIn(line', d) \subseteq MineIn(line, d)
      BY <1>3 DEF MineIn
    <2>3. ScreenOk(d)
      BY <1>5, <2>2 DEF RowsInv, Connected
    <2> QED
      BY <1>1, <2>1, <2>3, ScreenKept
  <1> QED
    BY <1>2, <1>3, <1>4, <1>5 DEF RowsInv

LEMMA QuietClient ==
    ASSUME NEW c \in Clients, Client(c)
    PROVE  UNCHANGED <<boot, poolVars, strays>> /\ RowsLast /\ (BoundInv => BoundInv')
  <1>1. UNCHANGED <<boot, poolVars, strays>>
    BY DEF Client, inspect_connect, ReadSetup, ReadRows, ReadPoke, ReadFails, ReadTimesOut,
       Refresh, SwitchPool, Edit, NothingToEdit, Quit
  <1> QED
    BY <1>1, QuietRows

LEMMA ReadingRows ==
    ASSUME FlowInv, RowsInv, RowsLast, NEW c \in Clients, ReadSetup(c) \/ ReadPoke(c)
    PROVE  RowsInv'
  <1>1. tab[c] \in Tabs
    BY ConnTypes DEF FlowInv
  <1>2. inbox[c] # <<>> /\ pc[c] # "ROWS" /\ Take(c) /\ UNCHANGED <<tab, view>>
    BY DEF ReadSetup, ReadPoke, Understood
  <1>3. inbox'[c] = <<>> /\ \A d \in Clients \ {c} : inbox'[d] = inbox[d]
    BY <1>2, TakeFacts
  <1>4. CASE \E q \in {Ask("LIST", None), Ask("SCHEMA", tab[c]), Ask("ROWS", tab[c])} : Send(c, q)
    <2>1. PICK q \in {Ask("LIST", None), Ask("SCHEMA", tab[c]), Ask("ROWS", tab[c])} : Send(c, q)
      BY <1>4
    <2>2. q \in Requests /\ q.verb # "POKE" /\ (q.verb = "ROWS" => q.pool = tab'[c])
      BY <1>1, <1>2, <2>1, Values
    <2> QED
      BY <1>2, <1>3, <2>1, <2>2, SendRows
  <1>5. CASE ReadSetup(c)
    <2>1. FollowUp(c, pc[c]) \in {Ask("LIST", None), Ask("SCHEMA", tab[c]), Ask("ROWS", tab[c])}
      BY <1>5 DEF FollowUp, ReadSetup
    <2> QED
      BY <1>4, <1>5, <2>1 DEF ReadSetup
  <1>6. CASE ReadPoke(c) /\ c \in TUI
    BY <1>4, <1>6 DEF ReadPoke
  <1>7. CASE ReadPoke(c) /\ c \notin TUI
    <2>1. line' = Hung(c) /\ pc' = [pc EXCEPT ![c] = "done"] /\ asked' = [asked EXCEPT ![c] = Nothing]
      BY <1>7 DEF ReadPoke
    <2> QED
      BY <1>2, <1>3, <2>1, HangRows
  <1> QED
    BY <1>5, <1>6, <1>7

(* The rows shown are those of the pool the client looks at.                *)
LEMMA ReadRowsRows ==
    ASSUME FlowInv, RowsInv, RowsLast, NEW c \in Clients, ReadRows(c)
    PROVE  RowsInv'
  <1>1. pc[c] = "ROWS" /\ inbox[c] # <<>> /\ Understood(c) /\ Take(c)
        /\ view' = [view EXCEPT ![c] = inbox[c][1].rows] /\ pc' = [pc EXCEPT ![c] = "shown"]
        /\ UNCHANGED <<line, tab, asked>>
    BY DEF ReadRows, Understood
  <1>2. inbox'[c] = <<>> /\ \A d \in Clients \ {c} : inbox'[d] = inbox[d]
    BY <1>1, TakeFacts
  <1>3. inbox[c][1].of = asked[c] /\ asked[c].pool = tab[c]
    BY <1>1, HeadMatches DEF RowsInv
  <1>4. InspTypes /\ inbox[c] \in Seq(AnswerRecs) /\ tab[c] \in Tabs
    BY ConnTypes DEF FlowInv
  <1>5. view'[c] = inbox[c][1].rows /\ pc'[c] = "shown"
        /\ \A d \in Clients \ {c} : view'[d] = view[d] /\ pc'[d] = pc[d]
    BY <1>1, <1>4 DEF InspTypes
  <1>6. ASSUME NEW i \in DOMAIN line PROVE EditsOk(i)'
    BY <1>1, <1>4, EditsKept DEF RowsInv
  <1>7. ASSUME NEW d \in Clients, Connected(d)' PROVE ScreenOk(d)'
    <2>1. Connected(d) /\ ScreenOk(d)
      BY <1>1, <1>7 DEF RowsInv, Connected
    <2>2. CASE d # c
      BY <1>1, <1>2, <1>4, <1>5, <2>1, <2>2, ScreenKept
    <2>3. CASE d = c
      <3>1. ToSet(inbox'[c]) = {}
        BY <1>2 DEF ToSet
      <3>2. ASSUME NEW p \in {tab'[c]}, NEW r \in view'[c] PROVE RowInv(r, p)'
        <4>1. p = tab[c] /\ r \in inbox[c][1].rows
          BY <1>1, <1>5, <3>2
        <4>2. inbox[c][1] \in ToSet(inbox[c]) /\ inbox[c][1] \in AnswerRecs
          BY <1>1, <1>4, SetFacts, TailFacts
        <4>3. r \in RowRecs
          BY <4>1, <4>2 DEF AnswerRecs
        <4>4. PICK a \in ToSet(inbox[c]) : a = inbox[c][1]
          BY <4>2
        <4>5. a.of.pool = p /\ r \in a.rows
          BY <1>3, <4>1, <4>4
        <4>6. RowInv(r, p)
          BY <2>1, <2>3, <4>5 DEF ScreenOk
        <4> QED
          BY <1>4, <4>1, <4>3, <4>6 DEF RowsLast
      <3> QED
        BY <2>3, <3>1, <3>2 DEF ScreenOk
    <2> QED
      BY <2>2, <2>3
  <1> QED
    BY <1>1, <1>5, <1>6, <1>7 DEF RowsInv

LEMMA FailsRows ==
    ASSUME FlowInv, RowsInv, RowsLast, NEW c \in Clients, pc[c] \in Waiting, Fails(c), UNCHANGED tab
    PROVE  RowsInv'
  <1>1. inbox \in [Clients -> Seq(AnswerRecs)] /\ view \in [Clients -> SUBSET RowRecs] /\ tab[c] \in Tabs
    BY DEF FlowInv, InspTypes
  <1>2. CASE c \in TUI /\ pc[c] \in {"SCHEMA", "POKE"} /\ Connected(c)
    <2>1. /\ Send(c, Ask("ROWS", tab[c])) /\ UNCHANGED view
          /\ inbox' = [inbox EXCEPT ![c] = IF inbox[c] = <<>> THEN <<>> ELSE Tail(inbox[c])]
      BY <1>2 DEF Fails
    <2>2. inbox[c] # <<>> => Tail(inbox[c]) = <<>>
      BY <1>2, HeadMatches
    <2>3. inbox'[c] = <<>> /\ \A d \in Clients \ {c} : inbox'[d] = inbox[d]
      BY <1>1, <2>1, <2>2
    <2>4. /\ Ask("ROWS", tab[c]) \in Requests /\ Ask("ROWS", tab[c]).verb = "ROWS"
          /\ Ask("ROWS", tab[c]).pool = tab[c]
      BY <1>1, Values
    <2> QED
      BY <2>1, <2>3, <2>4, SendRows
  <1>3. CASE ~(c \in TUI /\ pc[c] \in {"SCHEMA", "POKE"} /\ Connected(c))
    <2>1. Hangup(c)
      BY <1>3 DEF Fails
    <2>2. view'[c] = {} /\ \A d \in Clients \ {c} : view'[d] = view[d] /\ inbox'[d] = inbox[d]
      BY <1>1, <2>1 DEF Hangup
    <2> QED
      BY <2>1, <2>2, HangRows DEF Hangup
  <1> QED
    BY <1>2, <1>3

LEMMA ShownRowsKept ==
    ASSUME FlowInv, RowsInv, RowsLast, NEW c \in Clients, NEW q \in Requests, pc[c] = "shown",
           SendOrHangup(c, q), \A d \in Clients \ {c} : tab'[d] = tab[d],
           Connected(c) /\ q.verb = "POKE" => q.pool \in Tabs /\ RowInv(q.row, q.pool),
           q.verb = "ROWS" => q.pool = tab'[c]
    PROVE  RowsInv'
  <1>1. inbox \in [Clients -> Seq(AnswerRecs)] /\ view \in [Clients -> SUBSET RowRecs]
    BY DEF FlowInv, InspTypes
  <1>2. view' = [view EXCEPT ![c] = {}]
    BY DEF SendOrHangup, Hangup
  <1>3. view'[c] = {} /\ \A d \in Clients \ {c} : view'[d] = view[d]
    BY <1>1, <1>2
  <1>4. inbox[c] = <<>>
    BY DEF FlowInv, ClientInv, HeadInv, Waiting
  <1>5. CASE Connected(c)
    <2>1. Send(c, q) /\ inbox' = inbox
      BY <1>5 DEF SendOrHangup
    <2> QED
      BY <1>3, <1>4, <2>1, SendRows
  <1>6. CASE ~Connected(c)
    <2>1. Hangup(c)
      BY <1>6 DEF SendOrHangup
    <2>2. \A d \in Clients \ {c} : inbox'[d] = inbox[d]
      BY <1>1, <2>1 DEF Hangup
    <2> QED
      BY <1>3, <2>1, <2>2, HangRows DEF Hangup
  <1> QED
    BY <1>5, <1>6

LEMMA ShownActionsRows ==
    ASSUME FlowInv, RowsInv, RowsLast, NEW c \in Clients, Refresh(c) \/ SwitchPool(c) \/ Edit(c)
    PROVE  RowsInv'
  <1>1. tab \in [Clients -> Tabs] /\ tab[c] \in Tabs
    BY DEF FlowInv, InspTypes
  <1>2. CASE Refresh(c)
    <2>1. pc[c] = "shown" /\ SendOrHangup(c, Ask("ROWS", tab[c])) /\ UNCHANGED tab
      BY <1>2 DEF Refresh
    <2>2. /\ Ask("ROWS", tab[c]) \in Requests /\ Ask("ROWS", tab[c]).verb = "ROWS"
          /\ Ask("ROWS", tab[c]).pool = tab[c]
      BY <1>1, Values
    <2> QED
      BY <2>1, <2>2, ShownRowsKept
  <1>3. CASE SwitchPool(c)
    <2>1. pc[c] = "shown"
      BY <1>3 DEF SwitchPool
    <2>2. PICK t \in Tabs : tab' = [tab EXCEPT ![c] = t] /\ SendOrHangup(c, Ask("SCHEMA", t))
      BY <1>3 DEF SwitchPool
    <2>3. Ask("SCHEMA", t) \in Requests /\ Ask("SCHEMA", t).verb = "SCHEMA"
      BY Values
    <2>4. \A d \in Clients \ {c} : tab'[d] = tab[d]
      BY <1>1, <2>2
    <2> QED
      BY <2>1, <2>2, <2>3, <2>4, ShownRowsKept
  <1>4. CASE Edit(c)
    <2>1. pc[c] = "shown" /\ UNCHANGED tab
      BY <1>4 DEF Edit
    <2>2. PICK row \in view[c], f \in Editable(c) : SendOrHangup(c, Request("POKE", tab[c], row, f))
      BY <1>4 DEF Edit
    <2>3. PICK q \in Requests : q = Request("POKE", tab[c], row, f)
      BY PokeRequest
    <2>4. q.verb = "POKE" /\ q.row = row /\ q.pool = tab[c]
      BY <2>3, PokeRequest
    <2>5. ASSUME Connected(c) PROVE RowInv(q.row, q.pool)
      <3>1. ScreenOk(c)
        BY <2>5 DEF RowsInv
      <3>2. RowInv(row, tab[c])
        BY <3>1 DEF ScreenOk
      <3> QED
        BY <2>4, <3>2
    <2> QED
      BY <1>1, <2>1, <2>2, <2>3, <2>4, <2>5, ShownRowsKept
  <1> QED
    BY <1>2, <1>3, <1>4
LEMMA CloseRows ==
    ASSUME FlowInv, RowsInv, RowsLast, NEW c \in Clients, NothingToEdit(c) \/ Quit(c)
    PROVE  RowsInv'
  <1>1. PICK p \in {"off", "done"} :
           /\ line' = Hung(c) /\ pc' = [pc EXCEPT ![c] = p] /\ asked' = [asked EXCEPT ![c] = Nothing]
           /\ inbox' = [inbox EXCEPT ![c] = <<>>] /\ view' = [view EXCEPT ![c] = {}] /\ UNCHANGED tab
    BY DEF NothingToEdit, Hangup, Quit
  <1>2. inbox \in [Clients -> Seq(AnswerRecs)] /\ view \in [Clients -> SUBSET RowRecs]
    BY DEF FlowInv, InspTypes
  <1>3. view'[c] = {} /\ \A d \in Clients \ {c} : inbox'[d] = inbox[d] /\ view'[d] = view[d]
    BY <1>1, <1>2
  <1> QED
    BY <1>1, <1>3, HangRows

(* A client that connects has nothing on its screen.                        *)
LEMMA ConnectRows ==
    ASSUME FlowInv, RowsInv, RowsLast, NEW c \in Clients, inspect_connect(c)
    PROVE  RowsInv'
  <1>1. /\ pc[c] = "off" /\ pc' = [pc EXCEPT ![c] = "hello"]
        /\ line' = Append(line, [client |-> c, open |-> TRUE, reqs |-> <<>>])
        /\ UNCHANGED <<tab, asked, inbox, view>>
    BY DEF inspect_connect
  <1>2. InspTypes /\ view[c] = {} /\ inbox[c] = <<>>
    BY <1>1 DEF FlowInv, RowsInv, ClientInv, HeadInv, Waiting
  <1>3. DOMAIN line = 1..Len(line) /\ Len(line) \in Nat /\ line \in Seq(Conns)
    BY <1>2, ConnTypes DEF InspTypes
  <1>4. PICK n \in Nat : n = Len(line) + 1
    BY <1>3
  <1>5. [client |-> c, open |-> TRUE, reqs |-> <<>>] \in Conns
    BY DEF Conns
  <1>6. /\ DOMAIN line' = 1..n
        /\ \A i \in DOMAIN line : line'[i] = line[i]
        /\ line'[n] = [client |-> c, open |-> TRUE, reqs |-> <<>>]
    BY <1>1, <1>3, <1>4, <1>5, AppendProperties, LenProperties
  <1>7. pc'[c] = "hello" /\ \A d \in Clients \ {c} : pc'[d] = pc[d]
    BY <1>1, <1>2 DEF InspTypes
  <1>8. ASSUME NEW i \in DOMAIN line' PROVE EditsOk(i)'
    <2>1. CASE i = n
      BY <1>6, <2>1 DEF EditsOk, ToSet
    <2>2. CASE i # n
      <3>1. i \in DOMAIN line /\ line'[i] = line[i]
        BY <1>3, <1>4, <1>6, <2>2
      <3> QED
        BY <1>2, <3>1, EditsKept DEF RowsInv
    <2> QED
      BY <2>1, <2>2
  <1>9. ASSUME NEW d \in Clients, Connected(d)' PROVE ScreenOk(d)'
    <2>1. CASE d = c
      BY <1>1, <1>2, <2>1 DEF ScreenOk, ToSet
    <2>2. CASE d # c
      <3>1. MineIn(line', d) \subseteq MineIn(line, d)
        BY <1>3, <1>4, <1>6, <2>2 DEF MineIn
      <3>2. ScreenOk(d)
        BY <1>9, <3>1 DEF RowsInv, Connected
      <3> QED
        BY <1>1, <1>2, <3>2, ScreenKept
    <2> QED
      BY <2>1, <2>2
  <1> QED
    BY <1>1, <1>2, <1>7, <1>8, <1>9 DEF RowsInv

LEMMA ClientRows ==
    ASSUME FlowInv, RowsInv, NEW c \in Clients, Client(c)
    PROVE  RowsInv'
  <1>1. RowsLast
    BY QuietClient
  <1>2. CASE inspect_connect(c)
    BY <1>1, <1>2, ConnectRows
  <1>3. CASE ReadSetup(c) \/ ReadPoke(c)
    BY <1>1, <1>3, ReadingRows
  <1>4. CASE ReadRows(c)
    BY <1>1, <1>4, ReadRowsRows
  <1>5. CASE ReadFails(c) \/ ReadTimesOut(c)
    <2>1. pc[c] \in Waiting /\ Fails(c) /\ UNCHANGED tab
      BY <1>5 DEF ReadFails, ReadTimesOut
    <2> QED
      BY <1>1, <2>1, FailsRows
  <1>6. CASE Refresh(c) \/ SwitchPool(c) \/ Edit(c)
    BY <1>1, <1>6, ShownActionsRows
  <1>7. CASE NothingToEdit(c) \/ Quit(c)
    BY <1>1, <1>7, CloseRows
  <1> QED
    BY <1>2, <1>3, <1>4, <1>5, <1>6, <1>7 DEF Client

(* The host answers with rows it has.                                       *)
LEMMA PollAnswersRows ==
    ASSUME TypeInv, FlowInv, RowsInv, PollAnswers
    PROVE  RowsInv' /\ strays' = strays
  <1> DEFINE reqs == line[1].reqs
             H == [i \in DOMAIN reqs |-> arche_inspect_handle(reqs[i])]
  <1>1. /\ line # <<>> /\ line[1].open
        /\ inbox' = [inbox EXCEPT ![line[1].client] = inbox[line[1].client] \o (Greeting \o H)]
        /\ line' = [line EXCEPT ![1] = [line[1] EXCEPT !.reqs = <<>>]]
        /\ strays' = strays \cup Astray(reqs)
        /\ UNCHANGED <<poolVars, boot, pc, tab, asked, view>>
    BY DEF PollAnswers, Serve
  <1>2. InspTypes /\ line \in Seq(Conns) /\ inbox \in [Clients -> Seq(AnswerRecs)] /\ RowsLast
    BY <1>1, QuietRows DEF FlowInv, InspTypes
  <1>3. 1 \in DOMAIN line /\ line[1] \in Conns /\ line[1].client \in Clients /\ reqs \in Seq(Requests)
    BY <1>1, <1>2, ConnTypes, TailFacts
  <1>4. PICK c \in Clients : c = line[1].client
    BY <1>3
  <1>5. strays' = strays
    BY <1>1, <1>2, NoStrays
  <1>6. /\ DOMAIN line' = DOMAIN line /\ line'[1] = [line[1] EXCEPT !.reqs = <<>>]
        /\ \A i \in DOMAIN line : i # 1 => line'[i] = line[i]
    BY <1>1, <1>2, <1>3
  <1>7. line'[1].client = line[1].client /\ line'[1].open = line[1].open /\ line'[1].reqs = <<>>
    BY <1>3, <1>6 DEF Conns
  <1>8. ASSUME NEW i \in DOMAIN line' PROVE EditsOk(i)'
    <2>1. CASE i = 1
      BY <1>7, <2>1 DEF EditsOk, ToSet
    <2>2. CASE i # 1
      BY <1>2, <1>6, <2>2, EditsKept DEF RowsInv
    <2> QED
      BY <2>1, <2>2
  <1>9. H \in Seq(AnswerRecs) /\ \A a \in ToSet(H) : \A r \in a.rows : RowInv(r, a.of.pool)
    <2>1. DOMAIN reqs = 1..Len(reqs) /\ Len(reqs) \in Nat /\ \A i \in DOMAIN reqs : reqs[i] \in Requests
      BY <1>3, LenProperties, ElementOfSeq
    <2>2. ASSUME NEW i \in DOMAIN reqs
          PROVE  H[i] \in AnswerRecs /\ \A r \in H[i].rows : RowInv(r, H[i].of.pool)
      <3>1. /\ H[i] \in AnswerRecs /\ H[i].of = reqs[i]
            /\ H[i].rows = IF reqs[i].verb = "ROWS" THEN RowsOf(reqs[i].pool) ELSE {}
        BY <1>2, <2>1, <2>2, HandleType
      <3>2. ASSUME NEW r \in H[i].rows PROVE RowInv(r, H[i].of.pool)
        <4>1. r \in RowsOf(reqs[i].pool)
          BY <3>1, <3>2
        <4>2. RowInv(r, reqs[i].pool)
          BY <1>2, <4>1, ShownRows
        <4> QED
          BY <3>1, <4>2
      <3> QED
        BY <3>1, <3>2
    <2>3. H \in [1..Len(reqs) -> AnswerRecs] /\ DOMAIN H = DOMAIN reqs
      BY <2>1, <2>2
    <2>4. H \in Seq(AnswerRecs)
      BY <2>1, <2>3
    <2> HIDE DEF H
    <2> QED
      BY <2>2, <2>3, <2>4 DEF ToSet
  <1>10. /\ Greeting \in Seq(AnswerRecs)
         /\ \A a \in ToSet(Greeting) : a.rows = {}
    <2>1. CASE accepted
      BY <2>1 DEF Greeting, ToSet
    <2>2. CASE ~accepted
      <3>1. Greeting = <<Hello>> /\ Hello \in AnswerRecs /\ Hello.rows = {}
        BY <2>2, Values DEF Greeting
      <3> QED
        BY <3>1 DEF ToSet
    <2> QED
      BY <2>1, <2>2
  <1>11. ASSUME NEW d \in Clients, Connected(d)' PROVE ScreenOk(d)'
    <2>1. Connected(d) /\ ScreenOk(d)
      <3>1. \A i \in DOMAIN line : line'[i].client = line[i].client /\ line'[i].open = line[i].open
        BY <1>6, <1>7
      <3>2. MineIn(line', d) = MineIn(line, d)
        BY <1>6, <3>1 DEF MineIn
      <3> QED
        BY <1>11, <3>2 DEF Connected, RowsInv
    <2>2. CASE d # c
      <3>1. inbox'[d] = inbox[d] /\ view'[d] = view[d] /\ tab'[d] = tab[d]
        BY <1>1, <1>2, <1>4, <2>2
      <3> QED
        BY <1>2, <2>1, <3>1, ScreenKept
    <2>3. CASE d = c
      <3> HIDE DEF H
      <3>1. inbox'[d] = inbox[d] \o (Greeting \o H) /\ inbox[d] \in Seq(AnswerRecs)
        BY <1>1, <1>2, <1>4, <2>3
      <3>2. Greeting \o H \in Seq(AnswerRecs)
        BY <1>9, <1>10, ConcatFacts
      <3>3. ToSet(inbox'[d]) \subseteq ToSet(inbox[d]) \cup ToSet(Greeting \o H)
        <4>1. PICK G \in Seq(AnswerRecs) : G = Greeting \o H
          BY <3>2
        <4>2. ToSet(inbox[d] \o G) \subseteq ToSet(inbox[d]) \cup ToSet(G)
          BY <3>1, SetFacts
        <4> QED
          BY <3>1, <4>1, <4>2, Zenon
      <3>4. ToSet(Greeting \o H) \subseteq ToSet(Greeting) \cup ToSet(H)
        BY <1>9, <1>10, SetFacts
      <3>5. ToSet(H) \subseteq AnswerRecs /\ ToSet(inbox[d]) \subseteq AnswerRecs
        BY <1>9, <3>1, SetFacts
      <3>6. ASSUME NEW a \in ToSet(inbox'[d]), NEW r \in a.rows PROVE RowInv(r, a.of.pool)'
        <4>1. (a \in ToSet(inbox[d]) \/ a \in ToSet(H)) /\ a \in AnswerRecs
          BY <1>10, <3>3, <3>4, <3>5, <3>6
        <4>2. RowInv(r, a.of.pool)
          BY <1>9, <2>1, <3>6, <4>1 DEF ScreenOk
        <4>3. r \in RowRecs /\ a.of.pool \in Tabs \cup {None}
          BY <3>6, <4>1 DEF AnswerRecs, Requests
        <4> QED
          BY <1>2, <4>2, <4>3 DEF RowsLast
      <3>7. ASSUME NEW p \in {tab'[d]}, NEW r \in view'[d] PROVE RowInv(r, p)'
        <4>1. p = tab[d] /\ r \in view[d] /\ tab[d] \in Tabs /\ view[d] \subseteq RowRecs
          BY <1>1, <1>2, <3>7, ConnTypes
        <4>2. RowInv(r, p)
          BY <2>1, <4>1 DEF ScreenOk
        <4> QED
          BY <1>2, <4>1, <4>2 DEF RowsLast
      <3> QED
        BY <3>6, <3>7 DEF ScreenOk
    <2> QED
      BY <2>2, <2>3
  <1> QED
    BY <1>1, <1>5, <1>8, <1>11 DEF RowsInv
LEMMA DropRows ==
    ASSUME FlowInv, RowsInv, RowsLast, line # <<>>, line' = Tail(line), UNCHANGED <<pc, tab, asked, view>>,
           \A d \in Clients : inbox'[d] = inbox[d] \/ (line[1].open /\ line[1].client = d)
    PROVE  RowsInv'
  <1>1. InspTypes /\ Single /\ line \in Seq(Conns)
    BY DEF FlowInv, InspTypes
  <1>2. /\ 1 \in DOMAIN line
        /\ \A i \in DOMAIN line' : i \in Nat /\ i # 0 /\ i + 1 \in DOMAIN line /\ line'[i] = line[i + 1]
    BY <1>1, TailFacts
  <1>3. ASSUME NEW i \in DOMAIN line' PROVE EditsOk(i)'
    <2>1. PICK k \in DOMAIN line : line'[i] = line[k]
      BY <1>2
    <2> QED
      BY <1>1, <2>1, EditsKept DEF RowsInv
  <1>4. ASSUME NEW d \in Clients, Connected(d)' PROVE ScreenOk(d)'
    <2>1. PICK i \in DOMAIN line' : line'[i].open /\ line'[i].client = d
      BY <1>4 DEF Connected, MineIn
    <2>2. PICK k \in DOMAIN line : k # 1 /\ line[k].open /\ line[k].client = d
      <3>1. i + 1 \in DOMAIN line /\ i + 1 # 1 /\ line[i + 1].open /\ line[i + 1].client = d
        BY <1>2, <2>1
      <3> QED
        BY <3>1
    <2>3. ~(line[1].open /\ line[1].client = d)
      BY <1>1, <1>2, <2>2 DEF Single
    <2>4. Connected(d) /\ inbox'[d] = inbox[d]
      BY <2>2, <2>3 DEF Connected, MineIn
    <2> QED
      BY <1>1, <2>4, ScreenKept DEF RowsInv
  <1> QED
    BY <1>3, <1>4 DEF RowsInv

LEMMA PollDropsRows ==
    ASSUME TypeInv, FlowInv, RowsInv, PollGone \/ \E k \in 1..2 : PollFull(k)
    PROVE  RowsInv' /\ strays' = strays
  <1>1. line # <<>> /\ line' = Tail(line) /\ UNCHANGED <<poolVars, boot, pc, tab, asked, view>>
    BY DEF PollGone, PollFull, clientVars
  <1>2. RowsLast /\ InspTypes /\ line \in Seq(Conns) /\ inbox \in [Clients -> Seq(AnswerRecs)]
    BY <1>1, QuietRows DEF FlowInv, InspTypes
  <1>3. 1 \in DOMAIN line /\ line[1].reqs \in Seq(Requests) /\ line[1].client \in Clients
    BY <1>1, <1>2, ConnTypes, TailFacts
  <1>4. CASE PollGone
    <2>1. inbox' = inbox /\ strays' = strays \cup Astray(Unanswered)
      BY <1>4 DEF PollGone, clientVars
    <2>2. ToSet(Unanswered) \subseteq ToSet(line[1].reqs)
      <3>1. CASE accepted /\ line[1].reqs # <<>>
        <4>1. Unanswered = <<line[1].reqs[1]>> /\ line[1].reqs[1] \in ToSet(line[1].reqs)
          BY <1>3, <3>1, SetFacts DEF Unanswered
        <4> QED
          BY <4>1 DEF ToSet
      <3>2. CASE ~(accepted /\ line[1].reqs # <<>>)
        BY <3>2 DEF Unanswered, ToSet
      <3> QED
        BY <3>1, <3>2
    <2>3. Astray(Unanswered) = {}
      BY <1>1, <1>2, <2>2, NoStrays
    <2> QED
      BY <1>1, <1>2, <2>1, <2>3, DropRows
  <1>5. ASSUME NEW k, PollFull(k) PROVE RowsInv' /\ strays' = strays
    <2>1. /\ k \in DOMAIN line[1].reqs /\ line[1].open
          /\ \E ans : inbox' = [inbox EXCEPT ![line[1].client] = ans]
          /\ strays' = strays \cup Astray(SubSeq(line[1].reqs, 1, k))
      BY <1>5 DEF PollFull, Serve
    <2>2. \A d \in Clients : inbox'[d] = inbox[d] \/ (line[1].open /\ line[1].client = d)
      BY <1>2, <2>1
    <2>3. ToSet(SubSeq(line[1].reqs, 1, k)) \subseteq ToSet(line[1].reqs)
      <3>1. PICK rs \in Seq(Requests) : rs = line[1].reqs
        BY <1>3
      <3>2. k \in Nat /\ 1 <= k /\ k <= Len(rs) /\ Len(rs) \in Nat /\ DOMAIN rs = 1..Len(rs)
        BY <2>1, <3>1, LenProperties
      <3>3. DOMAIN SubSeq(rs, 1, k) = 1..k /\ \A i \in 1..k : SubSeq(rs, 1, k)[i] = rs[i]
        BY <3>2
      <3>4. \A i \in DOMAIN SubSeq(rs, 1, k) : i \in DOMAIN rs /\ SubSeq(rs, 1, k)[i] = rs[i]
        BY <3>2, <3>3
      <3>5. ToSet(SubSeq(rs, 1, k)) \subseteq ToSet(rs)
        BY <3>4 DEF ToSet
      <3> QED
        BY <3>1, <3>5
    <2>4. Astray(SubSeq(line[1].reqs, 1, k)) = {}
      BY <1>1, <1>2, <2>3, NoStrays
    <2> QED
      BY <1>1, <1>2, <2>1, <2>2, <2>4, DropRows
  <1> QED
    BY <1>4, <1>5

(* Nothing of the old host's rows is left on a connection of the new one.   *)
LEMMA RestartRows ==
    ASSUME RowsInv, Restart
    PROVE  RowsInv' /\ BoundInv' /\ strays' = strays
  <1>1. line' = <<>> /\ UNCHANGED <<pc, tab, asked, view, strays>>
    BY DEF Restart, clientVars
  <1>2. DOMAIN line' = {}
    BY <1>1
  <1>3. RowsInv'
    BY <1>1, <1>2 DEF RowsInv, Connected, MineIn
  <1>4. gen' = [s \in Slots |-> 0] /\ next' = InitLen /\ InitLen \in Nat
    BY PoolAssumption DEF Restart
  <1>5. BoundInv'
    BY <1>4 DEF BoundInv
  <1> QED
    BY <1>1, <1>3, <1>5

LEMMA RowsUnchanged ==
    ASSUME FlowInv, RowsInv, RowsLast, UNCHANGED <<line, clientVars>>
    PROVE  RowsInv'
  <1>1. UNCHANGED <<line, pc, tab, asked, inbox, view>> /\ InspTypes
    BY DEF clientVars, FlowInv
  <1>2. ASSUME NEW i \in DOMAIN line' PROVE EditsOk(i)'
    BY <1>1, EditsKept DEF RowsInv
  <1>3. ASSUME NEW d \in Clients, Connected(d)' PROVE ScreenOk(d)'
    <2>1. ScreenOk(d)
      BY <1>1, <1>3 DEF RowsInv, Connected
    <2> QED
      BY <1>1, <2>1, ScreenKept
  <1> QED
    BY <1>1, <1>2, <1>3 DEF RowsInv

LEMMA EditsInit == InspInit => EditsInv
  <1> SUFFICES ASSUME InspInit PROVE EditsInv
    OBVIOUS
  <1>1. AnswersInv
    BY FlowInit
  <1>2. /\ line = <<>> /\ view = [c \in Clients |-> {}] /\ strays = {}
        /\ \A c \in Clients : pc[c] # "ROWS"
    BY DEF InspInit
  <1>3. DOMAIN line = {}
    BY <1>2
  <1>4. RowsInv
    BY <1>2, <1>3 DEF RowsInv, Connected, MineIn
  <1>5. gen = [s \in Slots |-> 0] /\ next = InitLen /\ InitLen \in Nat
    BY PoolAssumption DEF InspInit, Init
  <1>6. BoundInv
    BY <1>5 DEF BoundInv
  <1> QED
    BY <1>1, <1>2, <1>4, <1>6 DEF EditsInv

LEMMA EditsStep ==
    ASSUME Steady
    PROVE  EditsInv /\ [InspNext]_<<poolVars, inspVars>> => EditsInv'
  <1> SUFFICES ASSUME EditsInv, [InspNext]_<<poolVars, inspVars>> PROVE EditsInv'
    OBVIOUS
  <1>1. AnswersInv /\ TypeInv /\ FlowInv /\ RowsInv /\ BoundInv /\ strays = {}
    BY DEF EditsInv, AnswersInv
  <1>2. AnswersInv'
    BY <1>1, AnswersStep
  <1>3. RowsInv' /\ BoundInv' /\ strays' = strays
    <2>1. CASE Next /\ UNCHANGED inspVars
      <3>1. UNCHANGED <<boot, line, clientVars, strays>>
        BY <2>1 DEF inspVars, clientVars
      <3>2. SlotSteps
        BY <1>1, <2>1, PoolSlots
      <3>3. RowsLast
        BY <1>1, <3>1, <3>2, PoolRows
      <3> QED
        BY <1>1, <3>1, <3>2, <3>3, BoundKept, RowsUnchanged
    <2>2. CASE UNCHANGED <<poolVars, inspVars>> \/ ensure_listen
      <3>1. UNCHANGED <<boot, poolVars, line, clientVars, strays>>
        BY <2>2 DEF inspVars, clientVars, ensure_listen
      <3>2. RowsLast /\ BoundInv'
        BY <1>1, <3>1, QuietRows
      <3> QED
        BY <1>1, <3>1, <3>2, RowsUnchanged
    <2>3. CASE Restart
      BY <1>1, <2>3, RestartRows
    <2>4. CASE PollAnswers
      <3>1. UNCHANGED <<boot, poolVars>>
        BY <2>4 DEF PollAnswers
      <3> QED
        BY <1>1, <2>4, <3>1, PollAnswersRows, QuietRows
    <2>5. CASE PollGone \/ \E k \in 1..2 : PollFull(k)
      <3>1. UNCHANGED <<boot, poolVars>>
        BY <2>5 DEF PollGone, PollFull
      <3> QED
        BY <1>1, <2>5, <3>1, PollDropsRows, QuietRows
    <2>6. ASSUME NEW c \in Clients, Client(c) PROVE RowsInv' /\ BoundInv' /\ strays' = strays
      BY <1>1, <2>6, ClientRows, QuietClient
    <2> QED
      BY <2>1, <2>2, <2>3, <2>4, <2>5, <2>6 DEF InspNext, arche_inspect_poll
  <1> QED
    BY <1>1, <1>2, <1>3 DEF EditsInv

(* An edit writes the row it was made for or nothing, in a program that     *)
(* never sorts and, if a handler evicts rows, offers at most half as many   *)
(* entities as there are generations: whatever the program deletes and      *)
(* inserts in between, however often the host restarts and the client       *)
(* switches pools, loses its answers or gives up waiting for them.          *)
THEOREM EditsHitTheirRows ==
    ASSUME Steady
    PROVE  InspSpec => []EditHitsItsRow
  <1>1. EditsInv => EditHitsItsRow
    BY DEF EditsInv, EditHitsItsRow
  <1>2. EditsInv /\ [InspNext]_<<poolVars, inspVars>> => EditsInv'
    BY EditsStep
  <1> QED
    BY <1>1, <1>2, EditsInit, PTL DEF InspSpec
=============================================================================
