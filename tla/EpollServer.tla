---------------------------- MODULE EpollServer ----------------------------
(***************************************************************************)
(* Clients that send records over TCP, and the loop with which both         *)
(* main/public_server.cpp and src/epollwifi serve any number of them in one *)
(* thread: wait for events, then go through the batch, accepting or reading *)
(* once per event.  The two differ in how much one read takes: one record,  *)
(* or up to 1024 bytes; and the second one's EPOLL_CTL_DEL after a close    *)
(* finds the descriptor gone already.  What a read got is printed as one    *)
(* record, however much it is.  A descriptor is named by its connection; a  *)
(* record is two parts, so that a segment can end inside it.                *)
(***************************************************************************)
EXTENDS Integers, Sequences, FiniteSets, SequencesExt

CONSTANTS
    Clients,      \* the connections, one per start of a client program
    Listener,     \* the listening socket
    Cut,          \* the connections whose segments may end inside a record
    Programs,     \* which of the two servers may run: "public", "wifi"
    Faults,       \* what may go wrong, see FaultNames
    MaxEvents,    \* how many events epoll_wait returns at most: 128
    MaxRecords    \* bound: records a client sends

FaultNames == {"connect",    \* the server is not reached
               "reset",      \* a connection breaks with what was under way
               "vanish",     \* a client is gone without a word
               "epoll_wait", \* epoll_wait fails, as when the program is stopped and continued
               "accept",     \* accept fails, as when no descriptor is free
               "epoll_ctl"}  \* the connection cannot be registered

ASSUME ServerAssumption ==
    /\ IsFiniteSet(Clients) /\ Listener \notin Clients
    /\ Cut \subseteq Clients
    /\ Programs \subseteq {"public", "wifi"}
    /\ Faults \subseteq FaultNames
    /\ MaxEvents \in Nat \ {0} /\ MaxRecords \in Nat

VARIABLES
    client,   \* per client: "new", "connected", "stdout" (connect failed) or "gone"
    sent,     \* per client: the records it has written
    flight,   \* per connection: the segments under way
    wire,     \* per connection: the parts in the server's socket
    over,     \* per connection: the end of the stream as the server's socket knows it
    conn,     \* per connection, at the server: "none", "backlog", "open", "closed", or
              \* "refused" if it could not be registered
    batch,    \* the events of epoll_wait that are still to be handled
    printed,  \* per connection: the parts each printed record was made of
    server    \* the program that runs, or "none" after it has exited

netVars == <<client, sent, flight, wire, over>>
vars == <<netVars, conn, batch, printed, server>>

\* The parts of the n-th record a client sends.
RecordOf(c, n) == << <<n, 1>>, <<n, 2>> >>

Stream(c, n) == FlattenSeq([i \in 1 .. n |-> RecordOf(c, i)])

Part == (1 .. MaxRecords) \X {1, 2}

TypeOK ==
    /\ client \in [Clients -> {"new", "connected", "stdout", "gone"}]
    /\ sent \in [Clients -> 0 .. MaxRecords]
    /\ flight \in [Clients -> Seq(Seq(Part))]
    /\ wire \in [Clients -> Seq(Part)]
    /\ over \in [Clients -> {"no", "fin", "rst", "rst_seen"}]
    /\ conn \in [Clients -> {"none", "backlog", "open", "closed", "refused"}]
    /\ batch \in Seq(Clients \cup {Listener})
    /\ printed \in [Clients -> Seq(Seq(Part))]
    /\ server \in Programs \cup {"none"}

Init ==
    /\ client = [c \in Clients |-> "new"]
    /\ sent = [c \in Clients |-> 0]
    /\ flight = [c \in Clients |-> <<>>]
    /\ wire = [c \in Clients |-> <<>>]
    /\ over = [c \in Clients |-> "no"]
    /\ conn = [c \in Clients |-> "none"]
    /\ batch = <<>>
    /\ printed = [c \in Clients |-> <<>>]
    /\ server \in Programs

-----------------------------------------------------------------------------
(* The clients and the network.                                             *)

\* connectToNbIotServer
Connect(c) ==
    /\ client[c] = "new"
    /\ \/ /\ server # "none"
          /\ client' = [client EXCEPT ![c] = "connected"]
          /\ conn' = [conn EXCEPT ![c] = "backlog"]
       \/ /\ server = "none" \/ "connect" \in Faults
          /\ client' = [client EXCEPT ![c] = "stdout"]
          /\ UNCHANGED conn
    /\ UNCHANGED <<sent, flight, wire, over, batch, printed, server>>

\* A record leaves in one segment, or in two.
Segmentations(c, record) ==
    {<<record>>} \cup IF c \in Cut THEN {<< <<record[1]>>, <<record[2]>> >>} ELSE {}

WriteRecord(c) ==
    /\ client[c] = "connected" /\ sent[c] < MaxRecords
    /\ sent' = [sent EXCEPT ![c] = @ + 1]
    /\ \E segments \in Segmentations(c, RecordOf(c, sent[c] + 1)) :
          flight' = [flight EXCEPT ![c] = @ \o segments]
    /\ UNCHANGED <<client, wire, over, conn, batch, printed, server>>

\* The client program ends: its connection is closed after what it has sent.
Quit(c) ==
    /\ client[c] = "connected"
    /\ client' = [client EXCEPT ![c] = "gone"]
    /\ flight' = [flight EXCEPT ![c] = Append(@, <<>>)]
    /\ UNCHANGED <<sent, wire, over, conn, batch, printed, server>>

Reset(c) ==
    /\ "reset" \in Faults
    /\ client[c] = "connected"
    /\ client' = [client EXCEPT ![c] = "gone"]
    /\ flight' = [flight EXCEPT ![c] = <<>>]
    /\ over' = [over EXCEPT ![c] = "rst"]
    /\ UNCHANGED <<sent, wire, conn, batch, printed, server>>

Vanish(c) ==
    /\ "vanish" \in Faults
    /\ client[c] = "connected"
    /\ client' = [client EXCEPT ![c] = "gone"]
    /\ UNCHANGED <<sent, flight, wire, over, conn, batch, printed, server>>

\* Segments arrive in order; the one without content is the end of the stream.
Arrive(c) ==
    /\ flight[c] # <<>>
    /\ flight' = [flight EXCEPT ![c] = Tail(@)]
    /\ wire' = [wire EXCEPT ![c] = @ \o Head(flight[c])]
    /\ over' = [over EXCEPT ![c] = IF Head(flight[c]) = <<>> THEN "fin" ELSE @]
    /\ UNCHANGED <<client, sent, conn, batch, printed, server>>

ClientStep(c) == Connect(c) \/ WriteRecord(c)

Network == \E c \in Clients : \/ ClientStep(c) \/ Quit(c) \/ Reset(c) \/ Vanish(c)
                              \/ Arrive(c)

-----------------------------------------------------------------------------
(* The loop.                                                                *)

HasInput(c) == conn[c] = "open" /\ (wire[c] # <<>> \/ over[c] # "no")

InBacklog == {c \in Clients : conn[c] = "backlog"}

Ready == {c \in Clients : HasInput(c)} \cup IF InBacklog = {} THEN {} ELSE {Listener}

\* Level-triggered: whatever is ready, in any order, up to MAX_EVENTS.
EpollWait ==
    /\ server # "none" /\ batch = <<>> /\ Ready # {}
    /\ \E n \in 1 .. Cardinality(Ready) :
          /\ n = Cardinality(Ready) \/ n = MaxEvents
          /\ n <= MaxEvents
          /\ batch' \in {s \in [1 .. n -> Ready] : IsInjective(s)}
    /\ UNCHANGED <<netVars, conn, printed, server>>

\* The server exits, which closes all connections.
Exit ==
    /\ server' = "none"
    /\ conn' = [c \in Clients |-> IF conn[c] = "none" THEN "none" ELSE "closed"]

EpollWaitFails ==
    /\ "epoll_wait" \in Faults
    /\ server # "none" /\ batch = <<>>
    /\ Exit
    /\ UNCHANGED <<netVars, batch, printed>>

\* Mutant: the descriptor is served again without another epoll_wait.
EventForKept(fd) ==
    server # "none" /\ batch # <<>> /\ Head(batch) = fd /\ batch' \in {batch, Tail(batch)}

EventFor(fd) == server # "none" /\ batch # <<>> /\ Head(batch) = fd /\ batch' = Tail(batch)

\* One accept per event; the connection is closed if it cannot be registered.
Accept ==
    /\ EventFor(Listener)
    /\ \E c \in InBacklog :
          conn' = [conn EXCEPT ![c] = "open"]
    /\ UNCHANGED <<netVars, printed, server>>

AcceptUnregistered ==
    /\ "epoll_ctl" \in Faults
    /\ EventFor(Listener)
    /\ \E c \in InBacklog : conn' = [conn EXCEPT ![c] = "refused"]
    /\ UNCHANGED <<netVars, printed, server>>

AcceptFails ==
    /\ "accept" \in Faults
    /\ EventFor(Listener)
    /\ Exit
    /\ UNCHANGED <<netVars, printed>>

Received(c, n) == SubSeq(wire[c], 1, n)

\* Mutant: what a read finds beyond one record is dropped.
LeftDrops(c, n) == <<>>

Left(c, n) == SubSeq(wire[c], n + 1, Len(wire[c]))


\* Mutant: the end of a stream is printed like a record before it is closed.
ClosePrints(c) ==
    /\ conn' = [conn EXCEPT ![c] = "closed"]
    /\ printed' = [printed EXCEPT ![c] = Append(@, <<>>)]

Close(c) ==
    /\ conn' = [conn EXCEPT ![c] = "closed"]
    /\ UNCHANGED printed

\* Mutant: sizeof(Data), without the gateway's part.
RecordPartsShort == 1

\* sizeof(NB_Data)
RecordParts == 2

\* Bound: 1024 bytes, which are several records.
DataParts == 3

\* read of up to `parts` parts: what is there, then -1 once after a reset, then 0.
Read(c, parts) ==
    /\ EventFor(c)
    /\ \/ /\ wire[c] # <<>>
          /\ \E n \in {Len(wire[c]), parts} :
                /\ n <= Len(wire[c]) /\ n <= parts
                /\ printed' = [printed EXCEPT ![c] = Append(@, Received(c, n))]
                /\ wire' = [wire EXCEPT ![c] = Left(c, n)]
          /\ UNCHANGED <<over, conn>>
       \/ /\ wire[c] = <<>> /\ over[c] = "rst"
          /\ over' = [over EXCEPT ![c] = "rst_seen"]
          /\ printed' = [printed EXCEPT ![c] = Append(@, <<>>)]
          /\ UNCHANGED <<wire, conn>>
       \/ /\ wire[c] = <<>> /\ over[c] \in {"fin", "rst_seen"}
          /\ Close(c)
          /\ UNCHANGED <<wire, over>>
    /\ UNCHANGED <<client, sent, flight, server>>

EventLoop(program, parts) ==
    /\ server = program
    /\ \/ EpollWait \/ EpollWaitFails \/ Accept \/ AcceptUnregistered \/ AcceptFails
       \/ \E c \in Clients : Read(c, parts)

\* main of public_server.cpp.
PublicServer == EventLoop("public", RecordParts)

startEpollWait == EventLoop("wifi", DataParts)

Server == PublicServer \/ startEpollWait

Next == Network \/ Server

\* The server is scheduled and the network delivers what it does not drop; the
\* clients need not do anything.
Fairness ==
    /\ WF_vars(Server)
    /\ \A c \in Clients : WF_vars(Arrive(c))

Spec == Init /\ [][Next]_vars

FairSpec == Spec /\ Fairness

-----------------------------------------------------------------------------
(* Properties of both servers.                                              *)

\* No call of the single thread can block it for all other clients: when its turn
\* comes, the descriptor of every event is still open and has input, whatever was
\* accepted, read and closed earlier in the batch (public_server.cpp:87-138).
NeverBlocks ==
    server # "none" => \A i \in 1 .. Len(batch) : batch[i] \in Ready

\* What a connection has printed, holds and has under way is what its client sent,
\* nothing lost, doubled or out of order unless the connection broke
\* (public_server.cpp:116-136).
StreamKept ==
    \A c \in Clients :
        LET got == FlattenSeq(printed[c]) \o wire[c] \o FlattenSeq(flight[c])
        IN  IF over[c] \in {"rst", "rst_seen"}
            THEN IsPrefix(got, Stream(c, sent[c]))
            ELSE got = Stream(c, sent[c])

\* A record of zeros is printed for a connection that broke, once, and for no other
\* (public_server.cpp:114-131: read returns -1).
GhostsAreResets ==
    \A c \in Clients : \A i \in 1 .. Len(printed[c]) :
        printed[c][i] = <<>> => over[c] = "rst_seen" /\ i = Len(printed[c])

\* Where records are read one by one, a connection whose records arrive whole is
\* printed record by record, whatever the other connections do: a record that
\* another one delivers in two parts, its reset or its end never shifts this one's
\* (public_server.cpp:114-131).
InStep ==
    server = "public" =>
        \A c \in Clients \ Cut : \A i \in 1 .. Len(printed[c]) :
            printed[c][i] \in {<<>>, RecordOf(c, i)}

=============================================================================
