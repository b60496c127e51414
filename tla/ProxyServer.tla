----------------------------- MODULE ProxyServer -----------------------------
(***************************************************************************)
(* The connections of src/proxy: ProxyServer with its Connections, which   *)
(* echo, and RedisProxyServer with its RedisConnections, which answer      *)
(* every read with PONG.  The two are near copies of each other.           *)
(*                                                                         *)
(* Handlers run in the threads of one io_service.  A connection has one    *)
(* operation at a time, so its handlers exclude each other, strand or not: *)
(* a handler is one step, but for HandleAccept's two statements.  What a   *)
(* client sends is a sequence of units; a read takes some that have        *)
(* arrived.  The text to be written is a local string of HandleRead: what  *)
(* cannot be written before HandleRead returns is written from freed       *)
(* memory.                                                                 *)
(***************************************************************************)
EXTENDS Naturals, Sequences, SequencesExt

CONSTANTS Connections,  \* the Connection objects made, one client each
          BufferSize,   \* buffer_.size(), in units
          Streams(_),   \* what each client may send, one of these or a part
          MaxErrors     \* bound of the model: accepts that fail

\* The two halves of quit\n, and anything else.
Units == {"qu", "it", "x"}

\* What is asked of the constants.
ProxyAssumption ==
  /\ BufferSize \in Nat \ {0} /\ MaxErrors \in Nat
  /\ \A c \in Connections : Streams(c) \subseteq Seq(Units)

VARIABLES
  program,   \* which of the two
  phase,     \* what the process is doing
  accept,    \* where the accept is; "handled" before StartAccept
  errors,    \* accepts that have failed
  conn,      \* conn[c]: the operation c waits for, or what has come of it
  client,    \* client[c]: what c's client has done
  stream,    \* stream[c]: what it has sent
  arrived,   \* arrived[c]: units that wait to be read
  buffer,    \* buffer[c]: buffer_, as positions in stream[c]
  bytes,     \* bytes[c]: bytes_transferred of the read
  out,       \* out[c]: what c has written: positions in stream[c], or Other
  cut,       \* history: cut[c], a write of c was not made whole
  taken      \* history: taken[c], the units of c that have been read

serverVars == <<program, phase, accept, errors>>
clientVars == <<client, stream, arrived>>
readVars   == <<buffer, bytes, taken>>
writeVars  == <<out, cut>>
vars == <<serverVars, conn, clientVars, readVars, writeVars>>

\* "new"                 new_conn_, which waits for a client
\* "reading", "writing"  the operation is pending
\* "read", "failed"      a read has completed, with units or with an error
\* "wrote"               a write has completed, with an error or not
Places == {"none", "new", "connected", "reading", "read", "failed", "writing",
           "wrote", "closed"}

\* PONG, or what was in freed memory.
Other == 0

Init ==
  /\ program \in {"echo", "redis"} /\ phase = "up" /\ accept = "handled" /\ errors = 0
  /\ conn = [c \in Connections |-> "none"]
  /\ client = [c \in Connections |-> "none"]
  /\ stream = [c \in Connections |-> <<>>] /\ arrived = [c \in Connections |-> 0]
  /\ buffer = [c \in Connections |-> <<>>] /\ bytes = [c \in Connections |-> 0]
  /\ out = [c \in Connections |-> <<>>]
  /\ cut = [c \in Connections |-> FALSE] /\ taken = [c \in Connections |-> 0]

-----------------------------------------------------------------------------
(* The clients. *)

Connect(c) ==
  /\ phase = "up" /\ conn[c] = "new"
  /\ conn' = [conn EXCEPT ![c] = "connected"]
  /\ client' = [client EXCEPT ![c] = "open"]
  /\ UNCHANGED <<serverVars, stream, arrived, readVars, writeVars>>

Send(c, unit) ==
  /\ phase = "up" /\ client[c] = "open"
  /\ \E s \in Streams(c) : IsStrictPrefix(stream[c], s) /\ s[Len(stream[c]) + 1] = unit
  /\ stream' = [stream EXCEPT ![c] = Append(@, unit)]
  /\ arrived' = [arrived EXCEPT ![c] = @ + 1]
  /\ UNCHANGED <<serverVars, conn, client, readVars, writeVars>>

\* "shut": no more units come.  "reset": those that wait are gone as well.
Leave(c, how) ==
  /\ phase = "up" /\ client[c] = "open" /\ how \in {"shut", "reset"}
  /\ client' = [client EXCEPT ![c] = how]
  /\ arrived' = [arrived EXCEPT ![c] = IF how = "reset" THEN 0 ELSE @]
  /\ UNCHANGED <<serverVars, conn, stream, readVars, writeVars>>

-----------------------------------------------------------------------------
(* Accepting. *)

Unmade == {c \in Connections : conn[c] = "none"}

StartAccept ==
  /\ phase = "up" /\ accept = "handled" /\ Unmade # {}
  /\ conn' = [conn EXCEPT ![CHOOSE c \in Unmade : TRUE] = "new"]
  /\ accept' = "waiting"
  /\ UNCHANGED <<program, phase, errors, clientVars, readVars, writeVars>>

\* HandleAccept up to its StartAccept.
HandleAccept(c) ==
  /\ phase = "up" /\ conn[c] = "connected"
  /\ conn' = [conn EXCEPT ![c] = "reading"]
  /\ accept' = "handled"
  /\ UNCHANGED <<program, phase, errors, clientVars, readVars, writeVars>>

\* The bug of a server that stops accepting after an error.
AcceptErrorEnds(c) ==
  /\ phase = "up" /\ conn[c] = "new" /\ errors < MaxErrors
  /\ conn' = [conn EXCEPT ![c] = "closed"]
  /\ accept' = "ended" /\ errors' = errors + 1
  /\ UNCHANGED <<program, phase, clientVars, readVars, writeVars>>

\* HandleAccept with an error: the Connection goes with the next StartAccept.
AcceptError(c) ==
  /\ phase = "up" /\ conn[c] = "new" /\ errors < MaxErrors
  /\ conn' = [conn EXCEPT ![c] = "closed"]
  /\ accept' = "handled" /\ errors' = errors + 1
  /\ UNCHANGED <<program, phase, clientVars, readVars, writeVars>>

-----------------------------------------------------------------------------
(* Reading and writing. *)

\* async_read_some: the rest of buffer_ keeps what earlier reads left in it.
ReadSome(c) ==
  /\ phase = "up" /\ conn[c] = "reading"
  /\ IF arrived[c] > 0
       THEN \E n \in 1 .. arrived[c] :
              /\ n <= BufferSize
              /\ conn' = [conn EXCEPT ![c] = "read"]
              /\ bytes' = [bytes EXCEPT ![c] = n]
              /\ buffer' = [buffer EXCEPT ![c] = [i \in 1 .. n |-> taken[c] + i]
                                                 \o SubSeq(@, n + 1, Len(@))]
              /\ taken' = [taken EXCEPT ![c] = @ + n]
              /\ arrived' = [arrived EXCEPT ![c] = @ - n]
       ELSE /\ client[c] # "open"
            /\ conn' = [conn EXCEPT ![c] = "failed"]
            /\ UNCHANGED <<arrived, readVars>>
  /\ UNCHANGED <<serverVars, client, stream, writeVars>>

\* strncasecmp with kQuit looks at buffer_, not at what this read brought: at
\* what earlier reads left there, or at memory that was never written.
MayQuit(c) == LET sent == [i \in DOMAIN buffer[c] |-> stream[c][buffer[c][i]]]
              IN  sent[1] = "qu" /\ (Len(sent) > 1 => sent[2] = "it")
Quits(c) == MayQuit(c) /\ Len(buffer[c]) > 1

\* The bug of an answer made of the whole buffer_.
TextOfBuffer(c) == IF program = "echo" THEN buffer[c] ELSE <<Other>>

\* write_buffer: the units that were read, or PONG.
Text(c) == IF program = "echo" THEN SubSeq(buffer[c], 1, bytes[c]) ELSE <<Other>>

\* socket_.shutdown: it throws when the client has reset the connection, and
\* nothing catches that.
Shutdown(c) ==
  /\ IF client[c] = "reset" THEN phase' = "died" /\ UNCHANGED conn
       ELSE conn' = [conn EXCEPT ![c] = "closed"] /\ UNCHANGED phase
  /\ UNCHANGED <<program, accept, errors, clientVars, readVars, writeVars>>

HandleFailed(c) == phase = "up" /\ conn[c] = "failed" /\ Shutdown(c)

HandleQuit(c) == phase = "up" /\ conn[c] = "read" /\ MayQuit(c) /\ Shutdown(c)

\* HandleRead: async_write_some writes what it can at once, or nothing and
\* waits.  What is left over of a write is never written.
HandleRead(c) ==
  /\ phase = "up" /\ conn[c] = "read" /\ ~ Quits(c)
  /\ \E n \in 0 .. Len(Text(c)) :
        /\ client[c] = "reset" => n = 0
        /\ out' = [out EXCEPT ![c] = @ \o SubSeq(Text(c), 1, n)]
        /\ cut' = [cut EXCEPT ![c] = (@ \/ n < Len(Text(c)))]
        /\ conn' = [conn EXCEPT ![c] = IF n = 0 /\ client[c] # "reset"
                                         THEN "writing" ELSE "wrote"]
  /\ UNCHANGED <<serverVars, clientVars, readVars>>

\* A write that had to wait, from memory that was freed.
WriteSome(c) ==
  /\ phase = "up" /\ conn[c] = "writing"
  /\ out' = [out EXCEPT ![c] = IF client[c] = "reset" THEN @ ELSE Append(@, Other)]
  /\ conn' = [conn EXCEPT ![c] = "wrote"]
  /\ UNCHANGED <<serverVars, clientVars, readVars, cut>>

\* HandleWrite, of an error as well.
HandleWrite(c) ==
  /\ phase = "up" /\ conn[c] = "wrote"
  /\ conn' = [conn EXCEPT ![c] = "reading"]
  /\ UNCHANGED <<serverVars, clientVars, readVars, writeVars>>

-----------------------------------------------------------------------------
(* The end of the process. *)

\* HandleSignal, or SignalQuit: io_service::stop.
Stop ==
  /\ phase = "up"
  /\ phase' = "stopped"
  /\ UNCHANGED <<program, accept, errors, conn, clientVars, readVars, writeVars>>

\* main returns: from the run of RedisProxyServer's Start when it is stopped,
\* from ProxyServer's Start, which only makes threads, at once.
Exit ==
  /\ phase = "stopped" \/ (phase = "up" /\ program = "echo")
  /\ phase' = "ended"
  /\ UNCHANGED <<program, accept, errors, conn, clientVars, readVars, writeVars>>

-----------------------------------------------------------------------------
Handle(c) ==
  \/ HandleAccept(c) \/ HandleFailed(c) \/ HandleQuit(c) \/ HandleRead(c)
  \/ HandleWrite(c)
Complete(c) == ReadSome(c) \/ WriteSome(c)

Next ==
  \/ \E c \in Connections : Connect(c) \/ AcceptError(c) \/ Handle(c) \/ Complete(c)
  \/ \E c \in Connections, unit \in Units : Send(c, unit)
  \/ \E c \in Connections, how \in {"shut", "reset"} : Leave(c, how)
  \/ StartAccept \/ Stop \/ Exit

\* The threads of the io_service run its handlers; operations complete when
\* they can, a pending write too: a client reads what it is sent.
Fairness ==
  /\ \A c \in Connections : WF_vars(Handle(c)) /\ WF_vars(Complete(c))
  /\ WF_vars(StartAccept)

Spec == Init /\ [][Next]_vars
FairSpec == Spec /\ Fairness
-----------------------------------------------------------------------------
TypeOK ==
  /\ program \in {"echo", "redis"} /\ phase \in {"up", "stopped", "ended", "died"}
  /\ accept \in {"waiting", "handled"} /\ errors \in Nat
  /\ conn \in [Connections -> Places]
  /\ client \in [Connections -> {"none", "open", "shut", "reset"}]
  /\ stream \in [Connections -> Seq(Units)] /\ arrived \in [Connections -> Nat]
  /\ buffer \in [Connections -> Seq(Nat)] /\ bytes \in [Connections -> Nat]
  /\ out \in [Connections -> Seq(Nat)]
  /\ cut \in [Connections -> BOOLEAN] /\ taken \in [Connections -> Nat]

\* The places in out of the units that the client has sent.
Echoed(c) == {i \in DOMAIN out[c] : out[c][i] # Other}

\* A client gets its units back in their order and none twice; all that were
\* read, unless a write was cut or the connection has ended on them.
EchoInOrder ==
  \A c \in Connections : program = "echo" =>
    /\ \A i, j \in Echoed(c) : i < j => out[c][i] < out[c][j]
    /\ ~ cut[c] /\ conn[c] \in {"reading", "wrote", "failed"} =>
         out[c] = [i \in 1 .. taken[c] |-> i]

\* Nothing is left to do: what has arrived is read unless its connection is
\* closed, and the next client is waited for if a Connection is left.
Served ==
  \/ phase \in {"stopped", "ended"}
  \/ \E c \in Connections : client[c] = "reset"
  \/ /\ \A c \in Connections : arrived[c] = 0 \/ conn[c] = "closed"
     /\ accept = "waiting" \/ Unmade = {}

\* While the server runs, what arrives is read and the next client is waited
\* for: again and again nothing is left to do, as the Streams are finite.  The
\* server runs until it is stopped or a client resets its connection.
ClientsAreServed == []<>Served
=============================================================================
