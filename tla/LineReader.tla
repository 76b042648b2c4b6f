------------------------------ MODULE LineReader ------------------------------
(***************************************************************************)
(* base/net/tools/LineReader: the bytes of a stream, which arrive cut into *)
(* chunks anywhere, are put together into lines again.  A line that lies   *)
(* in one chunk is passed on from there, one that does not is collected in *)
(* a buffer of fixed size.                                                 *)
(*                                                                         *)
(* A byte is known by its position in the stream, and a line by that of    *)
(* the newline it ends with.                                               *)
(***************************************************************************)
EXTENDS Naturals, Sequences

CONSTANTS
  ChunkSize,   \* RXS_NET_BUFFER_CHUNK_SIZE: the buffer, and the longest chunk
  MaxBytes     \* bound: the bytes of the stream

ASSUME LineReaderAssumption == ChunkSize \in Nat \ {0} /\ MaxBytes \in Nat

VARIABLES
  newlines, \* the stream: which of its bytes are newlines
  arrived,  \* how many bytes have arrived
  parsed,   \* how many of them getline is through with
  parsing,  \* getline has not returned
  buffer,   \* m_buf up to m_pos
  cut,      \* history: the lines a connection broke in
  received  \* history: what onLine was called with, and for which line

readerVars == <<newlines, arrived, parsed, parsing, buffer, cut, received>>

\* The bytes from the one after a to b.
Bytes(a, b) == [i \in 1..(b - a) |-> a + i]

\* The first newline after a is e.
NextNewline(a, e) == e \in newlines /\ a < e /\ \A n \in newlines : n <= a \/ e <= n

-----------------------------------------------------------------------------

\* How add leaves the buffer: what does not fit is dropped, silently.
AddFaulty(data) == IF Len(data) + Len(buffer) >= ChunkSize THEN buffer ELSE buffer \o data
Add(data) == IF Len(data) + Len(buffer) > ChunkSize THEN buffer ELSE buffer \o data

\* Data for parse: at most a buffer of it, from the socket or from OpenSSL.
Arrive(size) ==
  /\ ~parsing /\ arrived + size <= MaxBytes
  /\ arrived' = arrived + size
  /\ parsing' = TRUE
  /\ UNCHANGED <<newlines, parsed, buffer, cut, received>>

\* One turn of getline's loop: memchr finds the end of a line.
EndOfLine(end) ==
  /\ parsing /\ end <= arrived /\ NextNewline(parsed, end)
  /\ LET data == Bytes(parsed, end)
         line == IF buffer # <<>> THEN Add(data) ELSE data
         text == SubSeq(line, 1, Len(line) - 1)
     IN received' = IF buffer # <<>> \/ Len(data) > 1
                    THEN Append(received, [end |-> end, text |-> text]) ELSE received
  /\ buffer' = <<>>
  /\ parsed' = end
  /\ UNCHANGED <<newlines, arrived, parsing, cut>>

\* getline is through: what follows the last newline is kept, if anything does.
Rest ==
  /\ parsing /\ \A n \in newlines : n <= parsed \/ arrived < n
  /\ buffer' = IF parsed = arrived THEN <<>> ELSE Add(Bytes(parsed, arrived))
  /\ parsing' = FALSE /\ parsed' = arrived
  /\ UNCHANGED <<newlines, arrived, cut, received>>

\* The connection breaks within a line and the client connects again:
\* Client::resolve calls LineReader::reset. The server goes on with the next line.
Reset(end) ==
  /\ ~parsing /\ arrived \notin newlines \cup {0} /\ NextNewline(arrived, end)
  /\ cut' = cut \cup {end}
  /\ arrived' = end /\ parsed' = end
  /\ buffer' = <<>>
  /\ UNCHANGED <<newlines, parsing, received>>

NoMoreData == ~parsing /\ arrived = MaxBytes /\ UNCHANGED readerVars

ReaderInit ==
  /\ newlines \in SUBSET (1..MaxBytes)
  /\ arrived = 0 /\ parsed = 0 /\ parsing = FALSE
  /\ buffer = <<>> /\ cut = {} /\ received = <<>>

ReaderNext ==
  \/ \E size \in 1..ChunkSize : Arrive(size)
  \/ \E end \in 1..MaxBytes : EndOfLine(end) \/ Reset(end)
  \/ Rest \/ NoMoreData

ReaderSpec == ReaderInit /\ [][ReaderNext]_readerVars

-----------------------------------------------------------------------------

\* A line to pass on: not empty, and no connection has broken in it.
Whole(b, e) == b \in newlines \cup {0} /\ NextNewline(b, e) /\ b + 1 < e /\ e \notin cut

\* Every line is passed on once and in its turn, empty ones and those a connection
\* broke in left out; and unchanged, as long as it fits the buffer with its newline,
\* however the stream is cut and however long the lines around it are
\* (LineReader.cpp:57-104: add drops what does not fit and "breaks correctness
\* silently for long lines").
LinesIntact ==
  /\ \A m, n \in DOMAIN received : m < n => received[m].end < received[n].end
  /\ \A b \in newlines \cup {0}, e \in newlines :
       Whole(b, e) /\ e <= parsed => \E n \in DOMAIN received : received[n].end = e
  /\ \A n \in DOMAIN received : \E b \in newlines \cup {0} :
       LET e == received[n].end
       IN  Whole(b, e) /\ (e - b <= ChunkSize => received[n].text = Bytes(b, e - 1))
==============================================================================
