-------------------------------- MODULE Channels -------------------------------
(* One writer, one reader, and the ways they are connected: the anonymous pipe  *)
(* of pipe_t/pipe/mypipe.cc, the FIFO of pipe_t/named_pipe, and shm_t, where    *)
(* messages go through a shared segment and a FIFO says that one is there.      *)
(* Messages are numbered in the order they are written.                         *)
EXTENDS Naturals, Sequences, FiniteSets

CONSTANTS M,         \* messages the writer sends (5 in mypipe.cc, 12 in shm_client.cc)
          FifoCap,   \* messages a pipe holds
          Torn       \* what a reader may find in the segment while it is written

ChannelsAssumption == M \in Nat \ {0} /\ FifoCap \in Nat \ {0} /\ Torn \notin Nat
ASSUME ChannelsAssumption

VARIABLES via,       \* which program: "pipe", "fifo" or "shm"
          writer,    \* where the writing process is
          reader,    \* where the reading process is
          fifo,      \* what is in the pipe: message numbers, 0 for the last notice of shm
          holds,     \* which processes hold the pipe's write end
          fifoThere, \* the FIFO's name exists (at first: left by a run that was killed)
          segment,   \* the segment: "none", "made" by the server, "bare" by the client
          cell,      \* what the segment contains
          cnt,       \* the number of messages written
          notices,   \* the number of notices the shm server has read
          heard      \* what the reader has printed

chanVars == <<via, writer, reader, fifo, holds, fifoThere, segment, cell, cnt, notices, heard>>

ChanInit == /\ via \in {"pipe", "fifo", "shm"}
            /\ writer = "off" /\ reader = "off"
            /\ fifo = <<>> /\ holds = {}
            /\ fifoThere \in IF via = "pipe" THEN {FALSE} ELSE BOOLEAN
            /\ segment = "none" /\ cell = 0 /\ cnt = 0 /\ notices = 0 /\ heard = <<>>

\* A process is gone: its descriptors are closed.
Gone(p) == holds' = holds \ {p}

-------------------------------------------------------------------------------
(* mypipe.cc: a child that writes and a parent that reads *)

\* pipe and fork: both processes have both ends.
PipeFork == /\ via = "pipe" /\ reader = "off"
            /\ reader' = "close" /\ writer' = "close"
            /\ holds' = {"reader", "writer"}
            /\ UNCHANGED <<via, fifo, fifoThere, segment, cell, cnt, notices, heard>>

\* Mutant of PipeParentCloses: the parent keeps the write end.
PipeParentKeeps == /\ via = "pipe" /\ reader = "close"
                   /\ reader' = "read"
                   /\ UNCHANGED <<via, writer, fifo, holds, fifoThere, segment, cell, cnt, notices, heard>>

PipeParentCloses == /\ via = "pipe" /\ reader = "close"
                    /\ Gone("reader")
                    /\ reader' = "read"
                    /\ UNCHANGED <<via, writer, fifo, fifoThere, segment, cell, cnt, notices, heard>>

PipeChildCloses == /\ via = "pipe" /\ writer = "close"
                   /\ writer' = "write"
                   /\ UNCHANGED <<via, reader, fifo, holds, fifoThere, segment, cell, cnt, notices, heard>>

\* The child writes M messages, closes its end and sleeps before it exits.
PipeWrite == /\ via = "pipe" /\ writer = "write" /\ Len(fifo) < FifoCap
             /\ fifo' = Append(fifo, cnt + 1)
             /\ cnt' = cnt + 1
             /\ IF cnt' = M THEN Gone("writer") /\ writer' = "sleep"
                            ELSE UNCHANGED <<writer, holds>>
             /\ UNCHANGED <<via, reader, fifoThere, segment, cell, notices, heard>>

PipeExit == /\ via = "pipe" /\ writer = "sleep"
            /\ writer' = "zombie"
            /\ UNCHANGED <<via, reader, fifo, holds, fifoThere, segment, cell, cnt, notices, heard>>

\* Mutant of ReadBytes: a read returns one message and drops what it had no room for.
ReadFirst == /\ via \in {"pipe", "fifo"} /\ reader = "read"
             /\ IF fifo # <<>>
                  THEN /\ heard' = Append(heard, Head(fifo))
                       /\ fifo' = <<>>
                       /\ UNCHANGED reader
                  ELSE holds = {} /\ reader' = "cleanup" /\ UNCHANGED <<fifo, heard>>
             /\ UNCHANGED <<via, writer, holds, fifoThere, segment, cell, cnt, notices>>

\* The reader of a byte stream: a read returns what there is, several messages at
\* once perhaps; at the end of the stream the loop is over.
ReadBytes == /\ via \in {"pipe", "fifo"} /\ reader = "read"
             /\ \/ \E n \in 1 .. Len(fifo) :
                     /\ heard' = heard \o SubSeq(fifo, 1, n)
                     /\ fifo' = SubSeq(fifo, n + 1, Len(fifo))
                     /\ UNCHANGED reader
                \/ /\ fifo = <<>> /\ holds = {}
                   /\ reader' = "cleanup"
                   /\ UNCHANGED <<fifo, heard>>
             /\ UNCHANGED <<via, writer, holds, fifoThere, segment, cell, cnt, notices>>

\* waitpid
PipeWait == /\ via = "pipe" /\ reader = "cleanup" /\ writer = "zombie"
            /\ reader' = "done" /\ writer' = "done"
            /\ UNCHANGED <<via, fifo, holds, fifoThere, segment, cell, cnt, notices, heard>>

-------------------------------------------------------------------------------
(* named_pipe: server.cc creates the FIFO and reads, client.cc writes *)

\* createFifo: the server exits if the name exists.
FifoCreate == /\ via = "fifo" /\ reader = "off"
              /\ IF fifoThere THEN reader' = "failed" /\ UNCHANGED fifoThere
                              ELSE reader' = "open" /\ fifoThere' = TRUE
              /\ UNCHANGED <<via, writer, fifo, holds, segment, cell, cnt, notices, heard>>

\* open blocks on each side until the other side is there; a client that finds no
\* FIFO goes on with -1, and its first write fails an assertion.
FifoOpen == /\ via = "fifo"
            /\ \/ /\ reader = "open" /\ writer = "open"
                  /\ reader' = "read" /\ writer' = "write" /\ holds' = {"writer"}
               \/ /\ writer = "off" /\ writer' = IF fifoThere THEN "open" ELSE "failed"
                  /\ UNCHANGED <<reader, holds>>
            /\ UNCHANGED <<via, fifo, fifoThere, segment, cell, cnt, notices, heard>>

\* A line the user types is written; the client has no other way to end than to be
\* killed, which closes its end.
FifoWrite == /\ via = "fifo" /\ writer = "write" /\ Len(fifo) < FifoCap /\ cnt < M
             /\ fifo' = Append(fifo, cnt + 1)
             /\ cnt' = cnt + 1
             /\ UNCHANGED <<via, writer, reader, holds, fifoThere, segment, cell, notices, heard>>

FifoKill == /\ via = "fifo" /\ writer = "write"
            /\ Gone("writer") /\ writer' = "done"
            /\ UNCHANGED <<via, reader, fifo, fifoThere, segment, cell, cnt, notices, heard>>

\* delFifo
FifoRemove == /\ via = "fifo" /\ reader = "cleanup"
              /\ reader' = "done" /\ fifoThere' = FALSE
              /\ UNCHANGED <<via, writer, fifo, holds, segment, cell, cnt, notices, heard>>

-------------------------------------------------------------------------------
(* shm_t: shm_server.cc prints the segment at each notice of shm_client.cc *)

\* Mutant of ShmCreate: without IPC_EXCL the server takes any segment there is.
ShmCreateAny == /\ via = "shm" /\ reader = "off"
                /\ reader' = "mkfifo"
                /\ segment' = IF segment = "none" THEN "made" ELSE segment
                /\ UNCHANGED <<via, writer, fifo, holds, fifoThere, cell, cnt, notices, heard>>

\* shm_create: the server exits if a segment is there already.
ShmCreate == /\ via = "shm" /\ reader = "off"
             /\ IF segment # "none" THEN reader' = "failed" /\ UNCHANGED segment
                                    ELSE reader' = "mkfifo" /\ segment' = "made"
             /\ UNCHANGED <<via, writer, fifo, holds, fifoThere, cell, cnt, notices, heard>>

\* createFifo: the server exits if the name exists, and leaves the segment.
ShmMkfifo == /\ via = "shm" /\ reader = "mkfifo"
             /\ reader' = IF fifoThere THEN "failed" ELSE "open"
             /\ fifoThere' = TRUE
             /\ UNCHANGED <<via, writer, fifo, holds, segment, cell, cnt, notices, heard>>

\* shm_get creates a missing segment, with no permissions: the client cannot attach
\* it and exits, leaving it behind.  A client may be started at any time.
ShmGet == /\ via = "shm" /\ writer = "off"
          /\ IF segment = "made" THEN writer' = "open" /\ UNCHANGED segment
                                 ELSE writer' = "failed" /\ segment' = "bare"
          /\ UNCHANGED <<via, reader, fifo, holds, fifoThere, cell, cnt, notices, heard>>

\* A client that finds no FIFO writes its first message, and fails to tell.
ShmOpen == /\ via = "shm" /\ writer = "open"
           /\ \/ /\ reader = "open"
                 /\ reader' = "read" /\ writer' = "write" /\ holds' = {"writer"}
                 /\ UNCHANGED <<cell, cnt>>
              \/ /\ ~ fifoThere
                 /\ writer' = "failed" /\ cell' = 1 /\ cnt' = 1
                 /\ UNCHANGED <<reader, holds>>
           /\ UNCHANGED <<via, fifo, fifoThere, segment, notices, heard>>

\* snprintf: the segment is torn while the next message is written to it.
ShmTear == /\ via = "shm" /\ writer = "write"
           /\ cell' = Torn /\ writer' = "filling"
           /\ UNCHANGED <<via, reader, fifo, holds, fifoThere, segment, cnt, notices, heard>>

ShmFill == /\ via = "shm" /\ writer = "filling"
           /\ cell' = cnt + 1 /\ cnt' = cnt + 1 /\ writer' = "notify"
           /\ UNCHANGED <<via, reader, fifo, holds, fifoThere, segment, notices, heard>>

\* Mutant of ShmNotify: the notice is sent twice.
ShmNotifyTwice == /\ via = "shm" /\ writer = "notify" /\ Len(fifo) + 1 < FifoCap
                  /\ fifo' = fifo \o <<IF cnt > M THEN 0 ELSE 1, IF cnt > M THEN 0 ELSE 1>>
                  /\ IF cnt > M THEN Gone("writer") /\ writer' = "done"
                                ELSE writer' = "write" /\ UNCHANGED holds
                  /\ UNCHANGED <<via, reader, fifoThere, segment, cell, cnt, notices, heard>>

\* The notice; with the message after the last it says 0, and the client ends.
ShmNotify == /\ via = "shm" /\ writer = "notify" /\ Len(fifo) < FifoCap
             /\ fifo' = Append(fifo, IF cnt > M THEN 0 ELSE 1)
             /\ IF cnt > M THEN Gone("writer") /\ writer' = "done"
                           ELSE writer' = "write" /\ UNCHANGED holds
             /\ UNCHANGED <<via, reader, fifoThere, segment, cell, cnt, notices, heard>>

\* The client can be killed at any point.
ShmKill == /\ via = "shm" /\ writer \in {"write", "filling", "notify"}
           /\ Gone("writer") /\ writer' = "done"
           /\ UNCHANGED <<via, reader, fifo, fifoThere, segment, cell, cnt, notices, heard>>

\* The server reads a notice, or the end.
ShmReadNotice == /\ via = "shm" /\ reader = "read"
                 /\ \/ /\ fifo # <<>> /\ fifo' = Tail(fifo)
                       /\ IF Head(fifo) = 0 THEN reader' = "cleanup" /\ UNCHANGED notices
                                            ELSE reader' = "print" /\ notices' = notices + 1
                    \/ /\ fifo = <<>> /\ holds = {} /\ reader' = "cleanup"
                       /\ UNCHANGED <<fifo, notices>>
                 /\ UNCHANGED <<via, writer, holds, fifoThere, segment, cell, cnt, heard>>

\* It prints what the segment contains at that moment.
ShmPrint == /\ via = "shm" /\ reader = "print"
            /\ heard' = Append(heard, cell)
            /\ reader' = "read"
            /\ UNCHANGED <<via, writer, fifo, holds, fifoThere, segment, cell, cnt, notices>>

\* delFifo, detach, shm_delete.
ShmCleanup == /\ via = "shm" /\ reader = "cleanup"
              /\ reader' = "done" /\ fifoThere' = FALSE /\ segment' = "none"
              /\ UNCHANGED <<via, writer, fifo, holds, cell, cnt, notices, heard>>

-------------------------------------------------------------------------------
ReaderStep == \/ PipeParentCloses \/ ReadBytes \/ PipeWait \/ FifoRemove
              \/ ShmReadNotice \/ ShmPrint \/ ShmCleanup
WriterStep == \/ PipeChildCloses \/ PipeWrite \/ PipeExit
              \/ ShmTear \/ ShmFill \/ ShmNotify
Opening    == FifoOpen \/ ShmMkfifo \/ ShmOpen
Start      == PipeFork \/ FifoCreate \/ ShmCreate \/ ShmGet

ChanNext == ReaderStep \/ WriterStep \/ Opening \/ Start \/ FifoWrite \/ FifoKill \/ ShmKill

\* Running processes run on; nobody need start a program, type a line or kill one.
ChanFair == WF_chanVars(ReaderStep) /\ WF_chanVars(WriterStep) /\ WF_chanVars(Opening)

ChanSpec == ChanInit /\ [][ChanNext]_chanVars /\ ChanFair

-------------------------------------------------------------------------------
\* Every variable has its type.
ChanTypeOK ==
  /\ via \in {"pipe", "fifo", "shm"}
  /\ writer \in {"off", "close", "open", "write", "filling", "notify", "sleep", "zombie", "done", "failed"}
  /\ reader \in {"off", "close", "mkfifo", "open", "read", "print", "cleanup", "done", "failed"}
  /\ fifo \in Seq(0 .. M + 1) /\ Len(fifo) <= FifoCap
  /\ holds \subseteq {"reader", "writer"} /\ fifoThere \in BOOLEAN
  /\ segment \in {"none", "made", "bare"}
  /\ cell \in 0 .. M + 1 \cup {Torn} /\ cnt \in 0 .. M + 1 /\ notices \in 0 .. M
  /\ heard \in Seq(0 .. M + 1 \cup {Torn})

\* Nothing written to a pipe is lost, repeated or reordered on the way to the reader
\* (mypipe.cc:66-81, named_pipe/server.cc:15-26).
NothingLost == via \in {"pipe", "fifo"} => heard \o fifo = [k \in 1 .. cnt |-> k]

\* The shm server may print a message that is being overwritten, or a later one, but
\* never one older than the notice says: it is told after the message is
\* complete (shm_server.cc:25-33, shm_client.cc:24-30).
NeverAnOlderMessage ==
  \A k \in 1 .. Len(heard) : via = "shm" => heard[k] = Torn \/ heard[k] >= k

\* The server only uses a segment it made itself, which its clients can attach
\* (shm_t/common.hpp:32-40), so one that is left behind by an early client stops it.
UsesItsOwnSegment == via = "shm" /\ reader \in {"mkfifo", "open", "read", "print", "cleanup"} => segment = "made"

\* The safety of the three channels: what is read is what was written, in order, and as
\* recent as the reader was told.
ChanSafe == ChanTypeOK /\ NothingLost /\ NeverAnOlderMessage /\ UsesItsOwnSegment

\* Once both sides are connected and the writer ends, the reader ends and removes what
\* it made, whatever state the writer is killed in.
ReaderFinishes ==
  (reader \in {"read", "print", "cleanup"} /\ writer \in {"sleep", "zombie", "done"})
    ~> (reader = "done" /\ ~ fifoThere /\ segment # "made")
===============================================================================
