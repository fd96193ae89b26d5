----------------------------- MODULE AesdSocket -----------------------------
(***************************************************************************)
(* The socket server (server/aesdsocket.c, with USE_AESD_CHAR_DEVICE): main *)
(* accepts clients and starts a worker for each; a worker, under the mutex, *)
(* receives a line, writes it to the device, reads back as many bytes as    *)
(* the server has written since it started, and sends them to its client.   *)
(* A signal makes main run a handler that closes descriptors and frees what *)
(* the workers use; a call that fails ends the process.  The device is      *)
(* AesdLog, which the driver implements; the server is its only user since  *)
(* it started.                                                              *)
(***************************************************************************)
EXTENDS Integers, SequencesExt

CONSTANTS
  Clients,
  Scenarios,   \* what clients send, what the device holds, what may go wrong
  Slots,       \* AESDCHAR_MAX_WRITE_OPERATIONS_SUPPORTED of the driver
  recv_len,    \* bytes a worker asks recv() for
  NL,          \* the newline byte
  JUNK,        \* what free() leaves in a buffer
  KeptStacks,  \* stacks of joined threads that the C library does not unmap
  NULL, NoClient, NoReply

(* A scenario has the clients that come with the bytes each sends; those of *)
(* them that never read an answer, one too long for the sockets' buffers;   *)
(* the commands the device holds from before; and its mishaps: a client     *)
(* leaves unanswered; the driver refuses a write; any other call fails;     *)
(* SIGINT or SIGTERM.                                                       *)
Mishaps == {"leave", "write", "call", "signal"}

ASSUME RecvAssumption == recv_len \in Nat \ {0}
ASSUME ScenariosAssumption ==
  \A s \in Scenarios :
    /\ DOMAIN s.message \subseteq Clients /\ s.mishaps \subseteq Mishaps
    /\ \A c \in DOMAIN s.message : s.message[c] \in Seq(Range(s.message[c]))
    /\ s.unread \subseteq DOMAIN s.message /\ Len(s.held) \in 0 .. Slots
    /\ s.held \in Seq(Seq(Range(FlattenSeq(s.held))))
ASSUME ThreadsAssumption == KeptStacks \in Nat
ASSUME DeviceAssumption == Slots \in Nat \ {0} /\ NoReply \notin Int

VARIABLES
  scenario,       \* chosen at the start
  main,           \* where main is, in its loop or in the handler
  resume,         \* where the handler goes back to; "none" before a signal
  cursor,         \* how far main is in the list
  list,           \* the workers' nodes, by client, head first
  thread_id,      \* in a node: its worker's pthread_t, from 1 on
  joined,         \* clients whose worker's thread has been joined
  is_thread_complete,
  conn,           \* in a node: its accepted_sockfd
  pc,             \* where a client's connection, then its worker, is
  mutex_lock,     \* the worker that holds it
  recv_data, read_buffer, read_data_len,   \* globals shared by the workers
  fptr, accepted_sockfd,                   \* globals that name descriptors
  read_fptr,      \* the fptr of read_file, a local of the mutex's holder
  fd,             \* what each descriptor of the process is open on
  node,           \* whether RECV_FILE_NAME exists
  freed,          \* what is in use although the handler has freed it
  gone,           \* whether each client has left unanswered
  consumed,       \* bytes received of each client's message
  answer,         \* bytes sent to each client
  log, partial, f_pos, ubuf, reply         \* the device

place == <<resume, cursor>>
nodes == <<list, thread_id, joined, conn>>
buffers == <<recv_data, read_buffer, read_data_len>>
files == <<fptr, accepted_sockfd, read_fptr, fd, node>>
clients == <<gone, consumed, answer>>
device == <<log, partial, f_pos, ubuf, reply>>
process == <<place, nodes, is_thread_complete, mutex_lock, buffers, files, freed>>
vars == <<scenario, main, pc, process, clients, device>>

Device ==
  INSTANCE AesdLog
    WITH Procs <- Clients, Capacity <- Slots, Inputs <- {}, Counts <- {},
         Errors <- {-1}, MayFault <- FALSE, MayReload <- FALSE

May(mishap) == mishap \in scenario.mishaps

\* Descriptors 1 and 2 stay open all the time; syslog's own is left out.
Descriptors == {0} \cup 3 .. Cardinality(Clients) + 4
sockfd == 3      \* the first that socket() finds free
Closed == "closed"
Listening == "listening"
AesdChar == "/dev/aesdchar"
DevNull == "/dev/null"

ASSUME ClientsAssumption ==
  /\ IsFiniteSet(Clients) /\ NoClient \notin Clients
  /\ Clients \cap {Closed, Listening, AesdChar, DevNull} = {}

\* What a call on descriptor n, perhaps a number out of freed memory, finds.
FileOf(n) == IF n \in Descriptors THEN fd[n] ELSE Closed

\* open() and accept() return the lowest descriptor that is not in use.
NextFd == Min({n \in Descriptors : fd[n] = Closed})

Init ==
  /\ scenario \in Scenarios
  /\ main = "start"
  /\ resume = "none"
  /\ cursor = 1
  /\ list = << >>
  /\ thread_id = [c \in Clients |-> 0]
  /\ joined = {}
  /\ is_thread_complete = [c \in Clients |-> FALSE]
  /\ conn = [c \in Clients |-> 0]
  /\ pc = [c \in Clients |-> "away"]
  /\ mutex_lock = NoClient
  /\ recv_data = NULL
  /\ read_buffer = NULL
  /\ read_data_len = 0
  /\ fptr = 0
  /\ accepted_sockfd = 0
  /\ read_fptr = 0
  /\ fd = [n \in Descriptors |-> IF n = 0 THEN DevNull ELSE Closed]
  /\ node = TRUE
  /\ freed = {}
  /\ gone = [c \in Clients |-> FALSE]
  /\ consumed = [c \in Clients |-> 0]
  /\ answer = [c \in Clients |-> << >>]
  /\ log = scenario.held
  /\ partial = << >>
  /\ f_pos = [c \in Clients |-> 0]
  /\ ubuf = [c \in Clients |-> << >>]
  /\ reply = [c \in Clients |-> NoReply]

Goto(c, label) == pc' = [pc EXCEPT ![c] = label]

\* exit() in a worker, a return from main, or a crash.
Exit == main' = "ended" /\ UNCHANGED <<scenario, pc, process, clients, device>>

-----------------------------------------------------------------------------
Served == {c \in Clients : pc[c] \in {"unlock", "complete", "close", "exited"}}

(* A client connects and sends its message. *)
Connect(c) ==
  /\ pc[c] = "away" /\ main # "ended" /\ fd[sockfd] = Listening
  /\ c \in DOMAIN scenario.message
  /\ Goto(c, "connected")
  /\ UNCHANGED <<scenario, main, process, clients, device>>

Leave(c) ==
  /\ May("leave") /\ main # "ended"
  /\ pc[c] # "away" /\ c \notin Served
  /\ gone' = [gone EXCEPT ![c] = TRUE]
  /\ UNCHANGED <<scenario, main, pc, process, consumed, answer, device>>

-----------------------------------------------------------------------------
open_socket_then_bind ==
  /\ main = "start"
  /\ fd' = [fd EXCEPT ![sockfd] = Listening]
  /\ main' = "create_file"
  /\ UNCHANGED <<scenario, pc, place, nodes, is_thread_complete, mutex_lock, buffers,
                 fptr, accepted_sockfd, read_fptr, node, freed, clients, device>>

(* The descriptor is closed at once; the driver takes no notice of O_TRUNC. *)
(* A missing file is created: not the device, but nothing is accepted then. *)
create_new_file ==
  /\ main = "create_file"
  /\ fptr' = NextFd
  /\ node' = TRUE
  /\ main' = "listen"
  /\ UNCHANGED <<scenario, pc, place, nodes, is_thread_complete, mutex_lock, buffers,
                 accepted_sockfd, read_fptr, fd, freed, clients, device>>

(* listen and accept_connection give up on a descriptor that the handler   *)
(* has closed, whatever it is by then open on.                             *)
ListeningClosed ==
  /\ main \in {"listen", "accept"}
  /\ fd[sockfd] # Listening
  /\ Exit

Listen ==
  /\ main = "listen"
  /\ fd[sockfd] = Listening
  /\ main' = "accept"
  /\ UNCHANGED <<scenario, pc, process, clients, device>>

accept_connection ==
  /\ main = "accept"
  /\ fd[sockfd] = Listening
  /\ \E c \in Clients :
       /\ pc[c] = "connected"
       /\ Goto(c, "accepted")
       /\ accepted_sockfd' = NextFd
       /\ fd' = [fd EXCEPT ![NextFd] = c]
  /\ main' = "insert"
  /\ UNCHANGED <<scenario, place, nodes, is_thread_complete, mutex_lock, buffers,
                 fptr, read_fptr, node, freed, clients, device>>

(* A node for the connection goes to the head of the list. *)
InsertNode ==
  /\ main = "insert"
  /\ \E c \in Clients :
       /\ pc[c] = "accepted"
       /\ list' = <<c>> \o list
       /\ conn' = [conn EXCEPT ![c] = accepted_sockfd]
  /\ main' = "create"
  /\ UNCHANGED <<scenario, pc, place, thread_id, joined, is_thread_complete,
                 mutex_lock, buffers, files, freed, clients, device>>

Running == {c \in Clients : thread_id[c] # 0 /\ c \notin joined}

(* A new thread gets the next pthread_t or that of a thread joined before. *)
NewThreads ==
  LET used == {thread_id[w] : w \in Running \cup joined}
  IN {Cardinality(used) + 1} \cup (used \ {thread_id[w] : w \in Running})

CreateThread ==
  /\ main = "create"
  /\ \E c \in Clients, t \in NewThreads :
       /\ pc[c] = "accepted"
       /\ thread_id' = [thread_id EXCEPT ![c] = t]
       /\ Goto(c, "lock")
  /\ main' = "join"
  /\ cursor' = 1
  /\ UNCHANGED <<scenario, resume, list, joined, conn, is_thread_complete, mutex_lock,
                 buffers, files, freed, clients, device>>

(* Main goes through the list and joins the thread of every node that is   *)
(* complete.  A node that the handler has freed meanwhile may look either  *)
(* way, and what it names as the next node may end the process.            *)
VisitNode ==
  /\ main = "join"
  /\ cursor <= Len(list)
  /\ \/ /\ is_thread_complete[list[cursor]] \/ "list" \in freed
        /\ main' = "wait"
        /\ UNCHANGED cursor
     \/ /\ ~is_thread_complete[list[cursor]] \/ "list" \in freed
        /\ cursor' = cursor + 1
        /\ UNCHANGED main
  /\ UNCHANGED <<scenario, pc, resume, nodes, is_thread_complete, mutex_lock, buffers,
                 files, freed, clients, device>>

\* Mistake: main goes on without waiting for the thread.
JoinWorkerNot ==
  /\ main = "wait"
  /\ joined' = joined \cup {list[cursor]}
  /\ cursor' = cursor + 1
  /\ main' = "join"
  /\ UNCHANGED <<scenario, pc, resume, list, thread_id, conn, is_thread_complete,
                 mutex_lock, buffers, files, freed, clients, device>>

(* Nodes stay in the list, so a thread that has been joined is joined again: *)
(* if its pthread_t is by then that of another thread, main waits for that   *)
(* one, and if not pthread_join fails at once, if it can (JoinUnmapped).     *)
JoinWorker ==
  LET waitedFor == {w \in Running : thread_id[w] = thread_id[list[cursor]]}
  IN /\ main = "wait"
     /\ \A w \in waitedFor : pc[w] = "exited"
     /\ joined' = joined \cup waitedFor
     /\ cursor' = cursor + 1
     /\ main' = "join"
     /\ UNCHANGED <<scenario, pc, resume, list, thread_id, conn, is_thread_complete,
                    mutex_lock, buffers, files, freed, clients, device>>

(* A pthread_t is the address of what the C library keeps of the thread, on *)
(* its stack.  When more stacks are left over than the library keeps, those *)
(* of some joined threads are unmapped; which, is open here.                *)
RejoinsUnmapped ==
  LET idle == {thread_id[w] : w \in joined} \ {thread_id[w] : w \in Running}
  IN /\ cursor <= Len(list)
     /\ list[cursor] \in joined /\ thread_id[list[cursor]] \in idle
     /\ Cardinality(idle) > KeptStacks

(* To join such a thread again reads what is unmapped: the process ends.    *)
JoinUnmapped ==
  /\ main = "wait"
  /\ RejoinsUnmapped
  /\ Exit

EndOfList ==
  /\ main = "join"
  /\ cursor > Len(list)
  /\ main' = "listen"
  /\ UNCHANGED <<scenario, pc, process, clients, device>>

\* A read has gone past the end of its buffer, into the heap.
Overrun == read_buffer # NULL /\ Len(read_buffer) > read_data_len

(* Main returns when one of its calls fails, but for pthread_join; it may  *)
(* crash where it allocates from a damaged heap or goes through a freed    *)
(* list.                                                                   *)
MainExits ==
  /\ \/ May("call") /\ main \in {"start", "create_file", "listen", "accept",
                                 "insert", "create"}
     \/ main \in {"insert", "create"} /\ Overrun
     \/ main = "join" /\ cursor <= Len(list) /\ "list" \in freed
  /\ Exit

-----------------------------------------------------------------------------
(* SIGINT or SIGTERM, which the kernel hands to the main thread.  One, once *)
(* main is past bind: accept and pthread_join go on after the handler.      *)
Signal ==
  /\ May("signal") /\ resume = "none"
  /\ main \notin {"start", "ended"}
  /\ resume' = main
  /\ main' = "close"
  /\ UNCHANGED <<scenario, pc, cursor, nodes, is_thread_complete, mutex_lock, buffers,
                 files, freed, clients, device>>

(* sighandler closes by number, whatever the descriptor is by now, and     *)
(* workers may open one in between.                                        *)
CloseNumber(n) == fd' = [fd EXCEPT ![n] = Closed]

CloseFptr ==
  /\ main = "close"
  /\ CloseNumber(fptr)
  /\ main' = "close_sockfd"
  /\ UNCHANGED <<scenario, pc, place, nodes, is_thread_complete, mutex_lock, buffers,
                 fptr, accepted_sockfd, read_fptr, node, freed, clients, device>>

\* Mistake: the listening socket stays open.
SockfdStaysOpen ==
  /\ main = "close_sockfd"
  /\ main' = "close_accepted"
  /\ UNCHANGED <<scenario, pc, process, clients, device>>

CloseSockfd ==
  /\ main = "close_sockfd"
  /\ CloseNumber(sockfd)
  /\ main' = "close_accepted"
  /\ UNCHANGED <<scenario, pc, place, nodes, is_thread_complete, mutex_lock, buffers,
                 fptr, accepted_sockfd, read_fptr, node, freed, clients, device>>

CloseAccepted ==
  /\ main = "close_accepted"
  /\ CloseNumber(accepted_sockfd)
  /\ main' = "free"
  /\ UNCHANGED <<scenario, pc, place, nodes, is_thread_complete, mutex_lock, buffers,
                 fptr, accepted_sockfd, read_fptr, node, freed, clients, device>>

\* A buffer that has been freed: its bytes are what they were, or not.
Remains(buffer) == {buffer} \cup {[i \in DOMAIN buffer |-> JUNK]}

(* It frees the buffers of the worker that holds the mutex.  That worker   *)
(* may be freeing or moving one itself, which ends the process.            *)
FreeBuffers ==
  LET used == {b \in {"recv_data", "read_buffer"} :
                 IF b = "recv_data" THEN recv_data # NULL ELSE read_buffer # NULL}
  IN /\ main = "free"
     /\ freed' = freed \cup used
     /\ IF "recv_data" \in used THEN recv_data' \in Remains(recv_data)
        ELSE UNCHANGED recv_data
     /\ IF "read_buffer" \in used THEN read_buffer' \in Remains(read_buffer)
        ELSE UNCHANGED read_buffer
     /\ main' = "delete"
     /\ UNCHANGED <<scenario, pc, place, nodes, is_thread_complete, mutex_lock,
                    read_data_len, files, clients, device>>

DoubleFree ==
  /\ main = "free"
  /\ mutex_lock # NoClient
  /\ Exit

(* It removes the device's node and deletes the list.  The workers go on   *)
(* reading the descriptor of their client in the nodes; main, if it was in *)
(* the list, goes on there.                                                *)
DeleteList ==
  /\ main = "delete"
  /\ node' = FALSE
  /\ freed' = IF list = << >> THEN freed ELSE freed \cup {"list"}
  /\ conn' \in {conn, [c \in Clients |-> -1]}
  /\ list' = IF resume \in {"join", "wait"} THEN list ELSE << >>
  /\ main' = resume
  /\ UNCHANGED <<scenario, pc, place, thread_id, joined, is_thread_complete, mutex_lock,
                 buffers, fptr, accepted_sockfd, read_fptr, fd, clients, device>>

-----------------------------------------------------------------------------
(* thread_callback *)
At(c, label) == pc[c] = label /\ main # "ended"

(* pthread_mutex_lock, and a buffer for the line. *)
Lock(c) ==
  /\ At(c, "lock")
  /\ mutex_lock = NoClient
  /\ mutex_lock' = c
  /\ recv_data' = << >>
  /\ Goto(c, "recv")
  /\ UNCHANGED <<scenario, main, place, nodes, is_thread_complete, read_buffer,
                 read_data_len, files, freed, clients, device>>

(* One recv, of any part of what the client has sent.  The line is over    *)
(* when what has been received ends in a newline, the client's last or     *)
(* not.  A client that stops before keeps its worker here, waiting while   *)
(* it is connected, and in a loop of recv returning 0 when it has left.    *)
(* A recv that waits when its descriptor is closed goes on.                *)
Recv(c) ==
  /\ At(c, "recv")
  /\ FileOf(conn[c]) = c \/ resume # "none"
  /\ \E n \in 1 .. recv_len :
       /\ consumed[c] + n <= Len(scenario.message[c])
       /\ consumed' = [consumed EXCEPT ![c] = @ + n]
       /\ recv_data' = recv_data \o SubSeq(scenario.message[c], consumed[c] + 1, consumed[c] + n)
       /\ IF Last(recv_data') = NL THEN Goto(c, "open_write") ELSE UNCHANGED pc
  /\ UNCHANGED <<scenario, main, place, nodes, is_thread_complete, mutex_lock,
                 read_buffer, read_data_len, files, freed, gone, answer, device>>

OpenToWrite(c) ==
  /\ At(c, "open_write")
  /\ node
  /\ fptr' = NextFd
  /\ fd' = [fd EXCEPT ![NextFd] = AesdChar]
  /\ Goto(c, "write")
  /\ UNCHANGED <<scenario, main, place, nodes, is_thread_complete, mutex_lock, buffers,
                 accepted_sockfd, read_fptr, node, freed, clients, device>>

Write(c) ==
  /\ At(c, "write")
  /\ \/ FileOf(fptr) = AesdChar /\ Device!Write(c, recv_data)
     \/ (FileOf(fptr) # AesdChar \/ May("write")) /\ Device!Fail(c, -1)
  /\ Goto(c, "written")
  /\ UNCHANGED <<scenario, main, process, clients>>

\* Mistake: the length is that of the last line, not of all lines so far.
WrittenCountingLastLine(c) ==
  /\ At(c, "written")
  /\ Device!Return(c)
  /\ recv_data' = NULL
  /\ freed' = freed \ {"recv_data"}
  /\ fd' = [fd EXCEPT ![fptr] = Closed]
  /\ read_data_len' = Len(recv_data)
  /\ Goto(c, "open")
  /\ UNCHANGED <<scenario, main, place, nodes, is_thread_complete, mutex_lock,
                 read_buffer, fptr, accepted_sockfd, read_fptr, node, clients>>

\* Mistake: the line stays behind in the global.
WrittenKeepingLine(c) ==
  /\ At(c, "written")
  /\ Device!Return(c)
  /\ fd' = [fd EXCEPT ![fptr] = Closed]
  /\ read_data_len' = read_data_len + Len(recv_data)
  /\ Goto(c, "open")
  /\ UNCHANGED <<scenario, main, place, nodes, is_thread_complete, mutex_lock, recv_data,
                 read_buffer, fptr, accepted_sockfd, read_fptr, node, freed, clients>>

(* What write() returns is not looked at. *)
Written(c) ==
  /\ At(c, "written")
  /\ Device!Return(c)
  /\ recv_data' = NULL
  /\ freed' = freed \ {"recv_data"}
  /\ fd' = [fd EXCEPT ![fptr] = Closed]
  /\ read_data_len' = read_data_len + Len(recv_data)
  /\ Goto(c, "open")
  /\ UNCHANGED <<scenario, main, place, nodes, is_thread_complete, mutex_lock,
                 read_buffer, fptr, accepted_sockfd, read_fptr, node, clients>>

(* read_file *)
Open(c) ==
  /\ At(c, "open")
  /\ node
  /\ Device!Open(c)
  /\ read_fptr' = NextFd
  /\ fd' = [fd EXCEPT ![NextFd] = AesdChar]
  /\ read_buffer' = << >>
  /\ Goto(c, "read")
  /\ UNCHANGED <<scenario, main, place, nodes, is_thread_complete, mutex_lock, recv_data,
                 read_data_len, fptr, accepted_sockfd, node, freed, clients>>

Read(c) ==
  /\ At(c, "read")
  /\ IF FileOf(read_fptr) = AesdChar
     THEN Device!Read(c, read_data_len)
     ELSE Device!Fail(c, -1)
  /\ Goto(c, "readback")
  /\ UNCHANGED <<scenario, main, process, clients>>

\* Mistake: one read, however little it returns.
ReadBackOnce(c) ==
  /\ At(c, "readback")
  /\ Device!Return(c)
  /\ read_buffer' = read_buffer \o ubuf[c]
  /\ Goto(c, "send")
  /\ fd' = [fd EXCEPT ![read_fptr] = Closed]
  /\ UNCHANGED <<scenario, main, place, nodes, is_thread_complete, mutex_lock, recv_data,
                 read_data_len, fptr, accepted_sockfd, read_fptr, node, freed, clients>>

\* Mistake: the device stays open.
ReadBackKeepingOpen(c) ==
  /\ At(c, "readback")
  /\ Device!Return(c)
  /\ read_buffer' = read_buffer \o ubuf[c]
  /\ Goto(c, IF Len(read_buffer') = read_data_len THEN "send" ELSE "read")
  /\ UNCHANGED <<scenario, main, place, nodes, is_thread_complete, mutex_lock, recv_data,
                 read_data_len, files, freed, clients>>

(* The loop ends when it has read exactly as much as was ever written.  A  *)
(* failing read counts as -1, but only a descriptor that the handler has   *)
(* closed makes reads fail, and then all of them.                          *)
ReadBack(c) ==
  /\ At(c, "readback")
  /\ Device!Return(c)
  /\ read_buffer' = read_buffer \o ubuf[c]
  /\ IF reply[c] # -1 /\ Len(read_buffer') = read_data_len
     THEN Goto(c, "send") /\ fd' = [fd EXCEPT ![read_fptr] = Closed]
     ELSE Goto(c, "read") /\ UNCHANGED fd
  /\ UNCHANGED <<scenario, main, place, nodes, is_thread_complete, mutex_lock, recv_data,
                 read_data_len, fptr, accepted_sockfd, read_fptr, node, freed, clients>>

(* A send that the client makes wait goes on when its descriptor is closed. *)
Send(c) ==
  /\ At(c, "send")
  /\ c \notin scenario.unread
  /\ FileOf(conn[c]) = c \/ resume # "none"
  /\ answer' = [answer EXCEPT ![c] = read_buffer]
  /\ read_buffer' = NULL
  /\ freed' = freed \ {"read_buffer"}
  /\ Goto(c, "unlock")
  /\ UNCHANGED <<scenario, main, place, nodes, is_thread_complete, mutex_lock, recv_data,
                 read_data_len, files, gone, consumed, device>>

\* Mistake: the worker ends without releasing the mutex.
UnlockForgotten(c) ==
  /\ At(c, "unlock")
  /\ Goto(c, "complete")
  /\ UNCHANGED <<scenario, main, process, clients, device>>

Unlock(c) ==
  /\ At(c, "unlock")
  /\ mutex_lock' = NoClient
  /\ Goto(c, "complete")
  /\ UNCHANGED <<scenario, main, place, nodes, is_thread_complete, buffers, files, freed,
                 clients, device>>

Complete(c) ==
  /\ At(c, "complete")
  /\ is_thread_complete' = [is_thread_complete EXCEPT ![c] = TRUE]
  /\ Goto(c, "close")
  /\ UNCHANGED <<scenario, main, place, nodes, mutex_lock, buffers, files, freed,
                 clients, device>>

Close(c) ==
  /\ At(c, "close")
  /\ fd' = [n \in Descriptors |-> IF n = conn[c] THEN Closed ELSE fd[n]]
  /\ Goto(c, "exited")
  /\ UNCHANGED <<scenario, main, place, nodes, is_thread_complete, mutex_lock, buffers,
                 fptr, accepted_sockfd, read_fptr, node, freed, clients, device>>

(* A worker whose file is not there any more calls exit(). *)
WorkerFails(c) ==
  /\ At(c, "open_write") \/ At(c, "open")
  /\ ~node
  /\ Exit

(* What else may end the process: a call that fails, a connection that the *)
(* client has reset or the handler has closed, a buffer that is moved or   *)
(* freed again, a read past the end of one.                                *)
WorkerExits(c) ==
  /\ \/ /\ May("call")
        /\ \E label \in {"lock", "recv", "open_write", "open", "send", "unlock"} :
             At(c, label)
     \/ (At(c, "recv") \/ At(c, "send")) /\ (gone[c] \/ FileOf(conn[c]) # c)
     \/ "recv_data" \in freed /\ (At(c, "recv") \/ At(c, "written"))
     \/ "read_buffer" \in freed /\ At(c, "send")
     \/ Overrun /\ (At(c, "read") \/ At(c, "readback"))
  /\ Exit

-----------------------------------------------------------------------------
Main ==
  \/ open_socket_then_bind \/ create_new_file \/ Listen \/ ListeningClosed
  \/ accept_connection \/ InsertNode \/ CreateThread
  \/ VisitNode \/ JoinWorker \/ EndOfList

sighandler == CloseFptr \/ CloseSockfd \/ CloseAccepted \/ FreeBuffers \/ DeleteList

\* A worker's steps once it has the mutex.
Worker(c) ==
  \/ Recv(c) \/ OpenToWrite(c) \/ Write(c) \/ Written(c)
  \/ Open(c) \/ Read(c) \/ ReadBack(c)
  \/ Send(c) \/ Unlock(c) \/ Complete(c) \/ Close(c) \/ WorkerFails(c)

Next ==
  \/ Main \/ MainExits \/ JoinUnmapped
  \/ Signal \/ sighandler \/ DoubleFree
  \/ \E c \in Clients :
       Connect(c) \/ Leave(c) \/ Lock(c) \/ Worker(c) \/ WorkerExits(c)

Spec == Init /\ [][Next]_vars

(* Threads run, and a free mutex goes to one of those that wait for it: to *)
(* which one, pthread_mutex_unlock does not say.  Nobody has to connect,   *)
(* nothing has to go wrong.                                                *)
FairSpec ==
  /\ Spec
  /\ WF_vars(Main \/ sighandler)
  /\ WF_vars(\E c \in Clients : Lock(c))
  /\ \A c \in Clients : WF_vars(Worker(c))

-----------------------------------------------------------------------------
TypeOK ==
  /\ main \in {"start", "create_file", "listen", "accept", "insert", "create", "join",
               "wait", "close", "close_sockfd", "close_accepted", "free", "delete",
               "ended"}
  /\ resume \in {"none", "create_file", "listen", "accept", "insert", "create", "join",
                 "wait"}
  /\ cursor \in 1 .. Cardinality(Clients) + 1
  /\ list \in Seq(Clients) /\ IsInjective(list)
  /\ thread_id \in [Clients -> 0 .. Cardinality(Clients)]
  /\ is_thread_complete \in [Clients -> BOOLEAN]
  /\ joined \subseteq {c \in Clients : pc[c] = "exited"}
  /\ mutex_lock \in Clients \cup {NoClient}
  /\ {fptr, accepted_sockfd, read_fptr} \subseteq Descriptors
  /\ conn \in [Clients -> Descriptors \cup {-1}]
  /\ fd \in [Descriptors -> Clients \cup {Closed, Listening, AesdChar, DevNull}]
  /\ freed \subseteq {"recv_data", "read_buffer", "list"}
  /\ read_data_len \in Nat

\* The device held nothing when the server started.
Fresh == scenario.held = << >>

(* Clients agree on one history, whatever happens to the process: the      *)
(* answer each gets ends with what was received from it, of any two        *)
(* answers one begins with the other, and the device holds them all        *)
(* (aesdsocket.c:400-423).  Answers out of a freed buffer are left aside.  *)
AnswersAgree ==
  LET intact == {c \in Served : JUNK \notin Range(answer[c])}
  IN Fresh =>
       \A c, d \in intact :
         /\ IsSuffix(SubSeq(scenario.message[c], 1, consumed[c]), answer[c])
         /\ IsPrefix(answer[c], answer[d]) \/ IsPrefix(answer[d], answer[c])
         /\ IsPrefix(answer[c], FlattenSeq(log))

(* On a device that was empty, read_file never reads past the              *)
(* read_data_len bytes of its buffer: the loop of lines 175-178 asks for   *)
(* all of them at every turn and stops only when their number is exactly   *)
(* right.                                                                  *)
ReadFits == Fresh => ~Overrun

(* Whenever no worker is between its write and its unlock, the length the  *)
(* server has added up (line 410) is that of what the device holds, if it  *)
(* was empty: a line that the driver did not take is never followed by     *)
(* another.                                                                *)
LengthIsDevice ==
  Fresh /\ mutex_lock = NoClient => read_data_len = Len(FlattenSeq(log))

(* The buffers the workers share through globals belong to the worker that *)
(* holds the mutex: they are in use only between its lock and its unlock.  *)
BuffersUnderLock ==
  recv_data # NULL \/ read_buffer # NULL =>
    /\ mutex_lock # NoClient
    /\ pc[mutex_lock] \in {"recv", "open_write", "write", "written", "open", "read",
                           "readback", "send"}

(* Descriptors are numbers that are used again: a worker's is never that   *)
(* of another client's connection, and until a signal closes descriptors   *)
(* by number every connection is open once, for its own worker, and the    *)
(* device at most once, for the worker that holds the mutex                *)
(* (aesdsocket.c:371, 405, 423, 442).                                      *)
DescriptorsOwned ==
  /\ \A c \in Clients :
       pc[c] \notin {"away", "connected", "accepted", "exited"} =>
         FileOf(conn[c]) \notin Clients \ {c}
  /\ resume = "none" =>
       /\ \A c \in Clients :
            {n \in Descriptors : fd[n] = c} =
              CASE pc[c] \in {"away", "connected", "exited"} -> {}
                [] pc[c] = "accepted" -> {accepted_sockfd}
                [] OTHER -> {conn[c]}
       /\ \A n \in Descriptors :
            fd[n] = AesdChar =>
              /\ mutex_lock # NoClient
              /\ n = IF pc[mutex_lock] \in {"write", "written"} THEN fptr ELSE read_fptr

(* The worker that holds the mutex waits for what does not come: the rest  *)
(* of a line, bytes that the device does not hold, fewer bytes than it has *)
(* read, or a client to read its answer.                                   *)
Held ==
  /\ mutex_lock # NoClient
  /\ \/ /\ pc[mutex_lock] = "recv"
        /\ consumed[mutex_lock] = Len(scenario.message[mutex_lock])
     \/ /\ pc[mutex_lock] \in {"read", "readback"}
        /\ \/ read_data_len > Len(FlattenSeq(log))
           \/ FileOf(read_fptr) # AesdChar
           \/ Overrun
     \/ pc[mutex_lock] = "send" /\ mutex_lock \in scenario.unread

(* A client that connects and sends a line gets an answer: the server      *)
(* "connects with client, receives data, writes to file and send data to   *)
(* client" (aesdsocket.c:4).                                               *)
EveryClientServed ==
  \A c \in Clients : pc[c] = "connected" ~> c \in Served

(* Something went wrong, or was so from the start, and the process has      *)
(* ended or its workers wait; or a thread was joined again and is unmapped. *)
Hindered ==
  \/ /\ \/ scenario.mishaps # {}
        \/ scenario.unread # {}
        \/ ~Fresh
        \/ \E c \in DOMAIN scenario.message : ~Contains(scenario.message[c], NL)
     /\ main = "ended" \/ Held
  \/ main = "ended" /\ RejoinsUnmapped

(* A client that connects is answered, unless something went wrong and     *)
(* ended the process, or left the holder of the mutex waiting for ever     *)
(* (aesdsocket.c:355-439), or main was ended by its own join (line 710).   *)
ServedUnlessHindered ==
  \A c \in Clients : pc[c] = "connected" ~> c \in Served \/ Hindered

(* Main returns to accept: it waits for a thread only if that thread ends, *)
(* even when a pthread_t it joins again has become another thread's        *)
(* (lines 704-718).                                                        *)
MainAccepts == main \in {"join", "wait"} ~> main = "accept" \/ Hindered

\* Main waits for the worker that holds the mutex or for one that wants it.
WaitsForMutex ==
  /\ main = "wait"
  /\ \E w \in Running :
       /\ thread_id[w] = thread_id[list[cursor]]
       /\ w = mutex_lock \/ pc[w] = "lock"

(* A signal ends the server wherever it finds main, unless main goes on to *)
(* wait for a worker that itself waits for ever, or that waits for one     *)
(* that does (lines 199-237, 662-680, 704-718).                            *)
StopEnds == resume # "none" ~> main = "ended" \/ (Held /\ WaitsForMutex)

=============================================================================
