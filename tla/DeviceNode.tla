----------------------------- MODULE DeviceNode -----------------------------
(***************************************************************************)
(* What is at /dev/aesdchar while the scripts aesdchar_load and             *)
(* aesdchar_unload, the module and successive runs of the server come and   *)
(* go: the node of the loaded module, the node of one that is gone, nothing, *)
(* or a regular file, which the server creates where it finds nothing.      *)
(* The server is here one worker at a time, as its mutex has it; its other  *)
(* steps are those of AesdSocket.  The device is AesdLog.                   *)
(***************************************************************************)
EXTENDS Integers, SequencesExt

CONSTANTS
  Majors,      \* major numbers the kernel may give to the module
  Lines,       \* what clients send
  MaxBytes,    \* bound: bytes one run of the server receives
  Slots,       \* AESDCHAR_MAX_WRITE_OPERATIONS_SUPPORTED of the driver
  NL,          \* the newline byte
  aesdsocket,  \* the server, the only process that uses the device
  Missing, File, NotLoaded, NoReply

ASSUME PathsAssumption ==
  /\ Majors \cap {Missing, File, NotLoaded} = {}
  /\ Missing # File /\ NotLoaded \notin {Missing, File}

\* The server receives until a newline, and only then writes.
ASSUME LinesAssumption == \A s \in Lines : s \in Seq(Range(s)) /\ Contains(s, NL)
ASSUME BoundsAssumption == MaxBytes \in Nat /\ Slots \in Nat \ {0}
ASSUME ReplyAssumption == NoReply \notin Int

VARIABLES
  aesd_major,  \* of the loaded module, or NotLoaded
  path,        \* /dev/aesdchar: a node with a major number, File or Missing
  file,        \* what the regular file holds
  script,      \* the command that the running script is about to run, or how
               \* the last one ended
  signalled,   \* whether a server has had a signal since the module was loaded
  server,      \* where the server is
  closed,      \* whether it has lost its socket to its handler
  opened,      \* what its worker has open
  read_data_len,
  read_buffer, \* the bytes read back so far
  before,      \* history: what the device held when the server started
  received,    \* history: what this run of the server has received
  log, partial, f_pos, ubuf, reply   \* the device

module == <<aesd_major, signalled>>
worker == <<opened, read_data_len, read_buffer, received>>
device == <<log, partial, f_pos, ubuf, reply>>
vars == <<module, path, file, script, server, closed, worker, before, device>>

Device ==
  INSTANCE AesdLog
    WITH Procs <- {aesdsocket}, Capacity <- Slots, Inputs <- Lines, Counts <- {},
         Errors <- {-1}, MayFault <- FALSE, MayReload <- TRUE

Init ==
  /\ aesd_major = NotLoaded
  /\ path = Missing
  /\ file = << >>
  /\ script = "failed"
  /\ signalled = FALSE
  /\ server = "down"
  /\ closed = FALSE
  /\ opened = Missing
  /\ read_data_len = 0
  /\ read_buffer = << >>
  /\ before = << >>
  /\ received = << >>
  /\ Device!Init

-----------------------------------------------------------------------------
(* aesdchar_load and aesdchar_unload, one at a time.  A script that fails  *)
(* in its first command has changed nothing.                               *)
NoScript == script \in {"ended", "failed"}

(* insmod: the kernel chooses a major number, and the module starts empty. *)
Insmod ==
  /\ NoScript
  /\ aesd_major = NotLoaded
  /\ aesd_major' \in Majors
  /\ Device!Reload
  /\ signalled' = FALSE
  /\ script' = "rm"
  /\ UNCHANGED <<path, file, server, closed, worker, before>>

RemoveOld ==
  /\ script = "rm"
  /\ path' = Missing
  /\ script' = "mknod"
  /\ UNCHANGED <<module, file, server, closed, worker, before, device>>

\* Mistake: the script goes on when mknod fails.
MknodUnchecked ==
  /\ script = "mknod"
  /\ path' = IF path = Missing THEN aesd_major ELSE path
  /\ script' = "chgrp"
  /\ UNCHANGED <<module, file, server, closed, worker, before, device>>

(* mknod does not replace what the server may have created meanwhile. *)
Mknod ==
  /\ script = "mknod"
  /\ IF path = Missing
     THEN path' = aesd_major /\ script' = "chgrp"
     ELSE script' = "failed" /\ UNCHANGED path
  /\ UNCHANGED <<module, file, server, closed, worker, before, device>>

(* chgrp, then chmod, of what is there by now. *)
Permit ==
  /\ script \in {"chgrp", "chmod"}
  /\ \/ path = Missing /\ script' = "failed"
     \/ path # Missing /\ script = "chgrp" /\ script' = "chmod"
     \/ path # Missing /\ script = "chmod" /\ script' = "ended"
  /\ UNCHANGED <<module, path, file, server, closed, worker, before, device>>

\* Mistake: the node stays when the module goes.
RmmodKeepingNode ==
  /\ NoScript
  /\ aesd_major # NotLoaded /\ opened # aesd_major
  /\ aesd_major' = NotLoaded
  /\ script' = "ended"
  /\ UNCHANGED <<signalled, path, file, server, closed, worker, before, device>>

\* Mistake: a module without an owner in its file_operations.
RmmodWhileOpen ==
  /\ NoScript
  /\ aesd_major # NotLoaded
  /\ aesd_major' = NotLoaded
  /\ script' = "rm_stale"
  /\ UNCHANGED <<signalled, path, file, server, closed, worker, before, device>>

(* rmmod fails while the device is open, which `owner` makes it know. *)
Rmmod ==
  /\ NoScript
  /\ aesd_major # NotLoaded /\ opened # aesd_major
  /\ aesd_major' = NotLoaded
  /\ script' = "rm_stale"
  /\ UNCHANGED <<signalled, path, file, server, closed, worker, before, device>>

RemoveStale ==
  /\ script = "rm_stale"
  /\ path' = Missing
  /\ script' = "ended"
  /\ UNCHANGED <<module, file, server, closed, worker, before, device>>

-----------------------------------------------------------------------------
(* aesdsocket-start-stop start, with -d, only if no server runs.  register_ *)
(* signal_handler comes first, then open_socket_then_bind and the daemon.   *)
Start ==
  /\ server = "down"
  /\ server' = "registered"
  /\ closed' = FALSE
  /\ read_data_len' = 0
  /\ received' = << >>
  /\ UNCHANGED <<module, path, file, script, opened, read_buffer, before, device>>

open_socket_then_bind ==
  /\ server = "registered"
  /\ server' = "bound"
  /\ UNCHANGED <<module, path, file, script, closed, worker, before, device>>

Exists(at) == at = File \/ at = aesd_major

\* Mistake: an old file is not truncated.
CreateNewFileKeepingBytes ==
  /\ server = "bound"
  /\ path = Missing \/ Exists(path)
  /\ path' = IF path = Missing THEN File ELSE path
  /\ file' = IF path = Missing THEN << >> ELSE file
  /\ before' = IF path = aesd_major THEN FlattenSeq(log) ELSE << >>
  /\ server' = IF closed THEN "down" ELSE "accept"
  /\ UNCHANGED <<module, script, closed, worker, device>>

(* O_CREAT puts a regular file where nothing is, O_TRUNC empties the one   *)
(* that is there; the driver keeps what it holds.  Of a node without its   *)
(* module the open fails, and the server ends (Exit); without its socket   *)
(* it ends in listen.                                                      *)
create_new_file ==
  /\ server = "bound"
  /\ path = Missing \/ Exists(path)
  /\ path' = IF path = Missing THEN File ELSE path
  /\ file' = IF path = aesd_major THEN file ELSE << >>
  /\ before' = IF path = aesd_major THEN FlattenSeq(log) ELSE << >>
  /\ server' = IF closed THEN "down" ELSE "accept"
  /\ UNCHANGED <<module, script, closed, worker, device>>

\* Mistake: the length is that of the last line, not of all lines so far.
WriteCountingLastLine(s) ==
  /\ server = "accept"
  /\ Len(received) + Len(s) <= MaxBytes
  /\ Exists(path)
  /\ IF path = File
     THEN file' = file \o s /\ UNCHANGED device
     ELSE Device!Write(aesdsocket, s) /\ UNCHANGED file
  /\ opened' = path
  /\ received' = received \o s
  /\ read_data_len' = Len(s)
  /\ server' = "written"
  /\ UNCHANGED <<module, path, script, closed, read_buffer, before>>

\* What one write() adds to the file, whose disk may be full.
AppendToFile(s) == \E k \in 0 .. Len(s) : file' = file \o SubSeq(s, 1, k)

(* A worker appends a line to what it finds, and closes it.  The driver may *)
(* refuse the line; the server counts it all the same.                      *)
Write(s) ==
  /\ server = "accept"
  /\ Len(received) + Len(s) <= MaxBytes
  /\ Exists(path)
  /\ IF path = File
     THEN AppendToFile(s) /\ UNCHANGED device
     ELSE /\ Device!Write(aesdsocket, s) \/ Device!Fail(aesdsocket, -1)
          /\ UNCHANGED file
  /\ opened' = path
  /\ received' = received \o s
  /\ read_data_len' = read_data_len + Len(s)
  /\ server' = "written"
  /\ UNCHANGED <<module, path, script, closed, read_buffer, before>>

Written ==
  /\ server = "written"
  /\ IF opened = File THEN UNCHANGED device ELSE Device!Return(aesdsocket)
  /\ opened' = Missing
  /\ server' = "open"
  /\ UNCHANGED <<module, path, file, script, closed, read_data_len, read_buffer,
                 received, before>>

(* read_file opens what it finds by then. *)
Open ==
  /\ server = "open"
  /\ Exists(path)
  /\ IF path = File THEN UNCHANGED device ELSE Device!Open(aesdsocket)
  /\ opened' = path
  /\ read_buffer' = << >>
  /\ server' = "read"
  /\ UNCHANGED <<module, path, file, script, closed, read_data_len, received, before>>

Read ==
  /\ server = "read"
  /\ opened # File
  /\ Device!Read(aesdsocket, read_data_len)
  /\ server' = "readback"
  /\ UNCHANGED <<module, path, file, script, closed, worker, before>>

(* A file, unlike the device, is read across lines, and one that the script *)
(* has removed can still be read.  With less in it than was received the    *)
(* loop of read_file does not end.                                          *)
ReadFile ==
  /\ server = "read"
  /\ opened = File
  /\ IF Len(file) < read_data_len
     THEN read_buffer' = file /\ UNCHANGED <<server, opened>>
     ELSE /\ read_buffer' = SubSeq(file, 1, read_data_len)
          /\ server' = "send" /\ opened' = Missing
  /\ UNCHANGED <<module, path, file, script, closed, read_data_len, received, before,
                 device>>

ReadBack ==
  /\ server = "readback"
  /\ Device!Return(aesdsocket)
  /\ read_buffer' = read_buffer \o ubuf[aesdsocket]
  /\ IF Len(read_buffer') = read_data_len
     THEN server' = "send" /\ opened' = Missing
     ELSE server' = "read" /\ UNCHANGED opened
  /\ UNCHANGED <<module, path, file, script, closed, read_data_len, received, before>>

Send ==
  /\ server = "send"
  /\ server' = "accept"
  /\ UNCHANGED <<module, path, file, script, closed, worker, before, device>>

-----------------------------------------------------------------------------
\* The process ends, and with it a call of its worker.
Down ==
  /\ server' = "down"
  /\ opened' = Missing
  /\ read_buffer' = << >>
  /\ IF reply[aesdsocket] = NoReply THEN UNCHANGED device ELSE Device!Return(aesdsocket)
  /\ UNCHANGED <<read_data_len, received>>

(* SIGTERM of aesdsocket-start-stop stop, or SIGINT: sighandler removes     *)
(* what is at the path.  Main finds its socket closed in listen or accept;  *)
(* if it has none yet, the handler closes descriptor 0, the next socket is  *)
(* 0, and daemon() puts /dev/null in its place.                             *)
Stop ==
  /\ server # "down"
  /\ path' = Missing
  /\ signalled' = TRUE
  /\ closed' = TRUE
  /\ IF server \in {"registered", "bound"}
     THEN UNCHANGED <<server, worker, device>>
     ELSE Down
  /\ UNCHANGED <<aesd_major, file, script, before>>

(* The server ends by itself, in a call that fails: the path stays. *)
Exit ==
  /\ server # "down"
  /\ Down
  /\ UNCHANGED <<module, path, file, script, closed, before>>

Next ==
  \/ Insmod \/ RemoveOld \/ Mknod \/ Permit \/ Rmmod \/ RemoveStale
  \/ Start \/ open_socket_then_bind \/ create_new_file
  \/ \E s \in Lines : Write(s)
  \/ Written \/ Open \/ Read \/ ReadFile \/ ReadBack \/ Send
  \/ Stop \/ Exit

Spec == Init /\ [][Next]_vars

-----------------------------------------------------------------------------
TypeOK ==
  /\ aesd_major \in Majors \cup {NotLoaded}
  /\ {path, opened} \subseteq Majors \cup {File, Missing}
  /\ opened \in Majors => opened = aesd_major
  /\ script \in {"rm", "mknod", "chgrp", "chmod", "rm_stale", "ended", "failed"}
  /\ server \in {"down", "registered", "bound", "accept", "written", "open", "read",
                 "readback", "send"}
  /\ {signalled, closed} \subseteq BOOLEAN
  /\ read_data_len = Len(received) /\ read_data_len <= MaxBytes

(* The number of a node outlives its module only until the script that      *)
(* unloaded the one, or loads the next, has removed it (aesdchar_load:22,   *)
(* aesdchar_unload:10).                                                     *)
NodeNamesModule ==
  path \in Majors => path = aesd_major \/ script \in {"rm", "rm_stale"}

(* Once aesdchar_load has ended well, whatever the servers do, only a       *)
(* signal to one takes the device away from its place, which a later server *)
(* then fills with a regular file (aesdsocket.c:223, 562).                  *)
DeviceInPlace ==
  script = "ended" /\ aesd_major # NotLoaded /\ ~signalled => path = aesd_major

(* A server that started with nothing in the device answers with what it    *)
(* has received, all of it and in order, whatever happens to the path and   *)
(* the module meanwhile (aesdsocket.c:401-423).                             *)
AnswersOwnLines == server = "send" /\ before = << >> => read_buffer = received

(* read_file reads past the end of its buffer only where the device held    *)
(* commands that this run of the server has not counted                     *)
(* (aesdsocket.c:168-178, 410).                                             *)
OverrunNeedsHistory ==
  server \in {"read", "readback", "send"} /\ Len(read_buffer) > read_data_len =>
    before # << >>

=============================================================================
