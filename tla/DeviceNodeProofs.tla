-------------------------- MODULE DeviceNodeProofs --------------------------
(***************************************************************************)
(* The path of the device, for any number of major numbers and whatever    *)
(* clients send: a node names the loaded module outside the scripts, once   *)
(* loaded the device stays in its place until a server is signalled, and a  *)
(* server that started with nothing in the device answers with its own      *)
(* lines, wherever they went.                                               *)
(***************************************************************************)
EXTENDS DeviceNode, SequenceLemmas

(* Between the node's making and the end of the script, the device is in   *)
(* its place as well; and a script that removes a stale node has unloaded   *)
(* the module.                                                             *)
Placed ==
  /\ aesd_major \in Majors \cup {NotLoaded}
  /\ script = "rm_stale" => aesd_major = NotLoaded
  /\ script \in {"chgrp", "chmod", "ended"} /\ aesd_major # NotLoaded /\ ~signalled =>
       path = aesd_major

(* The invariant behind the node's theorems.                               *)
IInv == NodeNamesModule /\ Placed

(* A step that touches neither the module, the script nor the path keeps   *)
(* IInv.                                                                   *)
LEMMA PathKept ==
  ASSUME IInv, UNCHANGED <<aesd_major, script, signalled, path>>
  PROVE  IInv'
BY DEF IInv, Placed, NodeNamesModule

(* The scripts' steps keep IInv. *)
LEMMA ScriptsKeepIInv ==
  ASSUME IInv,
         Insmod \/ RemoveOld \/ Mknod \/ Permit \/ Rmmod \/ RemoveStale
  PROVE  IInv'
<1> USE PathsAssumption DEF IInv, Placed, NodeNamesModule
<1>1. CASE Insmod
  BY <1>1 DEF Insmod, NoScript
<1>2. CASE RemoveOld
  BY <1>2 DEF RemoveOld, module
<1>3. CASE Mknod
  BY <1>3 DEF Mknod, module
<1>4. CASE Permit
  BY <1>4 DEF Permit, module
<1>5. CASE Rmmod
  BY <1>5 DEF Rmmod, NoScript
<1>6. CASE RemoveStale
  BY <1>6 DEF RemoveStale, module
<1>7. QED
  BY <1>1, <1>2, <1>3, <1>4, <1>5, <1>6

(* The server creates a file only where nothing is. *)
LEMMA CreateKeepsIInv ==
  ASSUME IInv, create_new_file
  PROVE  IInv'
<1>1. CASE path = Missing
  BY <1>1, PathsAssumption DEF create_new_file, module, IInv, Placed, NodeNamesModule
<1>2. CASE path # Missing
  BY <1>2, PathKept DEF create_new_file, module
<1>3. QED
  BY <1>1, <1>2

(* A signal to the server takes the node away, and says so. *)
LEMMA StopKeepsIInv ==
  ASSUME IInv, Stop
  PROVE  IInv'
BY PathsAssumption DEF Stop, IInv, Placed, NodeNamesModule

(* No other step of the server touches the path. *)
LEMMA ServerKeepsIInv ==
  ASSUME IInv,
         \/ Start \/ open_socket_then_bind \/ \E s \in Lines : Write(s)
         \/ Written \/ Open \/ Read \/ ReadFile \/ ReadBack \/ Send \/ Exit
  PROVE  IInv'
<1>1. UNCHANGED <<aesd_major, script, signalled, path>>
  BY DEF Start, open_socket_then_bind, Write, Written, Open, Read, ReadFile, ReadBack,
         Send, Exit, module
<1>2. QED
  BY <1>1, PathKept

(* Every step keeps it.                                                    *)
LEMMA NextIInv == IInv /\ [Next]_vars => IInv'
<1> SUFFICES ASSUME IInv, [Next]_vars
             PROVE  IInv'
  OBVIOUS
<1>1. CASE UNCHANGED vars
  BY <1>1, PathKept DEF vars, module
<1>2. CASE Next
  BY <1>2, ScriptsKeepIInv, CreateKeepsIInv, StopKeepsIInv, ServerKeepsIInv DEF Next
<1>3. QED
  BY <1>1, <1>2

(* It holds before the first script runs.                                  *)
LEMMA InitIInv == Init => IInv
BY PathsAssumption DEF Init, IInv, Placed, NodeNamesModule

(* IInv always holds. *)
THEOREM Invariance == Spec => []IInv
BY InitIInv, NextIInv, PTL DEF Spec

(* A node whose number is not the loaded module's is one that a running    *)
(* script is about to remove (aesdchar_load:22, aesdchar_unload:10).        *)
THEOREM NodeOfLoadedModule == Spec => []NodeNamesModule
<1>1. IInv => NodeNamesModule
  BY DEF IInv
<1>2. QED
  BY <1>1, Invariance, PTL

(* After a load that ended well only a signal to a server takes the device *)
(* away (aesdsocket.c:223).                                                *)
THEOREM DeviceStaysInPlace == Spec => []DeviceInPlace
<1>1. IInv => DeviceInPlace
  BY DEF IInv, Placed, DeviceInPlace
<1>2. QED
  BY <1>1, Invariance, PTL

-----------------------------------------------------------------------------
(* The bytes of the lines a client may send.                               *)
Byte == UNION {Range(s) : s \in Lines}

(* Lines are sequences of bytes, with a newline. *)
LEMMA LinesAreBytes ==
  ASSUME NEW s \in Lines
  PROVE  s \in Seq(Byte) /\ Contains(s, NL)
<1>1. s \in Seq(Range(s)) /\ Contains(s, NL)
  BY LinesAssumption
<1>2. Range(s) \subseteq Byte
  BY DEF Byte
<1> QED BY <1>1, <1>2, SeqMonotonic

-----------------------------------------------------------------------------
(* A call of the server's worker is between its start and its return just  *)
(* where the server is in one, and the lines of the log are whole.         *)
DeviceInv ==
  /\ log \in Seq(Seq(Byte)) /\ Len(log) <= Slots /\ partial = << >>
  /\ f_pos \in [{aesdsocket} -> Nat]
  /\ ubuf \in [{aesdsocket} -> Seq(Byte)]
  /\ reply \in [{aesdsocket} -> Int \cup {NoReply}]
  /\ file \in Seq(Byte) /\ received \in Seq(Byte) /\ read_buffer \in Seq(Byte)
  /\ reply[aesdsocket] # NoReply <=>
       server = "readback" \/ (server = "written" /\ opened # File)
  /\ reply[aesdsocket] = NoReply => ubuf[aesdsocket] = << >>

(* A module is loaded with an empty log and no node, and its node is gone  *)
(* before the next one is.                                                 *)
PlaceInv ==
  /\ script \in {"rm", "mknod"} => log = << >> /\ path \notin Majors
  /\ aesd_major = NotLoaded /\ script # "rm_stale" => path \notin Majors
  /\ script \in {"rm", "mknod", "chgrp", "chmod"} => aesd_major \in Majors
  /\ script = "rm_stale" => aesd_major = NotLoaded
  /\ path \in Majors => path = aesd_major \/ script = "rm_stale"
  /\ IF server \in {"written", "read", "readback"} THEN opened # Missing
                                                   ELSE opened = Missing
  /\ server = "readback" => opened # File
  /\ server \in {"registered", "bound"} => received = << >>

(* The server runs, between two of its requests or within one.             *)
Up == server \in {"accept", "written", "open", "read", "readback", "send"}

(* What the worker has read of the device are its first bytes, up to the   *)
(* position of its next read.                                              *)
ReadInv ==
  server \in {"read", "readback"} /\ opened # File =>
    /\ f_pos[aesdsocket] <= Len(FlattenSeq(log))
    /\ read_buffer \o ubuf[aesdsocket] = SubSeq(FlattenSeq(log), 1, f_pos[aesdsocket])

(* The worker has written, or tried to, and not yet read it back.          *)
Answering == server \in {"written", "open", "read", "readback"}

(* All that was received is in the file, or a worker that found its disk   *)
(* full will never read as much.                                           *)
InFile ==
  \/ file = received
  \/ Answering /\ opened \notin Majors /\ Len(file) < Len(received)

(* The device has the last lines that were received, or a worker whose     *)
(* write it refused will never read as much.                               *)
InDevice ==
  \/ EndsWith(Byte, received, FlattenSeq(log))
  \/ Answering /\ opened # File /\ Len(FlattenSeq(log)) < Len(received)

(* A server that started with nothing in the device has all its lines in   *)
(* the file, or its last ones in the device.                               *)
HistoryInv ==
  /\ Up /\ (path = File \/ opened = File) => before = << >>
  /\ Up /\ before = << >> =>
       /\ path = File \/ opened = File => InFile
       /\ path \in Majors \/ opened \in Majors => InDevice
       /\ server = "read" /\ opened = File => Len(read_buffer) <= Len(received)
       /\ server = "send" => read_buffer = received

(* The two flags that the types do not depend on.                          *)
Flags == signalled \in BOOLEAN /\ closed \in BOOLEAN

(* Types, and what links the places of the server to the path: it has      *)
(* counted what it received, and what it opened is the loaded module.      *)
Types ==
  /\ aesd_major \in Majors \cup {NotLoaded}
  /\ path \in Majors \cup {File, Missing} /\ opened \in Majors \cup {File, Missing}
  /\ opened \in Majors => opened = aesd_major
  /\ script \in {"rm", "mknod", "chgrp", "chmod", "rm_stale", "ended", "failed"}
  /\ server \in {"down", "registered", "bound", "accept", "written", "open", "read",
                 "readback", "send"}
  /\ read_data_len = Len(received) /\ read_data_len <= MaxBytes

(* The inductive invariant behind the server's answers.                    *)
AnswerInv == Types /\ DeviceInv /\ PlaceInv /\ ReadInv /\ HistoryInv

(* It holds before anything is loaded.                                     *)
LEMMA InitAnswerInv == Init => AnswerInv
<1> SUFFICES ASSUME Init PROVE AnswerInv
  OBVIOUS
<1>1. << >> \in Seq(Byte) /\ << >> \in Seq(Seq(Byte)) /\ Len(<< >>) = 0
  BY EmptySeq
<1>2. Types
  BY <1>1, PathsAssumption, BoundsAssumption DEF Init, Types
<1>3. DeviceInv
  BY <1>1, BoundsAssumption, ReplyAssumption DEF Init, DeviceInv, Device!Init
<1>4. PlaceInv
  BY PathsAssumption DEF Init, PlaceInv
<1>5. ReadInv /\ HistoryInv
  BY DEF Init, ReadInv, HistoryInv, Up
<1> QED BY <1>2, <1>3, <1>4, <1>5 DEF AnswerInv

(* Where the flags are set. *)
LEMMA FlagsInvariant == Spec => []Flags
<1>1. Init => Flags
  BY DEF Init, Flags
<1>2. Flags /\ [Next]_vars => Flags'
  <2> SUFFICES ASSUME Flags, [Next]_vars PROVE Flags'
    OBVIOUS
  <2>1. CASE Insmod
    BY <2>1 DEF Insmod, Flags
  <2>2. CASE Start
    BY <2>2 DEF Start, Flags, module
  <2>3. CASE Stop
    BY <2>3 DEF Stop, Flags
  <2>4. ASSUME NEW s \in Lines, Write(s)
        PROVE  Flags'
    BY <2>4 DEF Write, Flags, module
  <2>5. CASE \/ RemoveOld \/ Mknod \/ Permit \/ Rmmod \/ RemoveStale
             \/ open_socket_then_bind \/ create_new_file
             \/ Written \/ Open \/ Read \/ ReadFile \/ ReadBack \/ Send \/ Exit
             \/ UNCHANGED vars
    <3>1. UNCHANGED <<signalled, closed>>
      BY <2>5 DEF RemoveOld, Mknod, Permit, Rmmod, RemoveStale, open_socket_then_bind,
                  create_new_file, Written, Open, Read, ReadFile, ReadBack, Send, Exit,
                  Down, vars, module
    <3> QED BY <3>1 DEF Flags
  <2> QED BY <2>1, <2>2, <2>3, <2>4, <2>5 DEF Next
<1> QED BY <1>1, <1>2, PTL DEF Spec

-----------------------------------------------------------------------------
(* The steps of the scripts.  None of them touches the server, and only    *)
(* insmod touches the device, which no process has open then.              *)
LEMMA ScriptsKeepAnswerInv ==
  ASSUME AnswerInv,
         Insmod \/ RemoveOld \/ Mknod \/ Permit \/ Rmmod \/ RemoveStale
  PROVE  AnswerInv'
<1>1. /\ UNCHANGED <<file, server, closed, worker, before, partial, f_pos, ubuf, reply>>
      /\ log' = log \/ log' = << >>
  BY DEF Insmod, RemoveOld, Mknod, Permit, Rmmod, RemoveStale, device, Device!Reload,
         AnswerInv, DeviceInv
<1>2. UNCHANGED <<opened, read_data_len, read_buffer, received>>
  BY <1>1 DEF worker
<1>3. Types'
  BY <1>1, <1>2, PathsAssumption
     DEF Insmod, RemoveOld, Mknod, Permit, Rmmod, RemoveStale, module, NoScript,
         AnswerInv, Types, PlaceInv
<1>4. DeviceInv'
  <2>1. << >> \in Seq(Seq(Byte)) /\ Len(<< >>) = 0
    BY EmptySeq
  <2>2. log' \in Seq(Seq(Byte)) /\ Len(log') <= Slots
    <3>1. log \in Seq(Seq(Byte)) /\ Len(log) <= Slots /\ 0 <= Slots
      BY BoundsAssumption DEF AnswerInv, DeviceInv
    <3>2. CASE log' = log
      BY <3>1, <3>2
    <3>3. CASE log' = << >>
      BY <2>1, <3>1, <3>3
    <3> QED BY <1>1, <3>2, <3>3
  <2> QED BY <1>1, <1>2, <2>2 DEF AnswerInv, DeviceInv
<1>5. PlaceInv'
  BY <1>1, <1>2, PathsAssumption
     DEF Insmod, RemoveOld, Mknod, Permit, Rmmod, RemoveStale, module, NoScript,
         Device!Reload, device, AnswerInv, Types, PlaceInv
<1>6. EndsWith(Byte, received, FlattenSeq(<< >>))
  <2>1. << >> \in Seq(Seq(Byte))
    BY EmptySeq
  <2>2. FlattenSeq(<< >>) = << >>
    BY <2>1, FlattenProperties
  <2>3. received \in Seq(Byte) /\ << >> \in Seq(Byte)
    BY EmptySeq DEF AnswerInv, DeviceInv
  <2> QED BY <2>2, <2>3, EndsWithProperties
<1>7. /\ path' = File => path = File
      /\ path' \in Majors => path \in Majors \/ log' = << >>
      /\ log' = log \/ opened \notin Majors
  BY <1>1, <1>2, PathsAssumption
     DEF Insmod, RemoveOld, Mknod, Permit, Rmmod, RemoveStale, module, device,
         AnswerInv, Types, PlaceInv
<1>8. server \in {"read", "readback"} /\ opened # File => log' = log
  BY <1>7 DEF AnswerInv, Types, PlaceInv
<1>9. ReadInv' /\ HistoryInv'
  BY <1>1, <1>2, <1>6, <1>7, <1>8
     DEF AnswerInv, ReadInv, HistoryInv, Up, InFile, InDevice, Answering
<1> QED BY <1>3, <1>4, <1>5, <1>9 DEF AnswerInv

-----------------------------------------------------------------------------
(* The steps of the server that leave its worker alone, or end it. *)
LEMMA StartKeepsAnswerInv ==
  ASSUME AnswerInv, Start \/ open_socket_then_bind
  PROVE  AnswerInv'
<1>0. << >> \in Seq(Byte) /\ Len(<< >>) = 0
  BY EmptySeq
<1>1. /\ UNCHANGED <<aesd_major, path, file, script, opened, read_buffer, before,
                     log, partial, f_pos, ubuf, reply>>
      /\ \/ server = "down" /\ server' = "registered" /\ received' = << >> /\ read_data_len' = 0
         \/ server = "registered" /\ server' = "bound" /\ UNCHANGED <<received, read_data_len>>
  BY DEF Start, open_socket_then_bind, module, worker, device
<1>2. Types'
  BY <1>0, <1>1, BoundsAssumption DEF AnswerInv, Types
<1>3. DeviceInv' /\ PlaceInv'
  BY <1>0, <1>1 DEF AnswerInv, DeviceInv, PlaceInv
<1>4. ReadInv' /\ HistoryInv'
  BY <1>1 DEF ReadInv, HistoryInv, Up
<1> QED BY <1>2, <1>3, <1>4 DEF AnswerInv

(* The server makes sure that there is something to open; it has received  *)
(* nothing yet.                                                            *)
LEMMA CreateKeepsAnswerInv ==
  ASSUME AnswerInv, create_new_file
  PROVE  AnswerInv'
<1>0. << >> \in Seq(Byte) /\ << >> \in Seq(Seq(Byte)) /\ Len(<< >>) = 0
  BY EmptySeq
<1>1. /\ server = "bound" /\ (server' = "down" \/ server' = "accept")
      /\ path = Missing \/ path = File \/ path = aesd_major
      /\ path' = IF path = Missing THEN File ELSE path
      /\ file' = IF path = aesd_major THEN file ELSE << >>
      /\ before' = IF path = aesd_major THEN FlattenSeq(log) ELSE << >>
      /\ UNCHANGED <<aesd_major, script, opened, read_data_len, read_buffer, received,
                     log, partial, f_pos, ubuf, reply>>
  BY DEF create_new_file, Exists, module, worker, device
<1>2. opened = Missing /\ received = << >>
  BY <1>1 DEF AnswerInv, PlaceInv
<1>3. Types' /\ PlaceInv'
  BY <1>1, <1>2, PathsAssumption DEF AnswerInv, Types, PlaceInv
<1>4. DeviceInv'
  BY <1>0, <1>1 DEF AnswerInv, DeviceInv
<1>5. EndsWith(Byte, received, << >>)
  BY <1>0, <1>2, EndsWithProperties
<1>6. path' = File => path # aesd_major
  BY <1>1, PathsAssumption DEF AnswerInv, Types
<1>7. path' \in Majors => path = aesd_major
  BY <1>1, PathsAssumption DEF AnswerInv, Types
<1>8. ReadInv' /\ HistoryInv'
  BY <1>1, <1>2, <1>5, <1>6, <1>7, PathsAssumption
     DEF ReadInv, HistoryInv, Up, InFile, InDevice
<1> QED BY <1>3, <1>4, <1>8 DEF AnswerInv

(* A process that ends takes back the call it is in. *)
LEMMA DownKeepsAnswerInv ==
  ASSUME AnswerInv, Down, path' = path \/ path' = Missing,
         UNCHANGED <<aesd_major, file, script, before>>
  PROVE  AnswerInv'
<1>0. << >> \in Seq(Byte)
  BY EmptySeq
<1>1. /\ server' = "down" /\ opened' = Missing /\ read_buffer' = << >>
      /\ UNCHANGED <<read_data_len, received>>
      /\ UNCHANGED <<log, partial, f_pos>>
      /\ reply' = [reply EXCEPT ![aesdsocket] = NoReply]
      /\ IF reply[aesdsocket] = NoReply THEN UNCHANGED ubuf
         ELSE ubuf' = [ubuf EXCEPT ![aesdsocket] = << >>]
  BY DEF Down, Device!Return, device, AnswerInv, DeviceInv
<1>2. Types' /\ PlaceInv'
  BY <1>1, PathsAssumption DEF AnswerInv, Types, PlaceInv
<1>3. DeviceInv'
  BY <1>0, <1>1 DEF AnswerInv, DeviceInv
<1>4. ReadInv' /\ HistoryInv'
  BY <1>1 DEF ReadInv, HistoryInv, Up
<1> QED BY <1>2, <1>3, <1>4 DEF AnswerInv

(* The signal takes the path away and the server with it, unless it is not *)
(* listening yet.                                                          *)
LEMMA StopKeepsAnswerInv ==
  ASSUME AnswerInv, Stop
  PROVE  AnswerInv'
<1>1. /\ path' = Missing /\ UNCHANGED <<aesd_major, file, script, before>>
  BY DEF Stop
<1>2. CASE Down
  BY <1>1, <1>2, DownKeepsAnswerInv
<1>3. CASE server \in {"registered", "bound"} /\ UNCHANGED <<server, worker, device>>
  <2>1. UNCHANGED <<server, opened, read_data_len, read_buffer, received,
                    log, partial, f_pos, ubuf, reply>>
    BY <1>3 DEF worker, device
  <2>2. Types' /\ PlaceInv'
    BY <1>1, <2>1, PathsAssumption DEF AnswerInv, Types, PlaceInv
  <2>3. DeviceInv'
    BY <1>1, <2>1 DEF AnswerInv, DeviceInv
  <2>4. ReadInv' /\ HistoryInv'
    BY <1>3, <2>1 DEF ReadInv, HistoryInv, Up
  <2> QED BY <2>2, <2>3, <2>4 DEF AnswerInv
<1> QED BY <1>2, <1>3 DEF Stop

(* A server that ends forgets what it received.                            *)
LEMMA ExitKeepsAnswerInv ==
  ASSUME AnswerInv, Exit
  PROVE  AnswerInv'
BY DownKeepsAnswerInv DEF Exit, module

-----------------------------------------------------------------------------
(* A line that is written becomes the last one of the log, which may lose  *)
(* its first one.                                                          *)
LEMMA WriteGrowsLog ==
  ASSUME DeviceInv, NEW s \in Lines, Device!Write(aesdsocket, s)
  PROVE  /\ log' \in Seq(Seq(Byte)) /\ Len(log') <= Slots /\ partial' = << >>
         /\ reply' = [reply EXCEPT ![aesdsocket] = Len(s)]
         /\ UNCHANGED <<f_pos, ubuf>>
         /\ EndsWith(Byte, received, FlattenSeq(log))
              => EndsWith(Byte, received \o s, FlattenSeq(log'))
<1>1. /\ s \in Seq(Byte) /\ Contains(s, NL) /\ << >> \o s = s
      /\ log \in Seq(Seq(Byte)) /\ Len(log) <= Slots /\ partial = << >>
      /\ received \in Seq(Byte)
  BY LinesAreBytes, ConcatEmptySeq DEF DeviceInv
<1>2. \A t : Device!Contains(t, NL) <=> Contains(t, NL)
  BY DEF Device!Contains, Contains
<1>3. /\ log' = Device!Push(log, s) /\ partial' = << >>
      /\ reply' = [reply EXCEPT ![aesdsocket] = Len(s)]
      /\ UNCHANGED <<f_pos, ubuf>>
  BY <1>1, <1>2 DEF Device!Write
<1>4. ASSUME NEW kept \in Seq(Seq(Byte)), Len(kept) < Slots, log' = Append(kept, s),
             EndsWith(Byte, received, FlattenSeq(log)) => EndsWith(Byte, received, FlattenSeq(kept))
      PROVE  /\ log' \in Seq(Seq(Byte)) /\ Len(log') <= Slots
             /\ EndsWith(Byte, received, FlattenSeq(log))
                  => EndsWith(Byte, received \o s, FlattenSeq(log'))
  <2>1. /\ Append(kept, s) \in Seq(Seq(Byte))
        /\ Len(Append(kept, s)) = Len(kept) + 1 /\ Len(kept) \in Nat
    BY <1>1, AppendProperties, LenProperties
  <2>2. FlattenSeq(Append(kept, s)) = FlattenSeq(kept) \o s /\ FlattenSeq(kept) \in Seq(Byte)
    BY <1>1, FlattenAppend, FlattenProperties
  <2>3. EndsWith(Byte, received, FlattenSeq(kept))
          => EndsWith(Byte, received \o s, FlattenSeq(kept) \o s)
    BY <1>1, <2>2, EndsWithProperties
  <2>4. Len(log') <= Slots
    BY <1>4, <2>1, BoundsAssumption
  <2> QED BY <1>4, <2>1, <2>2, <2>3, <2>4
<1>5. Len(log) \in Nat
  BY <1>1, LenProperties
<1>6. CASE Len(log) = Slots
  <2>1. log # << >> /\ Len(log) # 0
    BY <1>6, BoundsAssumption, EmptySeq
  <2>2. Tail(log) \in Seq(Seq(Byte)) /\ Len(Tail(log)) = Len(log) - 1
    BY <1>1, <2>1, HeadTailProperties
  <2>3. Len(Tail(log)) < Slots
    BY <1>5, <1>6, <2>2
  <2>4. EndsWith(Byte, received, FlattenSeq(log)) => EndsWith(Byte, received, FlattenSeq(Tail(log)))
    BY <1>1, <2>1, EndsWithoutFirst
  <2>5. log' = Append(Tail(log), s)
    BY <1>3, <1>6 DEF Device!Push
  <2> QED BY <1>3, <1>4, <2>2, <2>3, <2>4, <2>5
<1>7. CASE Len(log) # Slots
  <2>1. Len(log) < Slots
    BY <1>1, <1>5, <1>7, BoundsAssumption
  <2>2. log' = Append(log, s)
    BY <1>3, <1>7 DEF Device!Push
  <2> QED BY <1>1, <1>3, <1>4, <2>1, <2>2
<1> QED BY <1>6, <1>7

(* A read returns the next bytes of the log. *)
LEMMA ReadReturnsNext ==
  ASSUME DeviceInv, f_pos[aesdsocket] <= Len(FlattenSeq(log)),
         NEW count \in Nat, Device!Read(aesdsocket, count)
  PROVE  \E k \in Nat : \E bytes \in Seq(Byte) :
           /\ ubuf' = [ubuf EXCEPT ![aesdsocket] = bytes]
           /\ f_pos' = [f_pos EXCEPT ![aesdsocket] = @ + k]
           /\ reply' = [reply EXCEPT ![aesdsocket] = k]
           /\ UNCHANGED <<log, partial>>
           /\ f_pos[aesdsocket] + k <= Len(FlattenSeq(log))
           /\ SubSeq(FlattenSeq(log), 1, f_pos[aesdsocket]) \o bytes
                = SubSeq(FlattenSeq(log), 1, f_pos[aesdsocket] + k)
<1> DEFINE pos == f_pos[aesdsocket]
           rest == Device!RestOfCommand(pos)
<1>1. log \in Seq(Seq(Byte)) /\ pos \in Nat /\ FlattenSeq(log) \in Seq(Byte)
      /\ Len(FlattenSeq(log)) \in Nat
  BY FlattenProperties DEF DeviceInv
<1>2. rest = RestAt(log, pos)
  <2> DEFINE start(i) == Len(Device!FlattenSeq(SubSeq(log, 1, i - 1)))
             at == {i \in 1 .. Len(log) : start(i) <= pos /\ pos < start(i) + Len(log[i])}
             first == CHOOSE i \in at : TRUE
  <2>1. rest = IF at = {} THEN << >>
               ELSE SubSeq(log[first], pos - start(first) + 1, Len(log[first]))
    BY Zenon DEF Device!RestOfCommand
  <2>2. \A t : Device!FlattenSeq(t) = FlattenSeq(t)
    BY DEF Device!FlattenSeq, FlattenSeq
  <2>3. \A i : start(i) = LineStart(log, i - 1)
    BY <2>2 DEF LineStart
  <2>4. at = LinesAt(log, pos)
    <3> HIDE DEF start
    <3> QED BY <2>3 DEF LinesAt
  <2> HIDE DEF at, start
  <2> QED BY <2>1, <2>3, <2>4 DEF RestAt
<1> HIDE DEF rest
<1>3. RestAt(log, pos) \in Seq(Byte) /\ Len(RestAt(log, pos)) \in Nat
  BY <1>1, RestAtIsSeq
<1>4. PICK k \in Nat :
        /\ k \in 0 .. Len(RestAt(log, pos))
        /\ ubuf' = [ubuf EXCEPT ![aesdsocket] = SubSeq(RestAt(log, pos), 1, k)]
        /\ f_pos' = [f_pos EXCEPT ![aesdsocket] = @ + k]
        /\ reply' = [reply EXCEPT ![aesdsocket] = k]
        /\ UNCHANGED <<log, partial>>
  <2> DEFINE k == IF Len(rest) > count THEN count ELSE Len(rest)
  <2>1. /\ ubuf' = [ubuf EXCEPT ![aesdsocket] = SubSeq(rest, 1, k)]
        /\ f_pos' = [f_pos EXCEPT ![aesdsocket] = @ + k]
        /\ reply' = [reply EXCEPT ![aesdsocket] = k]
        /\ UNCHANGED <<log, partial>>
    BY DEF Device!Read, Device!Transferred, rest
  <2>2. k \in 0 .. Len(rest) /\ k \in Nat
    BY <1>2, <1>3
  <2> HIDE DEF k
  <2>3. /\ k \in 0 .. Len(RestAt(log, pos))
        /\ ubuf' = [ubuf EXCEPT ![aesdsocket] = SubSeq(RestAt(log, pos), 1, k)]
    BY <1>2, <2>1, <2>2
  <2> QED BY <2>1, <2>2, <2>3
<1>5. /\ pos + k <= Len(FlattenSeq(log))
      /\ SubSeq(RestAt(log, pos), 1, k) \in Seq(Byte)
      /\ SubSeq(FlattenSeq(log), 1, pos) \o SubSeq(RestAt(log, pos), 1, k)
           = SubSeq(FlattenSeq(log), 1, pos + k)
  <2>1. pos \in 0 .. Len(FlattenSeq(log))
    BY <1>1
  <2>2. k \in 0 .. Len(RestAt(log, pos)) /\ log \in Seq(Seq(Byte))
    BY <1>1, <1>4
  <2> HIDE DEF pos
  <2> QED BY <2>1, <2>2, ReadGoesOn
<1> QED BY <1>4, <1>5

-----------------------------------------------------------------------------
(* The steps of the worker. *)
LEMMA WriteKeepsAnswerInv ==
  ASSUME AnswerInv, NEW s \in Lines, Write(s)
  PROVE  AnswerInv'
<1>1. /\ server = "accept" /\ server' = "written"
      /\ path = File \/ path = aesd_major
      /\ opened' = path /\ received' = received \o s
      /\ read_data_len' = read_data_len + Len(s)
      /\ Len(received) + Len(s) <= MaxBytes
      /\ UNCHANGED <<aesd_major, path, script, read_buffer, before>>
      /\ IF path = File THEN AppendToFile(s) /\ UNCHANGED device
         ELSE /\ Device!Write(aesdsocket, s) \/ Device!Fail(aesdsocket, -1)
              /\ UNCHANGED file
  BY DEF Write, Exists, module
<1>2. /\ s \in Seq(Byte) /\ received \o s \in Seq(Byte)
      /\ Len(received \o s) = Len(received) + Len(s) /\ Len(s) \in Nat
      /\ received \in Seq(Byte) /\ Len(received) \in Nat
  BY LinesAreBytes, ConcatProperties, LenProperties DEF AnswerInv, DeviceInv
<1>3. path # Missing /\ (path = File \/ path \in Majors)
  BY <1>1, PathsAssumption DEF AnswerInv, Types
<1>4. Types'
  BY <1>1, <1>2, <1>3, PathsAssumption DEF AnswerInv, Types, PlaceInv
<1>5. CASE path = File
  <2>1. UNCHANGED <<log, partial, f_pos, ubuf, reply>> /\ AppendToFile(s)
    BY <1>1, <1>5 DEF device
  <2>2. PICK k \in 0 .. Len(s) : file' = file \o SubSeq(s, 1, k)
    BY <2>1 DEF AppendToFile
  <2>3. /\ SubSeq(s, 1, k) \in Seq(Byte) /\ Len(SubSeq(s, 1, k)) = k
        /\ k = Len(s) => SubSeq(s, 1, k) = s
    BY <1>2, <2>2, SubSeqProperties, SubSeqFull
  <2>4. /\ file \in Seq(Byte) /\ Len(file) \in Nat /\ file' \in Seq(Byte)
        /\ Len(file') = Len(file) + k
    BY <2>2, <2>3, ConcatProperties, LenProperties DEF AnswerInv, DeviceInv
  <2>5. DeviceInv'
    BY <1>1, <1>2, <1>5, <2>1, <2>4 DEF AnswerInv, DeviceInv
  <2>6. PlaceInv'
    BY <1>1, <1>3, <1>5, <2>1 DEF AnswerInv, PlaceInv
  <2>7. path \notin Majors
    BY <1>5, PathsAssumption
  <2>8. before = << >> => InFile'
    <3> SUFFICES ASSUME before = << >> PROVE InFile'
      OBVIOUS
    <3>1. file = received
      BY <1>1, <1>5 DEF AnswerInv, HistoryInv, Up, InFile, Answering
    <3>2. CASE k = Len(s)
      BY <1>1, <2>2, <2>3, <3>1, <3>2 DEF InFile
    <3>3. CASE k # Len(s)
      BY <1>1, <1>2, <2>2, <2>4, <2>7, <3>1, <3>3 DEF InFile, Answering
    <3> QED BY <3>2, <3>3
  <2>9. ReadInv' /\ HistoryInv'
    BY <1>1, <1>5, <2>1, <2>7, <2>8 DEF AnswerInv, ReadInv, HistoryInv, Up
  <2> QED BY <1>4, <2>5, <2>6, <2>9 DEF AnswerInv
<1>6. CASE path # File
  <2> DEFINE Answered(n) ==
               /\ log' \in Seq(Seq(Byte)) /\ Len(log') <= Slots /\ partial' = << >>
               /\ reply' = [reply EXCEPT ![aesdsocket] = n]
               /\ UNCHANGED <<f_pos, ubuf, file>>
               /\ EndsWith(Byte, received, FlattenSeq(log)) => InDevice'
  <2>1. PICK answer \in Int : Answered(answer)
    <3>1. CASE Device!Write(aesdsocket, s)
      <4>1. /\ log' \in Seq(Seq(Byte)) /\ Len(log') <= Slots /\ partial' = << >>
            /\ reply' = [reply EXCEPT ![aesdsocket] = Len(s)]
            /\ UNCHANGED <<f_pos, ubuf, file>>
            /\ EndsWith(Byte, received, FlattenSeq(log))
                 => EndsWith(Byte, received \o s, FlattenSeq(log'))
        BY <1>1, <1>6, <3>1, WriteGrowsLog DEF AnswerInv
      <4>2. EndsWith(Byte, received, FlattenSeq(log)) => InDevice'
        BY <1>1, <4>1 DEF InDevice
      <4>3. Answered(Len(s)) /\ Len(s) \in Int
        BY <1>2, <4>1, <4>2
      <4> HIDE DEF Answered
      <4> QED BY <4>3
    <3>2. CASE Device!Fail(aesdsocket, -1)
      <4>1. /\ reply' = [reply EXCEPT ![aesdsocket] = -1]
            /\ UNCHANGED <<log, partial, f_pos, ubuf, file>>
        BY <1>1, <1>6, <3>2 DEF Device!Fail
      <4>2. /\ log \in Seq(Seq(Byte)) /\ Len(log) <= Slots /\ partial = << >>
        BY DEF AnswerInv, DeviceInv
      <4>3. FlattenSeq(log) \in Seq(Byte) /\ Len(FlattenSeq(log)) \in Nat
        BY <4>2, FlattenProperties
      <4>4. Len(s) > 0
        BY <1>2, LinesAreBytes DEF Contains
      <4>5. EndsWith(Byte, received, FlattenSeq(log)) => InDevice'
        <5> SUFFICES ASSUME EndsWith(Byte, received, FlattenSeq(log)) PROVE InDevice'
          OBVIOUS
        <5>1. Len(FlattenSeq(log)) <= Len(received)
          BY <1>2, <4>3, EndsWithProperties
        <5>2. Len(FlattenSeq(log)) < Len(received')
          BY <1>1, <1>2, <4>3, <4>4, <5>1
        <5> QED BY <1>1, <1>6, <4>1, <5>2 DEF InDevice, Answering
      <4>6. Answered(-1) /\ -1 \in Int
        BY <4>1, <4>2, <4>5
      <4> HIDE DEF Answered
      <4> QED BY <4>6
    <3> QED BY <1>1, <1>6, <3>1, <3>2
  <2>2. reply[aesdsocket] = NoReply /\ reply'[aesdsocket] = answer /\ answer # NoReply
    BY <1>1, <2>1, ReplyAssumption DEF AnswerInv, DeviceInv
  <2>3. DeviceInv'
    BY <1>1, <1>2, <1>6, <2>1, <2>2 DEF AnswerInv, DeviceInv
  <2>4. PlaceInv'
    BY <1>1, <1>3, <1>6, PathsAssumption DEF AnswerInv, PlaceInv
  <2>5. before = << >> => InDevice'
    BY <1>1, <1>3, <1>6, <2>1 DEF AnswerInv, HistoryInv, Up, InDevice, Answering
  <2>6. ReadInv' /\ HistoryInv'
    BY <1>1, <1>3, <1>6, <2>1, <2>5 DEF AnswerInv, ReadInv, HistoryInv, Up
  <2> QED BY <1>4, <2>3, <2>4, <2>6 DEF AnswerInv
<1> QED BY <1>5, <1>6

(* The server closes the device and opens it again to read.                *)
LEMMA WrittenKeepsAnswerInv ==
  ASSUME AnswerInv, Written
  PROVE  AnswerInv'
<1>0. << >> \in Seq(Byte)
  BY EmptySeq
<1>1. /\ server = "written" /\ server' = "open" /\ opened' = Missing
      /\ UNCHANGED <<aesd_major, path, file, script, read_data_len, read_buffer,
                     received, before, log, partial, f_pos>>
      /\ \/ opened = File /\ UNCHANGED <<ubuf, reply>>
         \/ /\ reply' = [reply EXCEPT ![aesdsocket] = NoReply]
            /\ ubuf' = [ubuf EXCEPT ![aesdsocket] = << >>]
  BY DEF Written, Device!Return, device, module
<1>2. Types' /\ PlaceInv'
  BY <1>1, PathsAssumption DEF AnswerInv, Types, PlaceInv
<1>3. DeviceInv'
  BY <1>0, <1>1 DEF AnswerInv, DeviceInv
<1>4. ReadInv' /\ HistoryInv'
  BY <1>1, PathsAssumption
     DEF AnswerInv, ReadInv, HistoryInv, Up, InFile, InDevice, Answering
<1> QED BY <1>2, <1>3, <1>4 DEF AnswerInv

(* A read of the device starts at its first byte, with an empty buffer.    *)
LEMMA OpenKeepsAnswerInv ==
  ASSUME AnswerInv, Open
  PROVE  AnswerInv'
<1>0. << >> \in Seq(Byte)
  BY EmptySeq
<1>1. /\ server = "open" /\ server' = "read" /\ opened' = path
      /\ path = File \/ path = aesd_major
      /\ read_buffer' = << >>
      /\ UNCHANGED <<aesd_major, path, file, script, read_data_len, received, before,
                     log, partial, ubuf, reply>>
      /\ \/ path = File /\ UNCHANGED f_pos
         \/ path # File /\ f_pos' = [f_pos EXCEPT ![aesdsocket] = 0]
  BY DEF Open, Exists, Device!Open, device, module
<1>2. path # Missing /\ (path = File \/ path \in Majors)
  BY <1>1, PathsAssumption DEF AnswerInv, Types
<1>3. Types' /\ PlaceInv'
  BY <1>1, <1>2, PathsAssumption DEF AnswerInv, Types, PlaceInv
<1>4. DeviceInv'
  BY <1>0, <1>1 DEF AnswerInv, DeviceInv
<1>5. ubuf[aesdsocket] = << >> /\ << >> \o << >> = << >>
  BY <1>0, <1>1, ConcatEmptySeq DEF AnswerInv, DeviceInv
<1>6. Len(FlattenSeq(log)) \in Nat /\ SubSeq(FlattenSeq(log), 1, 0) = << >>
  BY FlattenProperties, SubSeqEmpty DEF AnswerInv, DeviceInv
<1>7. path # File => f_pos'[aesdsocket] = 0
  BY <1>1 DEF AnswerInv, DeviceInv
<1>8. ReadInv'
  BY <1>1, <1>5, <1>6, <1>7 DEF ReadInv
<1>9. HistoryInv'
  <2>1. Len(<< >>) = 0 /\ Len(received) \in Nat
    BY EmptySeq, LenProperties DEF AnswerInv, DeviceInv
  <2> QED BY <1>1, <1>2, <2>1, PathsAssumption
          DEF AnswerInv, HistoryInv, Up, InFile, InDevice, Answering
<1> QED BY <1>3, <1>4, <1>8, <1>9 DEF AnswerInv

(* A read leaves the next bytes of the device with the server.             *)
LEMMA ReadKeepsAnswerInv ==
  ASSUME AnswerInv, Read
  PROVE  AnswerInv'
<1>1. /\ server = "read" /\ server' = "readback" /\ opened # File
      /\ Device!Read(aesdsocket, read_data_len)
      /\ UNCHANGED <<aesd_major, path, file, script, opened, read_data_len, read_buffer,
                     received, before>>
  BY DEF Read, module, worker
<1>2. /\ f_pos[aesdsocket] <= Len(FlattenSeq(log))
      /\ read_buffer \o ubuf[aesdsocket] = SubSeq(FlattenSeq(log), 1, f_pos[aesdsocket])
      /\ ubuf[aesdsocket] = << >> /\ reply[aesdsocket] = NoReply
  BY <1>1 DEF AnswerInv, ReadInv, DeviceInv
<1>3. read_data_len \in Nat
  BY LenProperties DEF AnswerInv, Types, DeviceInv
<1>4. PICK k \in Nat, bytes \in Seq(Byte) :
        /\ ubuf' = [ubuf EXCEPT ![aesdsocket] = bytes]
        /\ f_pos' = [f_pos EXCEPT ![aesdsocket] = @ + k]
        /\ reply' = [reply EXCEPT ![aesdsocket] = k]
        /\ UNCHANGED <<log, partial>>
        /\ f_pos[aesdsocket] + k <= Len(FlattenSeq(log))
        /\ SubSeq(FlattenSeq(log), 1, f_pos[aesdsocket]) \o bytes
             = SubSeq(FlattenSeq(log), 1, f_pos[aesdsocket] + k)
  BY <1>1, <1>2, <1>3, ReadReturnsNext DEF AnswerInv
<1>5. read_buffer = SubSeq(FlattenSeq(log), 1, f_pos[aesdsocket])
  BY <1>2, ConcatEmptySeq DEF AnswerInv, DeviceInv
<1>6. /\ ubuf'[aesdsocket] = bytes /\ f_pos'[aesdsocket] = f_pos[aesdsocket] + k
      /\ reply'[aesdsocket] = k /\ k # NoReply
  BY <1>4, ReplyAssumption DEF AnswerInv, DeviceInv
<1>7. Types' /\ PlaceInv'
  BY <1>1, <1>4 DEF AnswerInv, Types, PlaceInv
<1>8. DeviceInv'
  BY <1>1, <1>4, <1>6 DEF AnswerInv, DeviceInv
<1>9. ReadInv'
  BY <1>1, <1>4, <1>5, <1>6 DEF ReadInv
<1>10. HistoryInv'
  BY <1>1, <1>4 DEF AnswerInv, HistoryInv, Up, InFile, InDevice, Answering
<1> QED BY <1>7, <1>8, <1>9, <1>10 DEF AnswerInv

(* A file is read in one go, and over and over when it is too short.       *)
LEMMA ReadFileKeepsAnswerInv ==
  ASSUME AnswerInv, ReadFile
  PROVE  AnswerInv'
<1>1. /\ server = "read" /\ opened = File
      /\ IF Len(file) < read_data_len
         THEN read_buffer' = file /\ UNCHANGED <<server, opened>>
         ELSE /\ read_buffer' = SubSeq(file, 1, read_data_len)
              /\ server' = "send" /\ opened' = Missing
      /\ UNCHANGED <<aesd_major, path, file, script, read_data_len, received, before,
                     log, partial, f_pos, ubuf, reply>>
  BY DEF ReadFile, module, device
<1>2. /\ read_data_len = Len(received) /\ file \in Seq(Byte)
      /\ Len(file) \in Nat /\ Len(received) \in Nat
  BY LenProperties DEF AnswerInv, Types, DeviceInv
<1>3. before = << >> /\ before' = << >> /\ InFile
  BY <1>1 DEF AnswerInv, HistoryInv, Up
<1>4. CASE Len(file) < read_data_len
  <2>1. read_buffer' = file /\ UNCHANGED <<server, opened>>
    BY <1>1, <1>4
  <2>2. Types' /\ PlaceInv' /\ DeviceInv'
    BY <1>1, <1>2, <2>1 DEF AnswerInv, Types, PlaceInv, DeviceInv
  <2>3. ReadInv' /\ HistoryInv'
    BY <1>1, <1>2, <1>4, <2>1
       DEF AnswerInv, ReadInv, HistoryInv, Up, InFile, InDevice, Answering
  <2> QED BY <2>2, <2>3 DEF AnswerInv
<1>5. CASE ~(Len(file) < read_data_len)
  <2>1. file = received /\ SubSeq(file, 1, Len(file)) = file
    BY <1>2, <1>3, <1>5, SubSeqFull DEF InFile
  <2>2. read_buffer' = received /\ server' = "send" /\ opened' = Missing
    BY <1>1, <1>2, <1>5, <2>1
  <2>3. Types' /\ PlaceInv'
    BY <1>1, <2>2, PathsAssumption DEF AnswerInv, Types, PlaceInv
  <2>4. DeviceInv'
    BY <1>1, <1>2, <2>1, <2>2 DEF AnswerInv, DeviceInv
  <2>5. ReadInv' /\ HistoryInv'
    BY <1>1, <2>1, <2>2, PathsAssumption
       DEF AnswerInv, ReadInv, HistoryInv, Up, InFile, InDevice
  <2> QED BY <2>3, <2>4, <2>5 DEF AnswerInv
<1> QED BY <1>4, <1>5

(* When as many bytes have been read as were received, they are all there  *)
(* are.                                                                    *)
LEMMA ReadBackKeepsAnswerInv ==
  ASSUME AnswerInv, ReadBack
  PROVE  AnswerInv'
<1> DEFINE D == FlattenSeq(log)
           pos == f_pos[aesdsocket]
<1>1. /\ server = "readback" /\ read_buffer' = read_buffer \o ubuf[aesdsocket]
      /\ IF Len(read_buffer') = read_data_len
         THEN server' = "send" /\ opened' = Missing
         ELSE server' = "read" /\ UNCHANGED opened
      /\ UNCHANGED <<aesd_major, path, file, script, read_data_len, received, before,
                     log, partial, f_pos>>
      /\ reply' = [reply EXCEPT ![aesdsocket] = NoReply]
      /\ ubuf' = [ubuf EXCEPT ![aesdsocket] = << >>]
  BY DEF ReadBack, Device!Return, module
<1>2. /\ opened # File /\ opened \in Majors
      /\ << >> \in Seq(Byte) /\ ubuf'[aesdsocket] = << >>
      /\ reply'[aesdsocket] = NoReply
  BY <1>1, EmptySeq DEF AnswerInv, PlaceInv, Types, DeviceInv
<1>3. /\ D \in Seq(Byte) /\ Len(D) \in Nat /\ pos \in Nat
      /\ pos <= Len(D) /\ read_buffer' = SubSeq(D, 1, pos)
  BY <1>1, <1>2, FlattenProperties DEF AnswerInv, DeviceInv, ReadInv
<1>4. read_buffer' \in Seq(Byte) /\ Len(read_buffer') = pos
  BY <1>3, SubSeqProperties
<1>5. read_buffer' \o << >> = read_buffer'
  BY <1>4, ConcatEmptySeq
<1> HIDE DEF D, pos
<1>6. Types' /\ PlaceInv'
  BY <1>1, <1>2, PathsAssumption DEF AnswerInv, Types, PlaceInv
<1>7. DeviceInv'
  BY <1>1, <1>2, <1>4 DEF AnswerInv, DeviceInv
<1>8. ReadInv'
  BY <1>1, <1>2, <1>3, <1>5 DEF ReadInv, D, pos
<1>9. before = << >> /\ server' = "send" => read_buffer' = received
  <2> SUFFICES ASSUME before = << >>, server' = "send"
               PROVE  read_buffer' = received
    OBVIOUS
  <2>1. received \in Seq(Byte) /\ Len(received) \in Nat /\ pos = Len(received)
    BY <1>1, <1>4, LenProperties DEF AnswerInv, Types, DeviceInv
  <2>2. EndsWith(Byte, received, D)
    BY <1>1, <1>2, <1>3, <2>1 DEF AnswerInv, HistoryInv, Up, InDevice, D
  <2>3. Len(D) <= Len(received) /\ (Len(D) = Len(received) => D = received)
    BY <1>3, <2>1, <2>2, EndsWithProperties
  <2>4. pos = Len(D) /\ D = received
    BY <1>3, <2>1, <2>3
  <2> QED BY <1>3, <2>4, SubSeqFull
<1>10. HistoryInv'
  <2>1. CASE server' = "read"
    BY <1>1, <1>2, <2>1, PathsAssumption
       DEF AnswerInv, HistoryInv, Up, InFile, InDevice, Answering
  <2>2. CASE server' = "send"
    <3>1. before = << >> => EndsWith(Byte, received, D)
      <4> SUFFICES ASSUME before = << >> PROVE EndsWith(Byte, received, D)
        OBVIOUS
      <4>1. pos = Len(received)
        BY <1>1, <1>4, <2>2 DEF AnswerInv, Types
      <4> QED BY <1>1, <1>2, <1>3, <4>1 DEF AnswerInv, HistoryInv, Up, InDevice, D
    <3> QED BY <1>1, <1>2, <1>9, <2>2, <3>1, PathsAssumption
            DEF AnswerInv, HistoryInv, Up, InFile, InDevice, D
  <2> QED BY <1>1, <2>1, <2>2
<1> QED BY <1>6, <1>7, <1>8, <1>10 DEF AnswerInv

(* The answer is sent and the next request awaited.                        *)
LEMMA SendKeepsAnswerInv ==
  ASSUME AnswerInv, Send
  PROVE  AnswerInv'
<1>1. /\ server = "send" /\ server' = "accept"
      /\ UNCHANGED <<aesd_major, path, file, script, opened, read_data_len, read_buffer,
                     received, before, log, partial, f_pos, ubuf, reply>>
  BY DEF Send, module, worker, device
<1>2. Types' /\ PlaceInv'
  BY <1>1 DEF AnswerInv, Types, PlaceInv
<1>3. DeviceInv' /\ ReadInv' /\ HistoryInv'
  BY <1>1 DEF AnswerInv, DeviceInv, ReadInv, HistoryInv, Up, InFile, InDevice, Answering
<1> QED BY <1>2, <1>3 DEF AnswerInv

(* Every step keeps the invariant.                                         *)
LEMMA NextAnswerInv == AnswerInv /\ [Next]_vars => AnswerInv'
<1> SUFFICES ASSUME AnswerInv, [Next]_vars
             PROVE  AnswerInv'
  OBVIOUS
<1>1. CASE UNCHANGED vars
  <2>1. UNCHANGED <<aesd_major, path, file, script, server, opened, read_data_len,
                    read_buffer, before, received, log, partial, f_pos, ubuf, reply>>
    BY <1>1 DEF vars, module, worker, device
  <2> QED BY <2>1 DEF AnswerInv, Types, DeviceInv, PlaceInv, ReadInv, HistoryInv, Up,
                      InFile, InDevice, Answering
<1>2. CASE Next
  BY <1>2, ScriptsKeepAnswerInv, StartKeepsAnswerInv, CreateKeepsAnswerInv,
     WriteKeepsAnswerInv, WrittenKeepsAnswerInv, OpenKeepsAnswerInv,
     ReadKeepsAnswerInv, ReadFileKeepsAnswerInv, ReadBackKeepsAnswerInv,
     SendKeepsAnswerInv, StopKeepsAnswerInv, ExitKeepsAnswerInv DEF Next
<1> QED BY <1>1, <1>2

(* The invariant holds throughout.                                         *)
LEMMA AnswerInvariant == Spec => []AnswerInv
BY InitAnswerInv, NextAnswerInv, PTL DEF Spec

(* Every variable has its type; what is open is of the loaded module, and  *)
(* the server has counted what it received.                                *)
THEOREM NodeTypes == Spec => []TypeOK
<1>1. AnswerInv /\ Flags => TypeOK
  BY DEF AnswerInv, Types, Flags, TypeOK
<1> QED BY <1>1, AnswerInvariant, FlagsInvariant, PTL

(* A server that started with nothing in the device answers with what it   *)
(* has received, wherever the path led meanwhile (aesdsocket.c:401-423).   *)
THEOREM ServerAnswersOwnLines == Spec => []AnswersOwnLines
<1>1. AnswerInv => AnswersOwnLines
  BY DEF AnswerInv, HistoryInv, Up, AnswersOwnLines
<1> QED BY <1>1, AnswerInvariant, PTL

(* A buffer of lines that were all received since the server started is no *)
(* longer than what was received.                                          *)
LEMMA AnswerInvExcludesOverrun ==
  ASSUME AnswerInv
  PROVE  OverrunNeedsHistory
<1> SUFFICES ASSUME server \in {"read", "readback", "send"}, before = << >>
             PROVE  ~(Len(read_buffer) > read_data_len)
  BY DEF OverrunNeedsHistory
<1>1. /\ received \in Seq(Byte) /\ Len(received) \in Nat
      /\ read_data_len = Len(received) /\ Up
      /\ read_buffer \in Seq(Byte) /\ Len(read_buffer) \in Nat
  BY LenProperties DEF AnswerInv, Types, DeviceInv, Up
<1>2. CASE server = "send"
  BY <1>1, <1>2 DEF AnswerInv, HistoryInv
<1>3. CASE server \in {"read", "readback"} /\ opened = File
  <2>1. Len(read_buffer) <= Len(received)
    BY <1>1, <1>3 DEF AnswerInv, HistoryInv, PlaceInv
  <2> QED BY <1>1, <2>1
<1>4. CASE server \in {"read", "readback"} /\ opened # File
  <2> DEFINE D == FlattenSeq(log)
             pos == f_pos[aesdsocket]
  <2>1. /\ D \in Seq(Byte) /\ Len(D) \in Nat /\ pos \in Nat /\ pos <= Len(D)
        /\ ubuf[aesdsocket] \in Seq(Byte)
        /\ read_buffer \o ubuf[aesdsocket] = SubSeq(D, 1, pos)
    BY <1>4, FlattenProperties DEF AnswerInv, DeviceInv, ReadInv
  <2>2. Len(SubSeq(D, 1, pos)) = pos
    BY <2>1, SubSeqProperties
  <2>3. Len(ubuf[aesdsocket]) \in Nat
        /\ Len(read_buffer \o ubuf[aesdsocket])
             = Len(read_buffer) + Len(ubuf[aesdsocket])
    BY <1>1, <2>1, ConcatProperties, LenProperties
  <2>4. InDevice
    BY <1>1, <1>4 DEF AnswerInv, HistoryInv, Types, PlaceInv
  <2>5. Len(D) <= Len(received)
    BY <1>1, <2>1, <2>4, EndsWithProperties DEF InDevice
  <2> HIDE DEF D, pos
  <2> QED BY <1>1, <2>1, <2>2, <2>3, <2>5
<1> QED BY <1>2, <1>3, <1>4

(* A server runs past the end of its buffer only where the device held     *)
(* lines before it started (aesdsocket.c:168-178, 410).                    *)
THEOREM OverrunOnlyWithHistory == Spec => []OverrunNeedsHistory
BY AnswerInvExcludesOverrun, AnswerInvariant, PTL

=============================================================================
