-------------------------- MODULE AesdSocketProofs --------------------------
(***************************************************************************)
(* The socket server, for any number of clients and whatever they send:    *)
(* who owns the shared buffers and the descriptors, that the length the     *)
(* server counts is that of what the device holds, and that all clients see *)
(* one history.  Four layers, each on top of the ones before:               *)
(*   ControlInv     where main, the handler and the workers can be at once; *)
(*   DescriptorInv  what each descriptor is open on, and who knows it;      *)
(*   LengthInv      how many bytes are written, counted and read;           *)
(*   AnswerInv      which bytes these are.                                  *)
(***************************************************************************)
EXTENDS AesdSocket, SequenceLemmas, FiniteSetTheorems

(* Places of a worker that receives a line and writes it. *)
Writing == {"recv", "open_write", "write", "written"}
(* Places of a worker between its open and the end of its answer.          *)
Reading == {"read", "readback", "send"}
(* Places of a worker that holds the mutex (aesdsocket.c:355-435).         *)
Section == Writing \cup Reading \cup {"open", "unlock"}
(* Places of a worker whose thread was created.                            *)
Started == {"lock"} \cup Section \cup {"complete", "close", "exited"}

(* Where main is, or was when the signal came. *)
Phase ==
  IF main \in {"close", "close_sockfd", "close_accepted", "free", "delete"}
  THEN resume
  ELSE main

(* The bytes a client may send, and one of an uninitialized buffer.        *)
Byte == (UNION {UNION {Range(s.message[c]) : c \in DOMAIN s.message} : s \in Scenarios})
          \cup {JUNK}

(* Types of what the control state is made of.                             *)
Types ==
  /\ main \in {"start", "create_file", "listen", "accept", "insert", "create", "join",
               "wait", "close", "close_sockfd", "close_accepted", "free", "delete",
               "ended"}
  /\ resume \in {"none", "create_file", "listen", "accept", "insert", "create", "join",
                 "wait"}
  /\ pc \in [Clients -> {"away", "connected", "accepted"} \cup Started]
  /\ is_thread_complete \in [Clients -> BOOLEAN]
  /\ mutex_lock \in Clients \cup {NoClient}
  /\ freed \subseteq {"recv_data", "read_buffer", "list"}

(* Nobody is accepted before the file has been created, and one client at  *)
(* a time is between its accept and its thread.                            *)
MainInv ==
  /\ main \in {"close", "close_sockfd", "close_accepted", "free", "delete"} => resume # "none"
  /\ main = "start" => resume = "none"
  /\ Phase \in {"start", "create_file"} => \A c \in Clients : pc[c] \in {"away", "connected"}
  /\ \A c \in Clients : pc[c] = "accepted" => Phase \in {"insert", "create", "ended"}
  /\ \A c, d \in Clients : pc[c] = "accepted" /\ pc[d] = "accepted" => c = d

(* A client has one node, which it gets before its thread. *)
ListInv ==
  /\ list \in Seq(Clients) /\ IsInjective(list)
  /\ cursor \in 1 .. Cardinality(Clients) + 1
  /\ Phase = "wait" => cursor <= Len(list)
  /\ \A i \in 1 .. Len(list) :
       pc[list[i]] \in Started \/ (pc[list[i]] = "accepted" /\ Phase # "insert")

(* Only a client whose thread was created has a pthread_t, and only        *)
(* threads that have exited are joined.                                    *)
ThreadInv ==
  /\ thread_id \in [Clients -> 0 .. Cardinality(Clients)]
  /\ \A c \in Clients : thread_id[c] # 0 => pc[c] \in Started
  /\ joined \subseteq {c \in Clients : pc[c] = "exited"}

(* Exactly the worker inside the section holds the mutex.                  *)
MutexInv == \A c \in Clients : pc[c] \in Section <=> mutex_lock = c

(* Each buffer is in use while the holder of the mutex is where it needs   *)
(* it.                                                                     *)
BufferInv ==
  /\ scenario \in Scenarios
  /\ \A c \in Clients : pc[c] # "away" => c \in DOMAIN scenario.message
  /\ consumed \in [Clients -> Nat]
  /\ read_data_len \in Nat
  /\ \A c \in Clients : pc[c] \in Writing => recv_data \in Seq(Byte)
  /\ (\A c \in Clients : pc[c] \notin Writing) => recv_data = NULL
  /\ (\A c \in Clients : pc[c] \notin Reading) => read_buffer = NULL

(* The first layer: who runs, who holds the mutex and the buffers.         *)
ControlInv == Types /\ MainInv /\ ListInv /\ ThreadInv /\ MutexInv /\ BufferInv

-----------------------------------------------------------------------------
(* Messages are bytes, and their parts. *)
LEMMA MessagesAreBytes ==
  ASSUME NEW s \in Scenarios, NEW c \in DOMAIN s.message
  PROVE  s.message[c] \in Seq(Byte)
<1>1. s.message[c] \in Seq(Range(s.message[c]))
  BY ScenariosAssumption
<1>2. Range(s.message[c]) \subseteq Byte
  <2> DEFINE bytes(r) == UNION {Range(r.message[d]) : d \in DOMAIN r.message}
  <2>1. Range(s.message[c]) \subseteq bytes(s)
    OBVIOUS
  <2>2. Byte = (UNION {bytes(r) : r \in Scenarios}) \cup {JUNK}
    BY DEF Byte
  <2> QED BY <2>1, <2>2
<1> QED BY <1>1, <1>2, SeqMonotonic

(* A part of a sequence, by its ends.                                      *)
LEMMA PartIsSeq ==
  ASSUME NEW S, NEW s \in Seq(S), NEW m \in Nat, NEW n \in Nat, m + n <= Len(s)
  PROVE  /\ SubSeq(s, m + 1, m + n) \in Seq(S)
         /\ Len(SubSeq(s, m + 1, m + n)) = n
<1>1. Len(s) \in Nat /\ \A i \in 1 .. Len(s) : s[i] \in S
  BY LenProperties, ElementOfSeq
<1>2. \A i \in m + 1 .. m + n : s[i] \in S
  BY <1>1
<1> QED BY <1>2, SubSeqProperties

(* What is left of a freed buffer is as long as it was, and has been       *)
(* overwritten where it is not what it was.                                *)
LEMMA RemainsProperties ==
  ASSUME NEW S, JUNK \in S, NEW s \in Seq(S), NEW t \in Remains(s)
  PROVE  t \in Seq(S) /\ Len(t) = Len(s) /\ (t = s \/ JUNK \in Range(t))
<1> DEFINE u == [i \in DOMAIN s |-> JUNK]
<1>1. Len(s) \in Nat /\ DOMAIN s = 1 .. Len(s)
  BY LenProperties
<1>2. u \in [1 .. Len(s) -> S]
  BY <1>1
<1>3. u \in Seq(S) /\ Len(u) = Len(s)
  BY <1>1, <1>2, SeqDef, LenProperties
<1>4. u = s \/ JUNK \in Range(u)
  <2>1. CASE Len(s) = 0
    BY <1>3, <2>1, EmptySeq
  <2>2. CASE Len(s) # 0
    <3>1. 1 \in DOMAIN u /\ u[1] = JUNK
      BY <1>1, <2>2
    <3> QED BY <3>1 DEF Range
  <2> QED BY <2>1, <2>2
<1>5. t = s \/ t = u
  BY DEF Remains
<1> QED BY <1>3, <1>4, <1>5

(* A list in which no client comes twice is no longer than there are       *)
(* clients.                                                                *)
LEMMA InjectiveIsShort ==
  ASSUME NEW s \in Seq(Clients), IsInjective(s)
  PROVE  Len(s) <= Cardinality(Clients)
<1>1. Len(s) \in Nat /\ DOMAIN s = 1 .. Len(s) /\ s \in [1 .. Len(s) -> Clients]
  BY LenProperties
<1>2. Cardinality(1 .. Len(s)) = Len(s) /\ IsFiniteSet(1 .. Len(s))
  BY <1>1, FS_Interval
<1>3. \A i, j \in 1 .. Len(s) : s[i] = s[j] => i = j
  BY <1>1 DEF IsInjective
<1>4. Cardinality(Clients) \in Nat
  BY ClientsAssumption, FS_CardinalityType
<1>5. ~ (Cardinality(Clients) < Cardinality(1 .. Len(s)))
  BY <1>1, <1>2, <1>3, ClientsAssumption, FS_PigeonHole
<1> QED BY <1>1, <1>2, <1>4, <1>5

(* There are pthread_t enough between 1 and the number of clients. *)
LEMMA NewThreadsBound ==
  ASSUME ThreadInv, NEW c \in Clients, pc[c] = "accepted", NEW t \in NewThreads
  PROVE  t \in 0 .. Cardinality(Clients)
<1> DEFINE W == Running \cup joined
           used == {thread_id[w] : w \in W}
           f == [w \in W |-> thread_id[w]]
<1>1. W \subseteq Clients \ {c}
  BY DEF Running, ThreadInv, Started, Section, Writing, Reading
<1>2. IsFiniteSet(Clients \ {c}) /\ Cardinality(Clients \ {c}) = Cardinality(Clients) - 1
  BY ClientsAssumption, FS_RemoveElement
<1>3. IsFiniteSet(W) /\ Cardinality(W) <= Cardinality(Clients \ {c})
  BY <1>1, <1>2, FS_Subset
<1>4. f \in Surjection(W, used)
  BY DEF Surjection
<1>5. IsFiniteSet(used) /\ Cardinality(used) <= Cardinality(W)
  BY <1>3, <1>4, FS_Surjection
<1>6. /\ Cardinality(Clients) \in Nat /\ Cardinality(W) \in Nat /\ Cardinality(used) \in Nat
  BY <1>3, <1>5, ClientsAssumption, FS_CardinalityType
<1>7. used \subseteq 0 .. Cardinality(Clients)
  BY <1>1 DEF ThreadInv
<1>8. t = Cardinality(used) + 1 \/ t \in used
  BY DEF NewThreads
<1> HIDE DEF W, used, f
<1>9. Cardinality(used) + 1 \in 0 .. Cardinality(Clients)
  BY <1>2, <1>3, <1>5, <1>6
<1> QED BY <1>7, <1>8, <1>9

-----------------------------------------------------------------------------
(* ControlInv holds at the start, and where the process ends. *)
LEMMA InitControlInv == Init => ControlInv
<1> SUFFICES ASSUME Init PROVE ControlInv
  OBVIOUS
<1>1. Types /\ MainInv
  BY DEF Init, Types, MainInv, Phase
<1>2. Cardinality(Clients) \in Nat
  BY ClientsAssumption, FS_CardinalityType
<1>3. << >> \in Seq(Clients) /\ Len(<< >>) = 0 /\ IsInjective(<< >>)
  BY EmptySeq DEF IsInjective
<1>4. ListInv
  BY <1>2, <1>3 DEF Init, ListInv, Phase
<1>5. ThreadInv
  BY <1>2 DEF Init, ThreadInv
<1>6. MutexInv
  BY ClientsAssumption DEF Init, MutexInv, Section, Writing, Reading
<1>7. BufferInv
  BY DEF Init, BufferInv, Writing, Reading
<1> QED BY <1>1, <1>4, <1>5, <1>6, <1>7 DEF ControlInv

(* exit() ends the process, with everything else where it is.              *)
LEMMA ExitKeepsControlInv ==
  ASSUME ControlInv, Exit
  PROVE  ControlInv'
<1>1. /\ main' = "ended"
      /\ UNCHANGED <<scenario, pc, resume, cursor, list, thread_id, joined, conn,
                     is_thread_complete, mutex_lock, recv_data, read_buffer,
                     read_data_len, freed, consumed>>
  BY DEF Exit, process, place, nodes, buffers, clients
<1>2. Types' /\ MainInv'
  BY <1>1 DEF ControlInv, Types, MainInv, Phase
<1>3. ListInv' /\ ThreadInv' /\ MutexInv' /\ BufferInv'
  BY <1>1 DEF ControlInv, ListInv, ThreadInv, MutexInv, BufferInv, Phase
<1> QED BY <1>2, <1>3 DEF ControlInv

(* Only the holder of the mutex is between lock and unlock. *)
LEMMA HolderIsAlone ==
  ASSUME MutexInv, NEW c \in Clients, pc[c] \in Section
  PROVE  mutex_lock = c /\ \A d \in Clients \ {c} : pc[d] \notin Section
BY DEF MutexInv

(* What main has to do with a worker does not change while that runs. *)
LEMMA WorkerMoves ==
  ASSUME ControlInv, NEW c \in Clients, pc[c] \in Started \ {"exited"},
         NEW label \in Started, Goto(c, label),
         UNCHANGED <<main, resume, cursor, list, thread_id, joined>>
  PROVE  /\ MainInv' /\ ListInv' /\ ThreadInv'
         /\ pc' \in [Clients -> {"away", "connected", "accepted"} \cup Started]
         /\ pc'[c] = label /\ \A d \in Clients \ {c} : pc'[d] = pc[d]
<1>1. /\ pc \in [Clients -> {"away", "connected", "accepted"} \cup Started]
      /\ pc' = [pc EXCEPT ![c] = label]
  BY DEF Goto, ControlInv, Types
<1>2. /\ pc' \in [Clients -> {"away", "connected", "accepted"} \cup Started]
      /\ pc'[c] = label /\ \A d \in Clients \ {c} : pc'[d] = pc[d]
  BY <1>1
<1>3. "accepted" \notin Started /\ "away" \notin Started /\ "connected" \notin Started
  BY DEF Started, Section, Writing, Reading
<1>4. MainInv'
  BY <1>2, <1>3 DEF ControlInv, MainInv, Phase
<1>5. ListInv'
  <2>1. \A i \in 1 .. Len(list) : list[i] \in Clients
    BY ElementOfSeq DEF ControlInv, ListInv
  <2>2. ASSUME NEW i \in 1 .. Len(list)
        PROVE  pc'[list[i]] \in Started \/ (pc'[list[i]] = "accepted" /\ Phase # "insert")
    BY <1>2, <2>1 DEF ControlInv, ListInv
  <2> QED BY <2>2 DEF ControlInv, ListInv, Phase
<1>6. ThreadInv'
  BY <1>2 DEF ControlInv, ThreadInv
<1> QED BY <1>2, <1>4, <1>5, <1>6

(* As long as it holds the mutex, the worker shares it with nobody. *)
LEMMA HolderMoves ==
  ASSUME ControlInv, NEW c \in Clients, pc[c] \in Section,
         NEW label \in Section, Goto(c, label),
         UNCHANGED <<main, resume, cursor, list, thread_id, joined, is_thread_complete,
                     mutex_lock>>,
         freed' \subseteq freed
  PROVE  /\ Types' /\ MainInv' /\ ListInv' /\ ThreadInv' /\ MutexInv'
         /\ pc'[c] = label /\ \A d \in Clients \ {c} : pc'[d] = pc[d] /\ pc[d] \notin Section
<1>1. pc[c] \in Started \ {"exited"} /\ label \in Started
  BY DEF Started, Section, Writing, Reading
<1>2. /\ MainInv' /\ ListInv' /\ ThreadInv'
      /\ pc' \in [Clients -> {"away", "connected", "accepted"} \cup Started]
      /\ pc'[c] = label /\ \A d \in Clients \ {c} : pc'[d] = pc[d]
  BY <1>1, WorkerMoves
<1>3. mutex_lock = c /\ \A d \in Clients \ {c} : pc[d] \notin Section
  BY HolderIsAlone DEF ControlInv
<1>4. Types'
  BY <1>2 DEF ControlInv, Types
<1>5. MutexInv'
  BY <1>2, <1>3 DEF MutexInv
<1> QED BY <1>2, <1>3, <1>4, <1>5

(* A step within the section: the buffers stay with the worker that holds  *)
(* the mutex.                                                              *)
LEMMA HolderKeepsControlInv ==
  ASSUME ControlInv, NEW c \in Clients, pc[c] \in Section,
         NEW label \in Section, Goto(c, label),
         UNCHANGED <<scenario, main, resume, cursor, list, thread_id, joined,
                     is_thread_complete, mutex_lock>>,
         freed' \subseteq freed,
         consumed' \in [Clients -> Nat], read_data_len' \in Nat,
         IF label \in Writing THEN recv_data' \in Seq(Byte) ELSE recv_data' = NULL,
         label \notin Reading => read_buffer' = NULL
  PROVE  ControlInv'
<1>1. /\ Types' /\ MainInv' /\ ListInv' /\ ThreadInv' /\ MutexInv'
      /\ pc'[c] = label /\ \A d \in Clients \ {c} : pc'[d] = pc[d] /\ pc[d] \notin Section
  BY HolderMoves
<1>2. \A d \in Clients \ {c} : pc'[d] \notin Writing /\ pc'[d] \notin Reading
  BY <1>1 DEF Section
<1>3. pc[c] # "away" /\ label # "away"
  BY DEF Section, Writing, Reading
<1>4. BufferInv'
  BY <1>1, <1>2, <1>3 DEF ControlInv, BufferInv
<1> QED BY <1>1, <1>4 DEF ControlInv

(* What a worker has in its buffers. *)
LEMMA HolderHas ==
  ASSUME ControlInv, NEW c \in Clients, pc[c] \in Section
  PROVE  /\ pc[c] \in Writing => recv_data \in Seq(Byte) /\ Len(recv_data) \in Nat
         /\ pc[c] \notin Writing => recv_data = NULL
         /\ pc[c] \notin Reading => read_buffer = NULL
         /\ consumed \in [Clients -> Nat] /\ read_data_len \in Nat
         /\ scenario \in Scenarios /\ c \in DOMAIN scenario.message
         /\ scenario.message[c] \in Seq(Byte)
<1>1. \A d \in Clients \ {c} : pc[d] \notin Writing /\ pc[d] \notin Reading
  BY HolderIsAlone DEF ControlInv, Section
<1>2. pc[c] # "away"
  BY DEF Section, Writing, Reading
<1>3. scenario \in Scenarios /\ c \in DOMAIN scenario.message
  BY <1>2 DEF ControlInv, BufferInv
<1>4. pc[c] \in Writing => recv_data \in Seq(Byte) /\ Len(recv_data) \in Nat
  BY LenProperties DEF ControlInv, BufferInv
<1> QED BY <1>1, <1>3, <1>4, MessagesAreBytes DEF ControlInv, BufferInv

-----------------------------------------------------------------------------
(* The worker's steps. *)

(* A recv adds the next bytes of the client's message, one or more. *)
LEMMA RecvReceives ==
  ASSUME ControlInv, NEW c \in Clients, Recv(c)
  PROVE  /\ pc[c] = "recv" /\ recv_data \in Seq(Byte) /\ recv_data' \in Seq(Byte)
         /\ \E n \in 1 .. recv_len :
              /\ consumed[c] + n <= Len(scenario.message[c])
              /\ consumed' = [consumed EXCEPT ![c] = @ + n]
              /\ recv_data' = recv_data \o SubSeq(scenario.message[c], consumed[c] + 1, consumed[c] + n)
         /\ Goto(c, "open_write") \/ UNCHANGED pc
<1>1. PICK n \in 1 .. recv_len :
        /\ consumed[c] + n <= Len(scenario.message[c])
        /\ consumed' = [consumed EXCEPT ![c] = @ + n]
        /\ recv_data' = recv_data \o SubSeq(scenario.message[c], consumed[c] + 1, consumed[c] + n)
        /\ IF Last(recv_data') = NL THEN Goto(c, "open_write") ELSE UNCHANGED pc
  BY DEF Recv
<1>2. pc[c] = "recv"
  BY DEF Recv, At
<1>3. /\ recv_data \in Seq(Byte) /\ scenario.message[c] \in Seq(Byte)
      /\ consumed[c] \in Nat
  BY <1>2, HolderHas DEF Section, Writing
<1>4. n \in Nat
  BY RecvAssumption
<1>5. SubSeq(scenario.message[c], consumed[c] + 1, consumed[c] + n) \in Seq(Byte)
  BY <1>1, <1>3, <1>4, PartIsSeq
<1>6. recv_data' \in Seq(Byte)
  BY <1>1, <1>3, <1>5, ConcatProperties
<1> QED BY <1>1, <1>2, <1>3, <1>6

(* More bytes of the line, which may complete it.                          *)
LEMMA RecvKeepsControlInv ==
  ASSUME ControlInv, NEW c \in Clients, Recv(c)
  PROVE  ControlInv'
<1>1. /\ pc[c] = "recv" /\ recv_data \in Seq(Byte) /\ recv_data' \in Seq(Byte)
      /\ Goto(c, "open_write") \/ UNCHANGED pc
  BY RecvReceives
<1>2. PICK n \in 1 .. recv_len : consumed' = [consumed EXCEPT ![c] = @ + n]
  BY DEF Recv
<1>3. consumed' \in [Clients -> Nat]
  BY <1>2, RecvAssumption DEF ControlInv, BufferInv
<1>4. UNCHANGED <<scenario, main, resume, cursor, list, thread_id, joined,
                  is_thread_complete, mutex_lock, read_buffer, read_data_len, freed>>
  BY DEF Recv, place, nodes
<1>5. pc[c] \in Section /\ "recv" \in Writing /\ "recv" \notin Reading
      /\ "open_write" \in Section /\ "open_write" \in Writing /\ "open_write" \notin Reading
  BY <1>1 DEF Section, Writing, Reading
<1>6. read_buffer = NULL /\ read_data_len \in Nat
  BY <1>1, <1>5, HolderHas
<1>7. CASE Goto(c, "open_write")
  BY <1>1, <1>3, <1>4, <1>5, <1>6, <1>7, HolderKeepsControlInv
<1>8. CASE UNCHANGED pc
  <2>1. Goto(c, "recv")
    BY <1>1, <1>8 DEF Goto, ControlInv, Types
  <2> QED BY <1>1, <1>3, <1>4, <1>5, <1>6, <2>1, HolderKeepsControlInv
<1> QED BY <1>1, <1>7, <1>8

(* The device is opened to write the line received.                        *)
LEMMA OpenToWriteKeepsControlInv ==
  ASSUME ControlInv, NEW c \in Clients, OpenToWrite(c)
  PROVE  ControlInv'
<1>1. /\ pc[c] = "open_write" /\ Goto(c, "write")
      /\ UNCHANGED <<scenario, main, resume, cursor, list, thread_id, joined,
                     is_thread_complete, mutex_lock, recv_data, read_buffer,
                     read_data_len, freed, consumed>>
  BY DEF OpenToWrite, At, place, nodes, buffers, clients
<1>2. /\ {pc[c], "write"} \subseteq Section /\ {pc[c], "write"} \subseteq Writing
      /\ pc[c] \notin Reading /\ "write" \notin Reading
  BY <1>1 DEF Section, Writing, Reading
<1>3. recv_data \in Seq(Byte) /\ read_buffer = NULL
      /\ consumed \in [Clients -> Nat] /\ read_data_len \in Nat
  BY <1>2, HolderHas
<1> QED BY <1>1, <1>2, <1>3, HolderKeepsControlInv

(* The line is written.                                                    *)
LEMMA WriteKeepsControlInv ==
  ASSUME ControlInv, NEW c \in Clients, Write(c)
  PROVE  ControlInv'
<1>1. /\ pc[c] = "write" /\ Goto(c, "written")
      /\ UNCHANGED <<scenario, main, resume, cursor, list, thread_id, joined,
                     is_thread_complete, mutex_lock, recv_data, read_buffer,
                     read_data_len, freed, consumed>>
  BY DEF Write, At, process, place, nodes, buffers, clients
<1>2. /\ {pc[c], "written"} \subseteq Section /\ {pc[c], "written"} \subseteq Writing
      /\ pc[c] \notin Reading /\ "written" \notin Reading
  BY <1>1 DEF Section, Writing, Reading
<1>3. recv_data \in Seq(Byte) /\ read_buffer = NULL
      /\ consumed \in [Clients -> Nat] /\ read_data_len \in Nat
  BY <1>2, HolderHas
<1> QED BY <1>1, <1>2, <1>3, HolderKeepsControlInv

(* The line has been counted and its buffer freed.                         *)
LEMMA WrittenKeepsControlInv ==
  ASSUME ControlInv, NEW c \in Clients, Written(c)
  PROVE  ControlInv'
<1>1. /\ pc[c] = "written" /\ Goto(c, "open") /\ recv_data' = NULL
      /\ read_data_len' = read_data_len + Len(recv_data) /\ freed' \subseteq freed
      /\ UNCHANGED <<scenario, main, resume, cursor, list, thread_id, joined,
                     is_thread_complete, mutex_lock, read_buffer, consumed>>
  BY DEF Written, At, place, nodes, clients
<1>2. /\ pc[c] \in Section /\ pc[c] \in Writing /\ pc[c] \notin Reading
      /\ "open" \in Section /\ "open" \notin Writing /\ "open" \notin Reading
  BY <1>1 DEF Section, Writing, Reading
<1>3. Len(recv_data) \in Nat /\ read_buffer = NULL
      /\ consumed \in [Clients -> Nat] /\ read_data_len \in Nat
  BY <1>2, HolderHas
<1>4. read_data_len' \in Nat
  BY <1>1, <1>3
<1> QED BY <1>1, <1>2, <1>3, <1>4, HolderKeepsControlInv

(* The device is opened to read, and a buffer allocated for the answer.    *)
LEMMA OpenKeepsControlInv ==
  ASSUME ControlInv, NEW c \in Clients, Open(c)
  PROVE  ControlInv'
<1>1. /\ pc[c] = "open" /\ Goto(c, "read")
      /\ UNCHANGED <<scenario, main, resume, cursor, list, thread_id, joined,
                     is_thread_complete, mutex_lock, recv_data, read_data_len, freed,
                     consumed>>
  BY DEF Open, At, place, nodes, clients
<1>2. /\ pc[c] \in Section /\ pc[c] \notin Writing
      /\ "read" \in Section /\ "read" \notin Writing /\ "read" \in Reading
  BY <1>1 DEF Section, Writing, Reading
<1>3. recv_data = NULL /\ consumed \in [Clients -> Nat] /\ read_data_len \in Nat
  BY <1>2, HolderHas
<1> QED BY <1>1, <1>2, <1>3, HolderKeepsControlInv

(* A read of the device has begun.                                         *)
LEMMA ReadKeepsControlInv ==
  ASSUME ControlInv, NEW c \in Clients, Read(c)
  PROVE  ControlInv'
<1>1. /\ pc[c] = "read" /\ Goto(c, "readback")
      /\ UNCHANGED <<scenario, main, resume, cursor, list, thread_id, joined,
                     is_thread_complete, mutex_lock, recv_data, read_data_len, freed,
                     consumed>>
  BY DEF Read, At, process, place, nodes, buffers, clients
<1>2. /\ pc[c] \in Section /\ pc[c] \notin Writing
      /\ "readback" \in Section /\ "readback" \notin Writing /\ "readback" \in Reading
  BY <1>1 DEF Section, Writing, Reading
<1>3. recv_data = NULL /\ consumed \in [Clients -> Nat] /\ read_data_len \in Nat
  BY <1>2, HolderHas
<1> QED BY <1>1, <1>2, <1>3, HolderKeepsControlInv

(* A read of the device has been added to the answer.                      *)
LEMMA ReadBackKeepsControlInv ==
  ASSUME ControlInv, NEW c \in Clients, ReadBack(c)
  PROVE  ControlInv'
<1>1. PICK label \in {"read", "send"} : Goto(c, label)
  BY DEF ReadBack
<1>2. /\ pc[c] = "readback"
      /\ UNCHANGED <<scenario, main, resume, cursor, list, thread_id, joined,
                     is_thread_complete, mutex_lock, recv_data, read_data_len, freed,
                     consumed>>
  BY DEF ReadBack, At, place, nodes, clients
<1>3. /\ pc[c] \in Section /\ pc[c] \notin Writing
      /\ label \in Section /\ label \notin Writing /\ label \in Reading
  BY <1>1, <1>2 DEF Section, Writing, Reading
<1>4. recv_data = NULL /\ consumed \in [Clients -> Nat] /\ read_data_len \in Nat
  BY <1>3, HolderHas
<1> QED BY <1>1, <1>2, <1>3, <1>4, HolderKeepsControlInv

(* The answer is sent and its buffer freed.                                *)
LEMMA SendKeepsControlInv ==
  ASSUME ControlInv, NEW c \in Clients, Send(c)
  PROVE  ControlInv'
<1>1. /\ pc[c] = "send" /\ Goto(c, "unlock") /\ read_buffer' = NULL /\ freed' \subseteq freed
      /\ UNCHANGED <<scenario, main, resume, cursor, list, thread_id, joined,
                     is_thread_complete, mutex_lock, recv_data, read_data_len, consumed>>
  BY DEF Send, At, place, nodes
<1>2. /\ pc[c] \in Section /\ pc[c] \notin Writing
      /\ "unlock" \in Section /\ "unlock" \notin Writing
  BY <1>1 DEF Section, Writing, Reading
<1>3. recv_data = NULL /\ consumed \in [Clients -> Nat] /\ read_data_len \in Nat
  BY <1>2, HolderHas
<1> QED BY <1>1, <1>2, <1>3, HolderKeepsControlInv

(* The steps around the section: the mutex is free to take, and given back. *)
LEMMA LockKeepsControlInv ==
  ASSUME ControlInv, NEW c \in Clients, Lock(c)
  PROVE  ControlInv'
<1>1. /\ pc[c] = "lock" /\ Goto(c, "recv") /\ mutex_lock = NoClient /\ mutex_lock' = c
      /\ recv_data' = << >>
      /\ UNCHANGED <<scenario, main, resume, cursor, list, thread_id, joined,
                     is_thread_complete, read_buffer, read_data_len, freed, consumed>>
  BY DEF Lock, At, place, nodes, clients
<1>2. \A d \in Clients : pc[d] \notin Section
  BY <1>1, ClientsAssumption DEF ControlInv, MutexInv
<1>3. /\ pc[c] \in Started \ {"exited"} /\ "recv" \in Started
      /\ "recv" \in Section /\ "recv" \notin Reading
  BY <1>1 DEF Started, Section, Writing, Reading
<1>4. /\ MainInv' /\ ListInv' /\ ThreadInv'
      /\ pc' \in [Clients -> {"away", "connected", "accepted"} \cup Started]
      /\ pc'[c] = "recv" /\ \A d \in Clients \ {c} : pc'[d] = pc[d]
  BY <1>1, <1>3, WorkerMoves
<1>5. Types'
  BY <1>1, <1>4 DEF ControlInv, Types
<1>6. MutexInv'
  BY <1>1, <1>2, <1>3, <1>4 DEF MutexInv
<1>7. << >> \in Seq(Byte) /\ \A d \in Clients \ {c} : pc[d] \notin Writing \cup Reading
  BY <1>2, EmptySeq DEF Section
<1>8. \A d \in Clients : pc[d] \notin Reading
  BY <1>2 DEF Section
<1>9. BufferInv'
  BY <1>1, <1>3, <1>4, <1>7, <1>8 DEF ControlInv, BufferInv, Writing
<1> QED BY <1>4, <1>5, <1>6, <1>9 DEF ControlInv

(* The mutex is released with no buffer left behind.                       *)
LEMMA UnlockKeepsControlInv ==
  ASSUME ControlInv, NEW c \in Clients, Unlock(c)
  PROVE  ControlInv'
<1>1. /\ pc[c] = "unlock" /\ Goto(c, "complete") /\ mutex_lock' = NoClient
      /\ UNCHANGED <<scenario, main, resume, cursor, list, thread_id, joined, recv_data,
                     is_thread_complete, read_buffer, read_data_len, freed, consumed>>
  BY DEF Unlock, At, place, nodes, buffers, clients
<1>2. /\ pc[c] \in Started \ {"exited"} /\ "complete" \in Started
      /\ pc[c] \in Section /\ pc[c] \notin Writing /\ pc[c] \notin Reading
      /\ "complete" \notin Section
  BY <1>1 DEF Started, Section, Writing, Reading
<1>3. \A d \in Clients \ {c} : pc[d] \notin Section
  BY <1>2, HolderIsAlone DEF ControlInv
<1>4. /\ MainInv' /\ ListInv' /\ ThreadInv'
      /\ pc' \in [Clients -> {"away", "connected", "accepted"} \cup Started]
      /\ pc'[c] = "complete" /\ \A d \in Clients \ {c} : pc'[d] = pc[d]
  BY <1>1, <1>2, WorkerMoves
<1>5. Types'
  BY <1>1, <1>4 DEF ControlInv, Types
<1>6. MutexInv'
  BY <1>1, <1>2, <1>3, <1>4, ClientsAssumption DEF MutexInv
<1>7. \A d \in Clients : pc'[d] \notin Writing /\ pc'[d] \notin Reading
                         /\ pc[d] \notin Writing /\ pc[d] \notin Reading
  BY <1>2, <1>3, <1>4 DEF Section
<1>8. BufferInv'
  BY <1>1, <1>4, <1>7 DEF ControlInv, BufferInv
<1> QED BY <1>4, <1>5, <1>6, <1>8 DEF ControlInv

(* Outside the section a worker touches nothing that is shared. *)
LEMMA FreeWorkerKeepsControlInv ==
  ASSUME ControlInv, NEW c \in Clients, pc[c] \in {"complete", "close"},
         NEW label \in {"close", "exited"}, Goto(c, label),
         UNCHANGED <<scenario, main, resume, cursor, list, thread_id, joined,
                     mutex_lock, recv_data, read_buffer, read_data_len, freed, consumed>>,
         is_thread_complete' \in [Clients -> BOOLEAN]
  PROVE  ControlInv'
<1>1. /\ pc[c] \in Started \ {"exited"} /\ label \in Started
      /\ pc[c] \notin Section /\ pc[c] \notin Writing /\ pc[c] \notin Reading
      /\ label \notin Section /\ label \notin Writing /\ label \notin Reading
  BY DEF Started, Section, Writing, Reading
<1>2. /\ MainInv' /\ ListInv' /\ ThreadInv'
      /\ pc' \in [Clients -> {"away", "connected", "accepted"} \cup Started]
      /\ pc'[c] = label /\ \A d \in Clients \ {c} : pc'[d] = pc[d]
  BY <1>1, WorkerMoves
<1>3. Types'
  BY <1>2 DEF ControlInv, Types
<1>4. MutexInv'
  BY <1>1, <1>2 DEF ControlInv, MutexInv
<1>5. BufferInv'
  BY <1>1, <1>2 DEF ControlInv, BufferInv
<1> QED BY <1>2, <1>3, <1>4, <1>5 DEF ControlInv

(* A worker outside the section marks itself complete and closes its       *)
(* connection.                                                             *)
LEMMA EndOfWorkerKeepsControlInv ==
  ASSUME ControlInv, NEW c \in Clients, Complete(c) \/ Close(c)
  PROVE  ControlInv'
<1>1. CASE Complete(c)
  <2>1. /\ pc[c] = "complete" /\ Goto(c, "close")
        /\ UNCHANGED <<scenario, main, resume, cursor, list, thread_id, joined,
                       mutex_lock, recv_data, read_buffer, read_data_len, freed, consumed>>
    BY <1>1 DEF Complete, At, place, nodes, buffers, clients
  <2>2. is_thread_complete' \in [Clients -> BOOLEAN]
    BY <1>1 DEF Complete, ControlInv, Types
  <2> QED BY <2>1, <2>2, FreeWorkerKeepsControlInv
<1>2. CASE Close(c)
  <2>1. /\ pc[c] = "close" /\ Goto(c, "exited")
        /\ UNCHANGED <<scenario, main, resume, cursor, list, thread_id, joined,
                       is_thread_complete, mutex_lock, recv_data, read_buffer,
                       read_data_len, freed, consumed>>
    BY <1>2 DEF Close, At, place, nodes, buffers, clients
  <2>2. is_thread_complete' \in [Clients -> BOOLEAN]
    BY <2>1 DEF ControlInv, Types
  <2> QED BY <2>1, <2>2, FreeWorkerKeepsControlInv
<1> QED BY <1>1, <1>2

-----------------------------------------------------------------------------
(* The steps of clients, main and the handler.  None of them is in the     *)
(* section.                                                                *)
LEMMA OthersKeepBuffers ==
  ASSUME ControlInv, UNCHANGED <<scenario, mutex_lock, recv_data, read_buffer,
                                 read_data_len, consumed>>,
         NEW c \in Clients, pc[c] \notin Section, NEW label, label \notin Section,
         Goto(c, label), pc[c] = "away" => c \in DOMAIN scenario.message
  PROVE  MutexInv' /\ BufferInv'
<1>1. /\ pc'[c] = label /\ \A d \in Clients \ {c} : pc'[d] = pc[d]
  BY DEF Goto, ControlInv, Types
<1>2. /\ pc[c] \notin Writing /\ pc[c] \notin Reading
      /\ label \notin Writing /\ label \notin Reading
  BY DEF Section
<1>3. MutexInv'
  BY <1>1 DEF ControlInv, MutexInv
<1>4. BufferInv'
  BY <1>1, <1>2 DEF ControlInv, BufferInv
<1> QED BY <1>3, <1>4

(* In no other step does a connection change its place. *)
LEMMA PlacesKept ==
  ASSUME ControlInv, UNCHANGED <<scenario, pc, mutex_lock, recv_data, read_buffer,
                                 read_data_len, consumed>>
  PROVE  MutexInv' /\ BufferInv'
BY DEF ControlInv, MutexInv, BufferInv

(* A client connects or leaves.                                            *)
LEMMA ClientKeepsControlInv ==
  ASSUME ControlInv, NEW c \in Clients, Connect(c) \/ Leave(c)
  PROVE  ControlInv'
<1>1. UNCHANGED <<scenario, main, resume, cursor, list, thread_id, joined, mutex_lock,
                  is_thread_complete, recv_data, read_buffer, read_data_len, freed, consumed>>
  BY DEF Connect, Leave, process, place, nodes, buffers, clients
<1>2. CASE Connect(c)
  <2>1. /\ pc[c] = "away" /\ c \in DOMAIN scenario.message
        /\ Goto(c, "connected") /\ pc' = [pc EXCEPT ![c] = "connected"]
    BY <1>2 DEF Connect, Goto
  <2>2. /\ pc[c] \notin Started /\ pc[c] \notin Section
        /\ "connected" \notin Started /\ "connected" \notin Section
    BY <2>1 DEF Started, Section, Writing, Reading
  <2>3. MutexInv' /\ BufferInv'
    BY <1>1, <2>1, <2>2, OthersKeepBuffers
  <2>4. Types' /\ MainInv'
    BY <1>1, <2>1 DEF ControlInv, Types, MainInv, Phase
  <2>5. \A i \in 1 .. Len(list) : list[i] \in Clients /\ list[i] # c
    BY <2>1, <2>2, ElementOfSeq DEF ControlInv, ListInv
  <2>6. ListInv'
    BY <1>1, <2>1, <2>5 DEF ControlInv, Types, ListInv, Phase
  <2>7. ThreadInv'
    BY <1>1, <2>1, <2>2 DEF ControlInv, Types, ThreadInv
  <2> QED BY <2>3, <2>4, <2>6, <2>7 DEF ControlInv
<1>3. CASE Leave(c)
  <2>1. UNCHANGED pc
    BY <1>3 DEF Leave
  <2>2. Types' /\ MainInv' /\ ListInv' /\ ThreadInv'
    BY <1>1, <2>1 DEF ControlInv, Types, MainInv, ListInv, ThreadInv, Phase
  <2> QED BY <1>1, <2>1, <2>2, PlacesKept DEF ControlInv
<1> QED BY <1>2, <1>3

(* Main's steps before it has a client. *)
LEMMA MainListensKeepsControlInv ==
  ASSUME ControlInv, open_socket_then_bind \/ create_new_file \/ Listen
  PROVE  ControlInv'
<1>1. /\ UNCHANGED <<scenario, pc, resume, cursor, list, thread_id, joined, mutex_lock,
                     is_thread_complete, recv_data, read_buffer, read_data_len, freed,
                     consumed>>
      /\ \/ main = "start" /\ main' = "create_file"
         \/ main = "create_file" /\ main' = "listen"
         \/ main = "listen" /\ main' = "accept"
  BY DEF open_socket_then_bind, create_new_file, Listen, process, place, nodes, buffers,
         clients
<1>2. Types' /\ MainInv'
  BY <1>1 DEF ControlInv, Types, MainInv, Phase
<1>3. ListInv' /\ ThreadInv'
  BY <1>1 DEF ControlInv, ListInv, ThreadInv, Phase
<1> QED BY <1>1, <1>2, <1>3, PlacesKept DEF ControlInv

(* A connection is accepted.                                               *)
LEMMA AcceptKeepsControlInv ==
  ASSUME ControlInv, accept_connection
  PROVE  ControlInv'
<1>1. PICK c \in Clients : pc[c] = "connected" /\ Goto(c, "accepted")
  BY DEF accept_connection
<1>2. /\ main = "accept" /\ main' = "insert"
      /\ UNCHANGED <<scenario, resume, cursor, list, thread_id, joined, mutex_lock,
                     is_thread_complete, recv_data, read_buffer, read_data_len, freed,
                     consumed>>
  BY DEF accept_connection, place, nodes, buffers, clients
<1>3. /\ pc' = [pc EXCEPT ![c] = "accepted"] /\ \A d \in Clients : pc[d] # "accepted"
  BY <1>1, <1>2 DEF Goto, ControlInv, MainInv, Phase
<1>4. /\ pc[c] \notin Started /\ pc[c] \notin Section /\ pc[c] # "away"
      /\ "accepted" \notin Started /\ "accepted" \notin Section
  BY <1>1 DEF Started, Section, Writing, Reading
<1>5. MutexInv' /\ BufferInv'
  BY <1>1, <1>2, <1>4, OthersKeepBuffers
<1>6. Types' /\ MainInv'
  BY <1>2, <1>3 DEF ControlInv, Types, MainInv, Phase
<1>7. \A i \in 1 .. Len(list) : list[i] \in Clients /\ list[i] # c /\ pc[list[i]] \in Started
  BY <1>1, <1>3, <1>4, ElementOfSeq DEF ControlInv, ListInv
<1>8. ListInv'
  BY <1>2, <1>3, <1>7 DEF ControlInv, Types, ListInv, Phase
<1>9. ThreadInv'
  BY <1>2, <1>3, <1>4 DEF ControlInv, Types, ThreadInv
<1> QED BY <1>5, <1>6, <1>8, <1>9 DEF ControlInv

(* The accepted connection gets a node at the head of the list.            *)
LEMMA InsertKeepsControlInv ==
  ASSUME ControlInv, InsertNode
  PROVE  ControlInv'
<1>1. PICK c \in Clients : pc[c] = "accepted" /\ list' = <<c>> \o list
  BY DEF InsertNode
<1>2. /\ main = "insert" /\ main' = "create"
      /\ UNCHANGED <<scenario, pc, resume, cursor, thread_id, joined, mutex_lock,
                     is_thread_complete, recv_data, read_buffer, read_data_len, freed,
                     consumed>>
  BY DEF InsertNode, place, buffers, clients
<1>3. Types' /\ MainInv' /\ ThreadInv'
  BY <1>1, <1>2 DEF ControlInv, Types, MainInv, ThreadInv, Phase
<1>4. /\ list \in Seq(Clients) /\ Len(list) \in Nat
      /\ \A i \in 1 .. Len(list) : list[i] \in Clients /\ list[i] # c /\ pc[list[i]] \in Started
  <2>1. "accepted" \notin Started
    BY DEF Started, Section, Writing, Reading
  <2> QED BY <1>1, <1>2, <2>1, ElementOfSeq, LenProperties DEF ControlInv, ListInv, Phase
<1>5. /\ <<c>> \in Seq(Clients) /\ Len(<<c>>) = 1 /\ <<c>>[1] = c
  OBVIOUS
<1>6. /\ list' \in Seq(Clients) /\ Len(list') = Len(list) + 1
      /\ \A i \in 1 .. Len(list') : list'[i] = IF i = 1 THEN c ELSE list[i - 1]
  <2> DEFINE head == <<c>>
  <2>1. head \in Seq(Clients) /\ Len(head) = 1 /\ head[1] = c
    BY <1>5
  <2> HIDE DEF head
  <2>2. list' = head \o list
    BY <1>1 DEF head
  <2>3. /\ list' \in Seq(Clients) /\ Len(list') = 1 + Len(list)
        /\ \A i \in 1 .. 1 + Len(list) : list'[i] = IF i <= 1 THEN head[i] ELSE list[i - 1]
    <3>1. /\ head \o list \in Seq(Clients) /\ Len(head \o list) = Len(head) + Len(list)
          /\ \A i \in 1 .. Len(head) + Len(list) :
               (head \o list)[i] = IF i <= Len(head) THEN head[i] ELSE list[i - Len(head)]
      BY <1>4, <2>1, ConcatProperties
    <3> QED BY <2>1, <2>2, <3>1
  <2> QED BY <1>4, <2>1, <2>3
<1>7. IsInjective(list')
  <2>1. DOMAIN list' = 1 .. Len(list') /\ DOMAIN list = 1 .. Len(list)
    BY <1>4, <1>6, LenProperties
  <2>2. \A i, j \in 1 .. Len(list) : list[i] = list[j] => i = j
    BY <2>1 DEF ControlInv, ListInv, IsInjective
  <2>3. \A i, j \in 1 .. Len(list') : list'[i] = list'[j] => i = j
    <3> SUFFICES ASSUME NEW i \in 1 .. Len(list'), NEW j \in 1 .. Len(list'),
                        list'[i] = list'[j]
                 PROVE  i = j
      OBVIOUS
    <3>1. CASE i = 1 /\ j = 1
      BY <3>1
    <3>2. CASE i = 1 /\ j # 1
      <4>1. j - 1 \in 1 .. Len(list)
        BY <1>4, <1>6, <3>2
      <4> QED BY <1>4, <1>6, <3>2, <4>1
    <3>3. CASE i # 1 /\ j = 1
      <4>1. i - 1 \in 1 .. Len(list)
        BY <1>4, <1>6, <3>3
      <4> QED BY <1>4, <1>6, <3>3, <4>1
    <3>4. CASE i # 1 /\ j # 1
      <4>1. i - 1 \in 1 .. Len(list) /\ j - 1 \in 1 .. Len(list)
        BY <1>4, <1>6, <3>4
      <4>2. i - 1 = j - 1
        BY <1>6, <2>2, <3>4, <4>1
      <4> QED BY <4>2
    <3> QED BY <3>1, <3>2, <3>3, <3>4
  <2> QED BY <2>1, <2>3 DEF IsInjective
<1>8. ASSUME NEW i \in 1 .. Len(list')
      PROVE  pc[list'[i]] \in Started \/ pc[list'[i]] = "accepted"
  <2>1. CASE i = 1
    BY <1>1, <1>6, <2>1
  <2>2. CASE i # 1
    <3>1. i - 1 \in 1 .. Len(list)
      BY <1>4, <1>6, <2>2
    <3> QED BY <1>4, <1>6, <2>2, <3>1
  <2> QED BY <2>1, <2>2
<1>9. ListInv'
  BY <1>2, <1>6, <1>7, <1>8 DEF ControlInv, ListInv, Phase
<1> QED BY <1>2, <1>3, <1>9, PlacesKept DEF ControlInv

(* The node's worker is created, under a pthread_t that may be an old one. *)
LEMMA CreateThreadKeepsControlInv ==
  ASSUME ControlInv, CreateThread
  PROVE  ControlInv'
<1>1. PICK c \in Clients, t \in NewThreads :
        pc[c] = "accepted" /\ thread_id' = [thread_id EXCEPT ![c] = t] /\ Goto(c, "lock")
  BY DEF CreateThread
<1>2. /\ main = "create" /\ main' = "join" /\ cursor' = 1
      /\ UNCHANGED <<scenario, resume, list, joined, mutex_lock,
                     is_thread_complete, recv_data, read_buffer, read_data_len, freed,
                     consumed>>
  BY DEF CreateThread, buffers, clients
<1>3. /\ pc' = [pc EXCEPT ![c] = "lock"]
      /\ \A d \in Clients : pc[d] = "accepted" => d = c
  BY <1>1 DEF Goto, ControlInv, MainInv
<1>4. /\ pc[c] \notin Section /\ pc[c] # "away"
      /\ "lock" \in Started /\ "lock" \notin Section
  BY <1>1 DEF Started, Section, Writing, Reading
<1>5. MutexInv' /\ BufferInv'
  BY <1>1, <1>2, <1>4, OthersKeepBuffers
<1>6. Types' /\ MainInv'
  BY <1>2, <1>3, <1>4 DEF ControlInv, Types, MainInv, Phase
<1>7. \A i \in 1 .. Len(list) : list[i] \in Clients
  BY ElementOfSeq DEF ControlInv, ListInv
<1>8. 1 \in 1 .. Cardinality(Clients) + 1
  BY ClientsAssumption, FS_CardinalityType
<1>9. ListInv'
  <2>1. \A i \in 1 .. Len(list) : pc'[list[i]] \in Started
    BY <1>3, <1>4, <1>7 DEF ControlInv, Types, ListInv
  <2> QED BY <1>2, <1>8, <2>1 DEF ControlInv, ListInv, Phase
<1>10. t \in 0 .. Cardinality(Clients)
  BY <1>1, NewThreadsBound DEF ControlInv
<1>11. ThreadInv'
  BY <1>1, <1>2, <1>3, <1>4, <1>10 DEF ControlInv, Types, ThreadInv
<1> QED BY <1>5, <1>6, <1>9, <1>11 DEF ControlInv

(* Main's way through the list.                                            *)
LEMMA JoinKeepsControlInv ==
  ASSUME ControlInv, VisitNode \/ JoinWorker \/ EndOfList
  PROVE  ControlInv'
<1>1. UNCHANGED <<scenario, pc, resume, list, thread_id, mutex_lock, is_thread_complete,
                  recv_data, read_buffer, read_data_len, freed, consumed>>
  BY DEF VisitNode, JoinWorker, EndOfList, process, place, nodes, buffers, clients
<1>2. /\ list \in Seq(Clients) /\ Len(list) \in Nat /\ Len(list) <= Cardinality(Clients)
      /\ Cardinality(Clients) \in Nat /\ cursor \in Nat /\ 1 <= cursor
      /\ cursor <= Cardinality(Clients) + 1
      /\ main = "wait" => cursor <= Len(list)
  BY LenProperties, InjectiveIsShort, ClientsAssumption, FS_CardinalityType
     DEF ControlInv, ListInv, Phase
<1>3. /\ main = "join" \/ main = "wait"
      /\ main' \in {"join", "wait", "listen"}
      /\ \/ UNCHANGED cursor
         \/ cursor <= Len(list) /\ cursor' = cursor + 1
      /\ main' = "wait" => cursor' <= Len(list)
      /\ joined' \subseteq joined \cup {w \in Clients : pc[w] = "exited"}
  <2>1. CASE VisitNode
    BY <2>1 DEF VisitNode, nodes
  <2>2. CASE JoinWorker
    BY <1>2, <2>2 DEF JoinWorker, Running
  <2>3. CASE EndOfList
    BY <2>3 DEF EndOfList, process, place, nodes
  <2> QED BY <2>1, <2>2, <2>3
<1>4. Types' /\ MainInv'
  BY <1>1, <1>3 DEF ControlInv, Types, MainInv, Phase
<1>5. cursor' \in 1 .. Cardinality(Clients) + 1
  BY <1>2, <1>3
<1>6. \A i \in 1 .. Len(list) : pc[list[i]] \in Started
  BY <1>3 DEF ControlInv, ListInv, MainInv, Phase
<1>7. ListInv'
  BY <1>1, <1>3, <1>5, <1>6 DEF ControlInv, ListInv, Phase
<1>8. ThreadInv'
  BY <1>1, <1>3 DEF ControlInv, ThreadInv
<1> QED BY <1>1, <1>4, <1>7, <1>8, PlacesKept DEF ControlInv

(* The handler runs in the middle of main. *)
LEMMA SignalKeepsControlInv ==
  ASSUME ControlInv, Signal
  PROVE  ControlInv'
<1>1. /\ resume = "none" /\ main \notin {"start", "ended"}
      /\ resume' = main /\ main' = "close"
      /\ UNCHANGED <<scenario, pc, cursor, list, thread_id, joined, mutex_lock,
                     is_thread_complete, recv_data, read_buffer, read_data_len, freed,
                     consumed>>
  BY DEF Signal, nodes, buffers, clients
<1>2. main \notin {"close", "close_sockfd", "close_accepted", "free", "delete"}
  BY <1>1 DEF ControlInv, MainInv
<1>3. Phase' = Phase
  BY <1>1, <1>2 DEF Phase
<1>4. Types' /\ MainInv'
  BY <1>1, <1>2, <1>3 DEF ControlInv, Types, MainInv
<1>5. ListInv' /\ ThreadInv'
  BY <1>1, <1>3 DEF ControlInv, ListInv, ThreadInv
<1> QED BY <1>1, <1>4, <1>5, PlacesKept DEF ControlInv

(* What the handler does to a buffer that is in use. *)
LEMMA FreedBuffers ==
  ASSUME FreeBuffers
  PROVE  /\ recv_data' = recv_data \/ (recv_data # NULL /\ recv_data' \in Remains(recv_data))
         /\ \/ read_buffer' = read_buffer
            \/ read_buffer # NULL /\ read_buffer' \in Remains(read_buffer)
         /\ freed' \subseteq freed \cup {"recv_data", "read_buffer"}
BY DEF FreeBuffers

(* The signal handler takes over wherever main was.                        *)
LEMMA HandlerKeepsControlInv ==
  ASSUME ControlInv, sighandler
  PROVE  ControlInv'
<1>1. /\ UNCHANGED <<scenario, pc, resume, cursor, thread_id, joined, mutex_lock,
                     is_thread_complete, read_data_len, consumed>>
      /\ \/ main = "close" /\ main' = "close_sockfd"
         \/ main = "close_sockfd" /\ main' = "close_accepted"
         \/ main = "close_accepted" /\ main' = "free"
         \/ main = "free" /\ main' = "delete"
         \/ main = "delete" /\ main' = resume
  BY DEF sighandler, CloseFptr, CloseSockfd, CloseAccepted, FreeBuffers, DeleteList,
         place, nodes, buffers, clients
<1>2. /\ Phase' = Phase /\ resume \notin {"none", "close", "close_sockfd", "close_accepted", "free", "delete"}
  BY <1>1 DEF Phase, ControlInv, Types, MainInv
<1>3. freed' \subseteq {"recv_data", "read_buffer", "list"}
  <2>1. CASE CloseFptr \/ CloseSockfd \/ CloseAccepted
    BY <2>1 DEF CloseFptr, CloseSockfd, CloseAccepted, ControlInv, Types
  <2>2. CASE FreeBuffers
    BY <2>2, FreedBuffers DEF ControlInv, Types
  <2>3. CASE DeleteList
    BY <2>3 DEF DeleteList, ControlInv, Types
  <2> QED BY <2>1, <2>2, <2>3 DEF sighandler
<1>4. Types' /\ MainInv'
  BY <1>1, <1>2, <1>3 DEF ControlInv, Types, MainInv
<1>5. ThreadInv' /\ MutexInv'
  BY <1>1 DEF ControlInv, ThreadInv, MutexInv
<1>6. ListInv'
  <2>1. CASE list' = list
    BY <1>1, <1>2, <2>1 DEF ControlInv, ListInv
  <2>2. CASE list' = << >> /\ resume \notin {"join", "wait"} /\ main' = resume
    <3>1. << >> \in Seq(Clients) /\ Len(<< >>) = 0 /\ IsInjective(<< >>)
      BY EmptySeq DEF IsInjective
    <3>2. Phase' # "wait"
      BY <1>2, <2>2 DEF Phase
    <3> QED BY <1>1, <2>2, <3>1, <3>2 DEF ControlInv, ListInv
  <2>3. list' = list \/ (list' = << >> /\ resume \notin {"join", "wait"} /\ main' = resume)
    BY DEF sighandler, CloseFptr, CloseSockfd, CloseAccepted, FreeBuffers, DeleteList, nodes
  <2> QED BY <2>1, <2>2, <2>3
<1>7. BufferInv'
  <2>1. CASE UNCHANGED <<recv_data, read_buffer>>
    BY <1>1, <2>1 DEF ControlInv, BufferInv
  <2>2. CASE FreeBuffers
    <3>1. ASSUME NEW c \in Clients, pc[c] \in Writing
          PROVE  recv_data' \in Seq(Byte)
      <4>1. recv_data \in Seq(Byte) /\ JUNK \in Byte
        BY <3>1 DEF ControlInv, BufferInv, Byte
      <4> QED BY <2>2, <4>1, FreedBuffers, RemainsProperties
    <3>2. /\ (\A c \in Clients : pc[c] \notin Writing) => recv_data' = NULL
          /\ (\A c \in Clients : pc[c] \notin Reading) => read_buffer' = NULL
      BY <2>2, FreedBuffers DEF ControlInv, BufferInv
    <3> QED BY <1>1, <3>1, <3>2 DEF ControlInv, BufferInv
  <2> QED BY <2>1, <2>2 DEF sighandler, CloseFptr, CloseSockfd, CloseAccepted, DeleteList,
                             buffers
<1> QED BY <1>4, <1>5, <1>6, <1>7 DEF ControlInv

(* Every step keeps the first layer.                                       *)
LEMMA NextControlInv == ControlInv /\ [Next]_vars => ControlInv'
<1> SUFFICES ASSUME ControlInv, [Next]_vars PROVE ControlInv'
  OBVIOUS
<1>1. CASE UNCHANGED vars
  <2>1. UNCHANGED <<scenario, main, pc, resume, cursor, list, thread_id, joined, mutex_lock,
                    is_thread_complete, recv_data, read_buffer, read_data_len, freed,
                    consumed>>
    BY <1>1 DEF vars, process, place, nodes, buffers, clients
  <2>2. Types' /\ MainInv' /\ ListInv' /\ ThreadInv'
    BY <2>1 DEF ControlInv, Types, MainInv, ListInv, ThreadInv, Phase
  <2> QED BY <2>1, <2>2, PlacesKept DEF ControlInv
<1>2. CASE Main
  BY <1>2, MainListensKeepsControlInv, AcceptKeepsControlInv, InsertKeepsControlInv,
     CreateThreadKeepsControlInv, JoinKeepsControlInv, ExitKeepsControlInv
     DEF Main, ListeningClosed
<1>3. CASE MainExits \/ JoinUnmapped \/ DoubleFree
  BY <1>3, ExitKeepsControlInv DEF MainExits, JoinUnmapped, DoubleFree
<1>4. CASE Signal \/ sighandler
  BY <1>4, SignalKeepsControlInv, HandlerKeepsControlInv
<1>5. ASSUME NEW c \in Clients, Connect(c) \/ Leave(c) \/ Lock(c) \/ WorkerExits(c)
      PROVE  ControlInv'
  BY <1>5, ClientKeepsControlInv, LockKeepsControlInv, ExitKeepsControlInv DEF WorkerExits
<1>6. ASSUME NEW c \in Clients, Worker(c)
      PROVE  ControlInv'
  BY <1>6, RecvKeepsControlInv, OpenToWriteKeepsControlInv, WriteKeepsControlInv,
     WrittenKeepsControlInv, OpenKeepsControlInv, ReadKeepsControlInv,
     ReadBackKeepsControlInv, SendKeepsControlInv, UnlockKeepsControlInv,
     EndOfWorkerKeepsControlInv, ExitKeepsControlInv DEF Worker, WorkerFails
<1> QED BY <1>1, <1>2, <1>3, <1>4, <1>5, <1>6 DEF Next

(* The first layer holds throughout.                                       *)
LEMMA ControlInvariant == Spec => []ControlInv
BY InitControlInv, NextControlInv, PTL DEF Spec

(* The buffers the workers share belong to the worker that holds the mutex *)
(* (aesdsocket.c:355-439).                                                 *)
THEOREM BuffersBelongToHolder == Spec => []BuffersUnderLock
<1>1. ControlInv => BuffersUnderLock
  <2> SUFFICES ASSUME ControlInv, recv_data # NULL \/ read_buffer # NULL
               PROVE  /\ mutex_lock # NoClient
                      /\ pc[mutex_lock] \in {"recv", "open_write", "write", "written", "open",
                                             "read", "readback", "send"}
    BY DEF BuffersUnderLock
  <2>1. PICK c \in Clients : pc[c] \in Writing \/ pc[c] \in Reading
    BY DEF ControlInv, BufferInv
  <2>2. mutex_lock = c
    BY <2>1 DEF ControlInv, MutexInv, Section
  <2> QED BY <2>1, <2>2, ClientsAssumption DEF Writing, Reading
<1> QED BY <1>1, ControlInvariant, PTL

-----------------------------------------------------------------------------
(* Descriptors. *)
Files == Clients \cup {Listening, AesdChar, DevNull}

(* Types of the descriptors and of what is open under them.                *)
FdTypes ==
  /\ fptr \in Descriptors /\ accepted_sockfd \in Descriptors /\ read_fptr \in Descriptors
  /\ conn \in [Clients -> Descriptors \cup {-1}]
  /\ fd \in [Descriptors -> Files \cup {Closed}]

(* Everything is open at most once, and the device for the worker that     *)
(* holds the mutex.                                                        *)
FdInv ==
  /\ \A m, n \in Descriptors : fd[m] = fd[n] /\ fd[m] # Closed => m = n
  /\ \A n \in Descriptors, c \in Clients : fd[n] = c => pc[c] \notin {"away", "connected"}
  /\ \A n \in Descriptors : fd[n] = Listening => n = sockfd
  /\ \A n \in Descriptors :
       fd[n] = AesdChar =>
         \E c \in Clients : \/ pc[c] \in {"write", "written"} /\ n = fptr
                            \/ pc[c] \in {"read", "readback"} /\ n = read_fptr
  /\ main = "start" => \A n \in Descriptors : fd[n] \in {Closed, DevNull}

(* Until the handler closes descriptors by number, what a client or a      *)
(* worker has open is there under the number it knows.                     *)
Intact == resume = "none" \/ main = "close"

(* Until then every descriptor in use leads where its user expects.        *)
IntactInv ==
  Intact =>
    \A c \in Clients :
      /\ pc[c] = "accepted" => fd[accepted_sockfd] = c
      /\ pc[c] = "accepted" /\ Phase = "create" => conn[c] = accepted_sockfd
      /\ pc[c] \in Started \ {"exited"} => conn[c] \in Descriptors /\ fd[conn[c]] = c
      /\ pc[c] = "exited" => \A n \in Descriptors : fd[n] # c
      /\ pc[c] \in {"write", "written"} => fd[fptr] = AesdChar
      /\ pc[c] \in {"read", "readback"} => fd[read_fptr] = AesdChar

(* After that nobody is accepted any more, so that a number a worker still *)
(* knows never becomes another client's.                                   *)
ClosedInv ==
  /\ ~Intact /\ main \notin {"close_sockfd", "ended"} => fd[sockfd] # Listening
  /\ \A c \in Clients :
       /\ pc[c] = "accepted" => fd[accepted_sockfd] \notin Clients \ {c}
       /\ \/ pc[c] \in Started \ {"exited"}
          \/ pc[c] = "accepted" /\ Phase = "create"
          => (conn[c] \in Descriptors => fd[conn[c]] \notin Clients \ {c})

(* The second layer: the descriptors.                                      *)
DescriptorInv == FdTypes /\ FdInv /\ IntactInv /\ ClosedInv

-----------------------------------------------------------------------------
(* What may be open has names of its own. *)
LEMMA FileNames ==
  /\ Clients \cap {Closed, Listening, AesdChar, DevNull} = {}
  /\ Closed # Listening /\ Closed # AesdChar /\ Closed # DevNull
  /\ Listening # AesdChar /\ Listening # DevNull /\ AesdChar # DevNull
BY ClientsAssumption DEF Closed, Listening, AesdChar, DevNull

(* There is one descriptor more than files that can be open at once.       *)
LEMMA DescriptorsAreFinite ==
  /\ Descriptors \subseteq Nat /\ IsFiniteSet(Descriptors) /\ 0 \in Descriptors
  /\ sockfd \in Descriptors
  /\ Cardinality(Descriptors) = Cardinality(Clients) + 3
<1> DEFINE N == Cardinality(Clients)
           D == 3 .. N + 4
<1>1. N \in Nat
  BY ClientsAssumption, FS_CardinalityType
<1>2. IsFiniteSet(D) /\ Cardinality(D) = N + 2
  BY <1>1, FS_Interval
<1>3. 0 \notin D /\ D \subseteq Nat /\ 3 \in D /\ Descriptors = D \cup {0}
  BY <1>1 DEF Descriptors
<1> HIDE DEF D, N
<1>4. IsFiniteSet(D \cup {0}) /\ Cardinality(D \cup {0}) = Cardinality(D) + 1
  BY <1>2, <1>3, FS_AddElement
<1> QED BY <1>1, <1>2, <1>3, <1>4 DEF sockfd, N

(* The files: a connection for each client, the socket, the device and     *)
(* /dev/null.                                                              *)
LEMMA FilesAreFinite ==
  IsFiniteSet(Files) /\ Cardinality(Files) = Cardinality(Clients) + 3
<1> DEFINE A == Clients \cup {Listening}
           B == A \cup {AesdChar}
           C == B \cup {DevNull}
<1>1. Cardinality(Clients) \in Nat /\ IsFiniteSet(Clients)
  BY ClientsAssumption, FS_CardinalityType
<1>2. Listening \notin Clients /\ AesdChar \notin A /\ DevNull \notin B
  BY FileNames
<1>3. IsFiniteSet(A) /\ Cardinality(A) = Cardinality(Clients) + 1
  BY <1>1, <1>2, FS_AddElement
<1> HIDE DEF A
<1>4. IsFiniteSet(B) /\ Cardinality(B) = Cardinality(Clients) + 2
  BY <1>1, <1>2, <1>3, FS_AddElement
<1> HIDE DEF B
<1>5. IsFiniteSet(C) /\ Cardinality(C) = Cardinality(Clients) + 3
  BY <1>1, <1>2, <1>4, FS_AddElement
<1>6. Files = C
  BY DEF Files, A, B
<1> QED BY <1>5, <1>6

(* As long as something is not open there is a descriptor for it.          *)
LEMMA NextFdIsFree ==
  ASSUME FdTypes, FdInv, NEW v \in Files, \A n \in Descriptors : fd[n] # v
  PROVE  NextFd \in Descriptors /\ fd[NextFd] = Closed
<1> DEFINE F == {n \in Descriptors : fd[n] = Closed}
<1>1. ASSUME F = {} PROVE FALSE
  <2>1. fd \in [Descriptors -> Files \ {v}]
    BY <1>1 DEF FdTypes
  <2>2. IsFiniteSet(Files \ {v}) /\ Cardinality(Files \ {v}) = Cardinality(Clients) + 2
    <3>1. IsFiniteSet(Files) /\ Cardinality(Files) = Cardinality(Clients) + 3
          /\ Cardinality(Clients) \in Nat
      BY FilesAreFinite, FS_CardinalityType, ClientsAssumption
    <3>2. IsFiniteSet(Files \ {v}) /\ Cardinality(Files \ {v}) = Cardinality(Files) - 1
      BY <3>1, FS_RemoveElement
    <3> QED BY <3>1, <3>2
  <2>3. Cardinality(Files \ {v}) < Cardinality(Descriptors)
    BY <2>2, DescriptorsAreFinite, FS_CardinalityType, ClientsAssumption
  <2>4. \E m, n \in Descriptors : m # n /\ fd[m] = fd[n]
    BY <2>1, <2>2, <2>3, DescriptorsAreFinite, FS_PigeonHole
  <2> QED BY <1>1, <2>4 DEF FdInv
<1>2. PICK m \in F : \A n \in F : m <= n
  BY <1>1, DescriptorsAreFinite, LeastNatural
<1>3. NextFd = CHOOSE k \in F : \A n \in F : k <= n
  BY DEF NextFd, Min
<1>4. NextFd \in F
  BY <1>2, <1>3
<1> QED BY <1>4

(* The device is open only for a worker that writes or reads it. *)
LEMMA DeviceIsClosed ==
  ASSUME ControlInv, FdInv,
         \/ \E c \in Clients : pc[c] \in Section \ {"write", "written", "read", "readback"}
         \/ \A c \in Clients : pc[c] \notin Section
  PROVE  \A n \in Descriptors : fd[n] # AesdChar
<1> SUFFICES ASSUME NEW n \in Descriptors, fd[n] = AesdChar PROVE FALSE
  OBVIOUS
<1>1. PICK d \in Clients : pc[d] \in {"write", "written", "read", "readback"}
  BY DEF FdInv
<1>2. pc[d] \in Section
  BY <1>1 DEF Section, Writing, Reading
<1>3. PICK c \in Clients : pc[c] \in Section \ {"write", "written", "read", "readback"}
  BY <1>2
<1>4. c = d
  BY <1>2, <1>3 DEF ControlInv, MutexInv
<1> QED BY <1>1, <1>3, <1>4

(* No descriptor is open at the start.                                     *)
LEMMA InitDescriptorInv == Init => DescriptorInv
<1> SUFFICES ASSUME Init PROVE DescriptorInv
  OBVIOUS
<1>1. /\ fd = [n \in Descriptors |-> IF n = 0 THEN DevNull ELSE Closed]
      /\ fptr = 0 /\ accepted_sockfd = 0 /\ read_fptr = 0 /\ conn = [c \in Clients |-> 0]
      /\ pc = [c \in Clients |-> "away"] /\ main = "start" /\ resume = "none"
  BY DEF Init
<1>2. FdTypes
  BY <1>1, DescriptorsAreFinite DEF FdTypes, Files
<1>3. FdInv
  BY <1>1, FileNames DEF FdInv
<1>4. IntactInv
  BY <1>1 DEF IntactInv, Started, Section, Writing, Reading
<1>5. ClosedInv
  BY <1>1 DEF ClosedInv, Intact, Started, Section, Writing, Reading
<1> QED BY <1>2, <1>3, <1>4, <1>5 DEF DescriptorInv

(* exit() leaves the descriptors alone.                                    *)
LEMMA ExitKeepsDescriptorInv ==
  ASSUME DescriptorInv, Exit
  PROVE  DescriptorInv'
<1>1. /\ main' = "ended"
      /\ UNCHANGED <<pc, resume, conn, fptr, accepted_sockfd, read_fptr, fd>>
  BY DEF Exit, process, place, nodes, files
<1>2. FdTypes' /\ FdInv'
  BY <1>1 DEF DescriptorInv, FdTypes, FdInv
<1>3. IntactInv'
  BY <1>1 DEF DescriptorInv, IntactInv, Intact, Phase
<1>4. ClosedInv'
  BY <1>1 DEF DescriptorInv, ClosedInv, Phase
<1> QED BY <1>2, <1>3, <1>4 DEF DescriptorInv

(* Steps of a worker that leave descriptors alone. *)
LEMMA QuietKeepsDescriptorInv ==
  ASSUME ControlInv, DescriptorInv,
         UNCHANGED <<main, resume, conn, fptr, accepted_sockfd, read_fptr, fd>>,
         NEW c \in Clients, pc[c] \in Started \ {"exited"},
         NEW label \in Started \ {"exited"}, Goto(c, label),
         pc[c] \in {"write", "written"} <=> label \in {"write", "written"},
         pc[c] \in {"read", "readback"} <=> label \in {"read", "readback"}
  PROVE  DescriptorInv'
<1>1. pc'[c] = label /\ \A d \in Clients \ {c} : pc'[d] = pc[d]
  BY DEF Goto, ControlInv, Types
<1>2. /\ "accepted" \notin Started /\ "away" \notin Started /\ "connected" \notin Started
  BY DEF Started, Section, Writing, Reading
<1>3. Intact' = Intact /\ Phase' = Phase
  BY DEF Intact, Phase
<1>4. FdTypes'
  BY DEF DescriptorInv, FdTypes
<1>5. FdInv'
  <2>1. ASSUME NEW n \in Descriptors, fd[n] = AesdChar
        PROVE  \E d \in Clients : \/ pc'[d] \in {"write", "written"} /\ n = fptr
                                  \/ pc'[d] \in {"read", "readback"} /\ n = read_fptr
    BY <1>1, <2>1 DEF DescriptorInv, FdInv
  <2> QED BY <1>1, <1>2, <2>1 DEF DescriptorInv, FdInv
<1>6. IntactInv'
  <2> SUFFICES ASSUME Intact, NEW d \in Clients
               PROVE  /\ pc'[d] = "accepted" => fd[accepted_sockfd] = d
                      /\ pc'[d] = "accepted" /\ Phase = "create" => conn[d] = accepted_sockfd
                      /\ pc'[d] \in Started \ {"exited"} => conn[d] \in Descriptors /\ fd[conn[d]] = d
                      /\ pc'[d] = "exited" => \A n \in Descriptors : fd[n] # d
                      /\ pc'[d] \in {"write", "written"} => fd[fptr] = AesdChar
                      /\ pc'[d] \in {"read", "readback"} => fd[read_fptr] = AesdChar
    BY <1>3 DEF IntactInv
  <2>1. CASE d = c
    BY <1>1, <1>2, <2>1 DEF DescriptorInv, IntactInv
  <2>2. CASE d # c
    <3>1. pc'[d] = pc[d]
      BY <1>1, <2>2
    <3> QED BY <3>1 DEF DescriptorInv, IntactInv
  <2> QED BY <2>1, <2>2
<1>7. ClosedInv'
  BY <1>1, <1>2, <1>3 DEF DescriptorInv, ClosedInv
<1> QED BY <1>4, <1>5, <1>6, <1>7 DEF DescriptorInv

(* A worker that holds the mutex opens the device: it was closed.          *)
LEMMA OpenKeepsDescriptorInv ==
  ASSUME ControlInv, DescriptorInv, NEW c \in Clients, OpenToWrite(c) \/ Open(c)
  PROVE  DescriptorInv'
<1> DEFINE new == NextFd
<1>1. /\ fd' = [fd EXCEPT ![new] = AesdChar]
      /\ UNCHANGED <<main, resume, conn, accepted_sockfd>>
      /\ \/ pc[c] = "open_write" /\ Goto(c, "write") /\ fptr' = new /\ UNCHANGED read_fptr
         \/ pc[c] = "open" /\ Goto(c, "read") /\ read_fptr' = new /\ UNCHANGED fptr
  BY DEF OpenToWrite, Open, At, place, nodes
<1>2. pc[c] \in Section \ {"write", "written", "read", "readback"}
  BY <1>1 DEF Section, Writing, Reading
<1>3. \A n \in Descriptors : fd[n] # AesdChar
  BY <1>2, DeviceIsClosed DEF DescriptorInv
<1>4. new \in Descriptors /\ fd[new] = Closed
  BY <1>3, NextFdIsFree DEF DescriptorInv, Files
<1> HIDE DEF new
<1>5. /\ fd' \in [Descriptors -> Files \cup {Closed}]
      /\ fd'[new] = AesdChar /\ \A n \in Descriptors \ {new} : fd'[n] = fd[n]
      /\ fptr' \in Descriptors /\ read_fptr' \in Descriptors
  BY <1>1, <1>4 DEF DescriptorInv, FdTypes, Files
<1>6. /\ pc'[c] \in {"write", "read"} /\ \A d \in Clients \ {c} : pc'[d] = pc[d]
      /\ pc'[c] = "write" => fptr' = new
      /\ pc'[c] = "read" => read_fptr' = new
  BY <1>1 DEF Goto, ControlInv, Types
<1>7. /\ "accepted" \notin Started /\ "away" \notin Started /\ "connected" \notin Started
      /\ {pc[c], pc'[c]} \subseteq Started \ {"exited"}
      /\ {"write", "written", "read", "readback"} \subseteq Section
  BY <1>1, <1>6 DEF Started, Section, Writing, Reading
<1>8. Intact' = Intact /\ Phase' = Phase
  BY <1>1 DEF Intact, Phase
<1>9. FdTypes'
  BY <1>1, <1>5 DEF DescriptorInv, FdTypes
<1>10. FdInv'
  <2>1. ASSUME NEW m \in Descriptors, NEW n \in Descriptors, fd'[m] = fd'[n], fd'[m] # Closed
        PROVE  m = n
    BY <1>3, <1>5, <2>1 DEF DescriptorInv, FdInv
  <2>2. ASSUME NEW n \in Descriptors, NEW d \in Clients, fd'[n] = d
        PROVE  pc'[d] \notin {"away", "connected"}
    BY <1>5, <1>6, <1>7, <2>2, FileNames DEF DescriptorInv, FdInv
  <2>3. \A n \in Descriptors : fd'[n] = Listening => n = sockfd
    BY <1>5, FileNames DEF DescriptorInv, FdInv
  <2>4. ASSUME NEW n \in Descriptors, fd'[n] = AesdChar
        PROVE  \E d \in Clients : \/ pc'[d] \in {"write", "written"} /\ n = fptr'
                                  \/ pc'[d] \in {"read", "readback"} /\ n = read_fptr'
    BY <1>3, <1>5, <1>6, <2>4
  <2>5. main # "start"
    BY <1>1 DEF ControlInv, MainInv, Phase
  <2> QED BY <1>1, <2>1, <2>2, <2>3, <2>4, <2>5 DEF FdInv
<1>11. \A n \in Descriptors, d \in Clients : fd'[n] = d <=> fd[n] = d
  BY <1>4, <1>5, FileNames
<1>12. IntactInv'
  <2> SUFFICES ASSUME Intact, NEW d \in Clients
               PROVE  /\ pc'[d] = "accepted" => fd'[accepted_sockfd] = d
                      /\ pc'[d] = "accepted" /\ Phase = "create" => conn[d] = accepted_sockfd
                      /\ pc'[d] \in Started \ {"exited"} => conn[d] \in Descriptors /\ fd'[conn[d]] = d
                      /\ pc'[d] = "exited" => \A n \in Descriptors : fd'[n] # d
                      /\ pc'[d] \in {"write", "written"} => fd'[fptr'] = AesdChar
                      /\ pc'[d] \in {"read", "readback"} => fd'[read_fptr'] = AesdChar
    BY <1>1, <1>8 DEF IntactInv
  <2>1. CASE d = c
    BY <1>5, <1>6, <1>7, <1>11, <2>1 DEF DescriptorInv, IntactInv
  <2>2. CASE d # c
    <3>1. pc'[d] = pc[d] /\ pc[d] \notin {"write", "written", "read", "readback"}
      BY <1>2, <1>6, <1>7, <2>2, HolderIsAlone DEF ControlInv
    <3>2. accepted_sockfd \in Descriptors
      BY DEF DescriptorInv, FdTypes
    <3> QED BY <1>11, <3>1, <3>2 DEF DescriptorInv, IntactInv
  <2> QED BY <2>1, <2>2
<1>13. ClosedInv'
  <2>1. ~Intact /\ main \notin {"close_sockfd", "ended"} => fd'[sockfd] # Listening
    BY <1>5, DescriptorsAreFinite, FileNames DEF DescriptorInv, ClosedInv
  <2>2. ASSUME NEW d \in Clients, NEW n \in Descriptors, fd[n] \notin Clients \ {d}
        PROVE  fd'[n] \notin Clients \ {d}
    BY <1>11, <2>2
  <2>3. pc'[c] # "accepted"
    BY <1>6
  <2> QED BY <1>1, <1>6, <1>7, <1>8, <2>1, <2>2, <2>3
          DEF DescriptorInv, FdTypes, ClosedInv
<1> QED BY <1>9, <1>10, <1>12, <1>13 DEF DescriptorInv

(* When it closes the device nobody has it open any more.                  *)
LEMMA CloseDeviceKeepsDescriptorInv ==
  ASSUME ControlInv, DescriptorInv, NEW c \in Clients,
         UNCHANGED <<main, resume, conn, fptr, accepted_sockfd, read_fptr>>,
         NEW m \in Descriptors, fd' = [fd EXCEPT ![m] = Closed],
         \/ pc[c] = "written" /\ m = fptr /\ Goto(c, "open")
         \/ pc[c] = "readback" /\ m = read_fptr /\ Goto(c, "send")
  PROVE  DescriptorInv'
<1>1. /\ pc'[c] \in {"open", "send"} /\ \A d \in Clients \ {c} : pc'[d] = pc[d]
      /\ pc[c] \in {"written", "readback"}
  BY DEF Goto, ControlInv, Types
<1>2. /\ "accepted" \notin Started /\ "away" \notin Started /\ "connected" \notin Started
      /\ {pc[c], pc'[c]} \subseteq Section
      /\ {pc[c], pc'[c]} \subseteq Started \ {"exited"}
      /\ {"write", "written", "read", "readback"} \subseteq Section
  BY <1>1 DEF Started, Section, Writing, Reading
<1>3. \A d \in Clients \ {c} : pc[d] \notin Section /\ pc'[d] = pc[d]
  BY <1>1, <1>2, HolderIsAlone DEF ControlInv
<1>4. Intact' = Intact /\ Phase' = Phase
  BY DEF Intact, Phase
<1>5. /\ fd' \in [Descriptors -> Files \cup {Closed}]
      /\ fd'[m] = Closed /\ \A n \in Descriptors \ {m} : fd'[n] = fd[n]
  BY DEF DescriptorInv, FdTypes
<1>6. FdTypes'
  BY <1>5 DEF DescriptorInv, FdTypes
<1>7. \A n \in Descriptors : fd'[n] # AesdChar
  <2> SUFFICES ASSUME NEW n \in Descriptors, fd'[n] = AesdChar PROVE FALSE
    OBVIOUS
  <2>1. n # m /\ fd[n] = AesdChar
    BY <1>5, FileNames
  <2>2. PICK d \in Clients : \/ pc[d] \in {"write", "written"} /\ n = fptr
                             \/ pc[d] \in {"read", "readback"} /\ n = read_fptr
    BY <2>1 DEF DescriptorInv, FdInv
  <2>3. d = c
    BY <1>2, <1>3, <2>2
  <2> QED BY <2>1, <2>2, <2>3
<1>8. FdInv'
  <2>1. \A n \in Descriptors : fd'[n] # Closed => fd'[n] = fd[n]
    BY <1>5
  <2>2. \A d \in Clients : pc'[d] \in {"away", "connected"} => pc[d] \in {"away", "connected"}
    BY <1>1, <1>2
  <2>3. \A n \in Descriptors, d \in Clients : fd'[n] = d => fd[n] = d
    BY <2>1, FileNames
  <2>4. \A n \in Descriptors : fd'[n] = Listening => n = sockfd
    BY <2>1, FileNames DEF DescriptorInv, FdInv
  <2>5. main = "start" => \A n \in Descriptors : fd'[n] \in {Closed, DevNull}
    BY <2>1 DEF DescriptorInv, FdInv
  <2>6. \A k, n \in Descriptors : fd'[k] = fd'[n] /\ fd'[k] # Closed => k = n
    BY <2>1 DEF DescriptorInv, FdInv
  <2>7. \A n \in Descriptors, d \in Clients : fd'[n] = d => pc'[d] \notin {"away", "connected"}
    BY <2>2, <2>3 DEF DescriptorInv, FdInv
  <2> QED BY <1>7, <2>4, <2>5, <2>6, <2>7 DEF FdInv
<1>9. Intact => \A n \in Descriptors, d \in Clients : fd'[n] = d <=> fd[n] = d
  <2> SUFFICES ASSUME Intact PROVE \A n \in Descriptors, d \in Clients : fd'[n] = d <=> fd[n] = d
    OBVIOUS
  <2>1. fd[m] = AesdChar
    BY DEF DescriptorInv, IntactInv
  <2> QED BY <1>5, <2>1, FileNames
<1>10. IntactInv'
  <2> SUFFICES ASSUME Intact, NEW d \in Clients
               PROVE  /\ pc'[d] = "accepted" => fd'[accepted_sockfd] = d
                      /\ pc'[d] = "accepted" /\ Phase = "create" => conn[d] = accepted_sockfd
                      /\ pc'[d] \in Started \ {"exited"} => conn[d] \in Descriptors /\ fd'[conn[d]] = d
                      /\ pc'[d] = "exited" => \A n \in Descriptors : fd'[n] # d
                      /\ pc'[d] \in {"write", "written"} => fd'[fptr] = AesdChar
                      /\ pc'[d] \in {"read", "readback"} => fd'[read_fptr] = AesdChar
    BY <1>4 DEF IntactInv
  <2>0. accepted_sockfd \in Descriptors
    BY DEF DescriptorInv, FdTypes
  <2>1. CASE d = c
    BY <1>1, <1>2, <1>9, <2>1 DEF DescriptorInv, IntactInv
  <2>2. CASE d # c
    <3>1. pc'[d] = pc[d] /\ pc[d] \notin {"write", "written", "read", "readback"}
      BY <1>2, <1>3, <2>2
    <3> QED BY <1>9, <2>0, <3>1 DEF DescriptorInv, IntactInv
  <2> QED BY <2>1, <2>2
<1>11. ClosedInv'
  <2>1. ~Intact /\ main \notin {"close_sockfd", "ended"} => fd'[sockfd] # Listening
    BY <1>5, DescriptorsAreFinite, FileNames DEF DescriptorInv, ClosedInv
  <2>2. ASSUME NEW d \in Clients, NEW n \in Descriptors, fd[n] \notin Clients \ {d}
        PROVE  fd'[n] \notin Clients \ {d}
    BY <1>5, <2>2, FileNames
  <2>3. pc'[c] # "accepted"
    BY <1>1
  <2> QED BY <1>1, <1>2, <1>4, <2>1, <2>2, <2>3 DEF DescriptorInv, FdTypes, ClosedInv
<1> QED BY <1>6, <1>8, <1>10, <1>11 DEF DescriptorInv

(* The holder's other steps.                                               *)
LEMMA HolderKeepsDescriptorInv ==
  ASSUME ControlInv, DescriptorInv, NEW c \in Clients,
         Recv(c) \/ Write(c) \/ Written(c) \/ Read(c) \/ ReadBack(c) \/ Send(c) \/ Unlock(c)
  PROVE  DescriptorInv'
<1>1. UNCHANGED <<main, resume, conn, fptr, accepted_sockfd, read_fptr>>
  BY DEF Recv, Write, Written, Read, ReadBack, Send, Unlock, process, place, nodes, files
<1>2. {"recv", "open_write", "write", "written", "open", "read", "readback", "send",
       "unlock", "complete"} \subseteq Started \ {"exited"}
  BY DEF Started, Section, Writing, Reading
<1>3. CASE Recv(c)
  <2>1. UNCHANGED fd /\ pc[c] = "recv" /\ (Goto(c, "open_write") \/ UNCHANGED pc)
    BY <1>3, RecvReceives DEF Recv, files
  <2>2. Goto(c, "open_write") \/ Goto(c, "recv")
    BY <2>1 DEF Goto, ControlInv, Types
  <2> QED BY <1>1, <1>2, <2>1, <2>2, QuietKeepsDescriptorInv
<1>4. CASE Write(c)
  <2>1. UNCHANGED fd /\ pc[c] = "write" /\ Goto(c, "written")
    BY <1>4 DEF Write, At, process, files
  <2> QED BY <1>1, <1>2, <2>1, QuietKeepsDescriptorInv
<1>5. CASE Written(c)
  <2>1. fptr \in Descriptors
    BY DEF DescriptorInv, FdTypes
  <2>2. fd' = [fd EXCEPT ![fptr] = Closed] /\ pc[c] = "written" /\ Goto(c, "open")
    BY <1>5 DEF Written, At
  <2> QED BY <1>1, <2>1, <2>2, CloseDeviceKeepsDescriptorInv
<1>6. CASE Read(c)
  <2>1. UNCHANGED fd /\ pc[c] = "read" /\ Goto(c, "readback")
    BY <1>6 DEF Read, At, process, files
  <2> QED BY <1>1, <1>2, <2>1, QuietKeepsDescriptorInv
<1>7. CASE ReadBack(c)
  <2>1. pc[c] = "readback" /\ \/ Goto(c, "send") /\ fd' = [fd EXCEPT ![read_fptr] = Closed]
                              \/ Goto(c, "read") /\ UNCHANGED fd
    BY <1>7 DEF ReadBack, At
  <2>2. read_fptr \in Descriptors
    BY DEF DescriptorInv, FdTypes
  <2>3. CASE Goto(c, "send") /\ fd' = [fd EXCEPT ![read_fptr] = Closed]
    BY <1>1, <2>1, <2>2, <2>3, CloseDeviceKeepsDescriptorInv
  <2>4. CASE Goto(c, "read") /\ UNCHANGED fd
    BY <1>1, <1>2, <2>1, <2>4, QuietKeepsDescriptorInv
  <2> QED BY <2>1, <2>3, <2>4
<1>8. CASE Send(c)
  <2>1. UNCHANGED fd /\ pc[c] = "send" /\ Goto(c, "unlock")
    BY <1>8 DEF Send, At, files
  <2> QED BY <1>1, <1>2, <2>1, QuietKeepsDescriptorInv
<1>9. CASE Unlock(c)
  <2>1. UNCHANGED fd /\ pc[c] = "unlock" /\ Goto(c, "complete")
    BY <1>9 DEF Unlock, At, files
  <2> QED BY <1>1, <1>2, <2>1, QuietKeepsDescriptorInv
<1> QED BY <1>3, <1>4, <1>5, <1>6, <1>7, <1>8, <1>9

(* Lock and Complete leave descriptors alone; Close closes the client's own *)
(* connection or, after a signal, what was not open for another client.     *)
LEMMA FreeWorkerKeepsDescriptorInv ==
  ASSUME ControlInv, DescriptorInv, NEW c \in Clients, Lock(c) \/ Complete(c) \/ Close(c)
  PROVE  DescriptorInv'
<1>1. UNCHANGED <<main, resume, conn, fptr, accepted_sockfd, read_fptr>>
  BY DEF Lock, Complete, Close, place, nodes, files
<1>2. {"lock", "recv", "complete", "close"} \subseteq Started \ {"exited"} /\ "exited" \in Started
      /\ "close" \notin Section
  BY DEF Started, Section, Writing, Reading
<1>3. CASE Lock(c) \/ Complete(c)
  <2>1. UNCHANGED fd /\ \/ pc[c] = "lock" /\ Goto(c, "recv")
                        \/ pc[c] = "complete" /\ Goto(c, "close")
    BY <1>3 DEF Lock, Complete, At, files
  <2> QED BY <1>1, <1>2, <2>1, QuietKeepsDescriptorInv
<1>4. CASE Close(c)
  <2>1. /\ fd' = [n \in Descriptors |-> IF n = conn[c] THEN Closed ELSE fd[n]]
        /\ pc[c] = "close" /\ Goto(c, "exited")
    BY <1>4 DEF Close, At
  <2>2. pc'[c] = "exited" /\ \A d \in Clients \ {c} : pc'[d] = pc[d]
    BY <2>1 DEF Goto, ControlInv, Types
  <2>3. Intact' = Intact /\ Phase' = Phase
    BY <1>1 DEF Intact, Phase
  <2>4. FdTypes'
    BY <1>1, <2>1 DEF DescriptorInv, FdTypes
  <2>5. \A n \in Descriptors : fd'[n] # Closed => fd'[n] = fd[n]
    BY <2>1
  <2>6. FdInv'
    <3>1. \A n \in Descriptors, d \in Clients : fd'[n] = d => pc'[d] \notin {"away", "connected"}
      BY <2>2, <2>5, FileNames DEF DescriptorInv, FdInv
    <3>2. ASSUME NEW n \in Descriptors, fd'[n] = AesdChar
          PROVE  \E d \in Clients : \/ pc'[d] \in {"write", "written"} /\ n = fptr
                                    \/ pc'[d] \in {"read", "readback"} /\ n = read_fptr
      <4>1. fd[n] = AesdChar
        BY <2>5, <3>2, FileNames
      <4>2. PICK d \in Clients : \/ pc[d] \in {"write", "written"} /\ n = fptr
                                 \/ pc[d] \in {"read", "readback"} /\ n = read_fptr
        BY <4>1 DEF DescriptorInv, FdInv
      <4>3. pc'[d] = pc[d]
        BY <2>1, <2>2, <4>2
      <4> QED BY <4>2, <4>3
    <3>3. \A n \in Descriptors : fd'[n] = Listening => n = sockfd
      BY <2>5, FileNames DEF DescriptorInv, FdInv
    <3>4. main = "start" => \A n \in Descriptors : fd'[n] \in {Closed, DevNull}
      BY <2>5 DEF DescriptorInv, FdInv
    <3>5. \A k, n \in Descriptors : fd'[k] = fd'[n] /\ fd'[k] # Closed => k = n
      BY <2>5 DEF DescriptorInv, FdInv
    <3> QED BY <1>1, <3>1, <3>2, <3>3, <3>4, <3>5 DEF FdInv
  <2>7. IntactInv'
    <3> SUFFICES ASSUME Intact, NEW d \in Clients
                 PROVE  /\ pc'[d] = "accepted" => fd'[accepted_sockfd] = d
                        /\ pc'[d] = "accepted" /\ Phase = "create" => conn[d] = accepted_sockfd
                        /\ pc'[d] \in Started \ {"exited"} => conn[d] \in Descriptors /\ fd'[conn[d]] = d
                        /\ pc'[d] = "exited" => \A n \in Descriptors : fd'[n] # d
                        /\ pc'[d] \in {"write", "written"} => fd'[fptr] = AesdChar
                        /\ pc'[d] \in {"read", "readback"} => fd'[read_fptr] = AesdChar
      BY <1>1, <2>3 DEF IntactInv
    <3>1. conn[c] \in Descriptors /\ fd[conn[c]] = c
      BY <1>2, <2>1 DEF DescriptorInv, IntactInv
    <3>2. \A n \in Descriptors : n # conn[c] => fd'[n] = fd[n]
      BY <2>1
    <3>3. CASE d = c
      <4>1. \A n \in Descriptors : fd'[n] # c
        BY <2>1, <3>1, FileNames DEF DescriptorInv, FdInv
      <4> QED BY <2>2, <3>3, <4>1
    <3>4. CASE d # c
      <4>1. pc'[d] = pc[d]
        BY <2>2, <3>4
      <4>2. /\ accepted_sockfd \in Descriptors /\ fptr \in Descriptors
            /\ read_fptr \in Descriptors
        BY DEF DescriptorInv, FdTypes
      <4>3. c # AesdChar
        BY FileNames
      <4>4. \A n \in Descriptors : fd'[n] = d <=> fd[n] = d
        BY <2>1, <3>1, <3>4, FileNames
      <4>5. \A n \in Descriptors : fd[n] = AesdChar => fd'[n] = AesdChar
        BY <3>1, <3>2, <4>3
      <4> QED BY <4>1, <4>2, <4>4, <4>5 DEF DescriptorInv, IntactInv
    <3> QED BY <3>3, <3>4
  <2>8. ClosedInv'
    <3>1. ~Intact /\ main \notin {"close_sockfd", "ended"} => fd'[sockfd] # Listening
      BY <2>5, DescriptorsAreFinite, FileNames DEF DescriptorInv, ClosedInv
    <3>2. ASSUME NEW d \in Clients, NEW n \in Descriptors, fd[n] \notin Clients \ {d}
          PROVE  fd'[n] \notin Clients \ {d}
      BY <2>1, <3>2, FileNames
    <3> QED BY <1>1, <2>2, <2>3, <3>1, <3>2 DEF DescriptorInv, FdTypes, ClosedInv
  <2> QED BY <2>4, <2>6, <2>7, <2>8 DEF DescriptorInv
<1> QED BY <1>3, <1>4

(* Nothing is accepted from a client that only connects.                   *)
LEMMA ClientKeepsDescriptorInv ==
  ASSUME ControlInv, DescriptorInv, NEW c \in Clients, Connect(c) \/ Leave(c)
  PROVE  DescriptorInv'
<1>1. UNCHANGED <<main, resume, conn, fptr, accepted_sockfd, read_fptr, fd>>
  BY DEF Connect, Leave, process, place, nodes, files
<1>2. /\ "connected" \notin Started /\ "away" \notin Started
      /\ {"write", "written", "read", "readback"} \subseteq Started \ {"exited"}
  BY DEF Started, Section, Writing, Reading
<1>3. \A d \in Clients : \/ pc'[d] = pc[d]
                         \/ pc[d] = "away" /\ pc'[d] = "connected"
  BY DEF Connect, Leave, Goto, ControlInv, Types
<1>4. Intact' = Intact /\ Phase' = Phase
  BY <1>1 DEF Intact, Phase
<1>5. FdTypes'
  BY <1>1 DEF DescriptorInv, FdTypes
<1>6. FdInv'
  <2>1. ASSUME NEW n \in Descriptors, fd[n] = AesdChar
        PROVE  \E d \in Clients : \/ pc'[d] \in {"write", "written"} /\ n = fptr
                                  \/ pc'[d] \in {"read", "readback"} /\ n = read_fptr
    BY <1>3, <2>1 DEF DescriptorInv, FdInv
  <2>2. \A n \in Descriptors, d \in Clients : fd[n] = d => pc'[d] \notin {"away", "connected"}
    BY <1>3 DEF DescriptorInv, FdInv
  <2> QED BY <1>1, <2>1, <2>2 DEF DescriptorInv, FdInv
<1>7. IntactInv'
  BY <1>1, <1>2, <1>3, <1>4 DEF DescriptorInv, IntactInv
<1>8. ClosedInv'
  BY <1>1, <1>2, <1>3, <1>4 DEF DescriptorInv, ClosedInv
<1> QED BY <1>5, <1>6, <1>7, <1>8 DEF DescriptorInv

(* socket() and bind() come before all else.                               *)
LEMMA BindKeepsDescriptorInv ==
  ASSUME ControlInv, DescriptorInv, open_socket_then_bind
  PROVE  DescriptorInv'
<1>1. /\ main = "start" /\ main' = "create_file" /\ fd' = [fd EXCEPT ![sockfd] = Listening]
      /\ UNCHANGED <<pc, resume, conn, fptr, accepted_sockfd, read_fptr>>
  BY DEF open_socket_then_bind, place, nodes
<1>2. \A c \in Clients : pc[c] \in {"away", "connected"}
  BY <1>1 DEF ControlInv, MainInv, Phase
<1>3. /\ "connected" \notin Started /\ "away" \notin Started
      /\ "exited" \in Started
  BY DEF Started, Section, Writing, Reading
<1>4. /\ sockfd \in Descriptors /\ fd'[sockfd] = Listening
      /\ \A n \in Descriptors \ {sockfd} : fd'[n] = fd[n]
      /\ fd' \in [Descriptors -> Files \cup {Closed}]
      /\ \A n \in Descriptors : fd[n] \in {Closed, DevNull}
  BY <1>1, DescriptorsAreFinite DEF DescriptorInv, FdTypes, FdInv, Files
<1>5. FdTypes'
  BY <1>1, <1>4 DEF DescriptorInv, FdTypes
<1>6. FdInv'
  BY <1>1, <1>4, FileNames DEF DescriptorInv, FdInv
<1>7. IntactInv'
  BY <1>1, <1>2, <1>3 DEF IntactInv
<1>8. ClosedInv'
  <2>1. Intact'
    BY <1>1 DEF ControlInv, MainInv, Intact
  <2> QED BY <1>1, <1>2, <1>3, <2>1 DEF ClosedInv
<1> QED BY <1>5, <1>6, <1>7, <1>8 DEF DescriptorInv

(* Main's steps between clients.                                           *)
LEMMA MainKeepsDescriptorInv ==
  ASSUME ControlInv, DescriptorInv,
         create_new_file \/ Listen \/ VisitNode \/ JoinWorker \/ EndOfList
  PROVE  DescriptorInv'
<1>1. /\ {main, main'} \subseteq {"create_file", "listen", "accept", "join", "wait"}
      /\ UNCHANGED <<pc, resume, conn, accepted_sockfd, read_fptr, fd>>
  BY DEF create_new_file, Listen, VisitNode, JoinWorker, EndOfList, process, place, nodes, files
<1>2. \A c \in Clients : pc[c] # "accepted"
  BY <1>1 DEF ControlInv, MainInv, Phase
<1>3. Intact' = Intact /\ main' # "ended" /\ main # "ended" /\ main # "start" /\ main' # "start"
  BY <1>1 DEF Intact
<1>4. UNCHANGED fptr \/ /\ \A c \in Clients : pc[c] \notin Section
                        /\ fptr' = NextFd
  <2>1. CASE create_new_file
    <3>1. \A c \in Clients : pc[c] \in {"away", "connected"}
      BY <2>1 DEF create_new_file, ControlInv, MainInv, Phase
    <3> QED BY <2>1, <3>1 DEF create_new_file, Section, Writing, Reading
  <2> QED BY <2>1 DEF Listen, VisitNode, JoinWorker, EndOfList, process, files
<1>5. fptr' \in Descriptors /\ \A c \in Clients : pc[c] \in {"write", "written"} => UNCHANGED fptr
  <2>1. CASE UNCHANGED fptr
    BY <2>1 DEF DescriptorInv, FdTypes
  <2>2. CASE (\A c \in Clients : pc[c] \notin Section) /\ fptr' = NextFd
    <3>1. \A n \in Descriptors : fd[n] # AesdChar
      BY <2>2, DeviceIsClosed DEF DescriptorInv
    <3>2. NextFd \in Descriptors
      BY <3>1, NextFdIsFree DEF DescriptorInv, Files
    <3> QED BY <2>2, <3>2 DEF Section, Writing
  <2> QED BY <1>4, <2>1, <2>2
<1>6. FdTypes'
  BY <1>1, <1>5 DEF DescriptorInv, FdTypes
<1>7. FdInv'
  <2>1. ASSUME NEW n \in Descriptors, fd[n] = AesdChar
        PROVE  \E d \in Clients : \/ pc[d] \in {"write", "written"} /\ n = fptr'
                                  \/ pc[d] \in {"read", "readback"} /\ n = read_fptr
    BY <1>5, <2>1 DEF DescriptorInv, FdInv
  <2> QED BY <1>1, <1>3, <2>1 DEF DescriptorInv, FdInv
<1>8. IntactInv'
  <2> SUFFICES ASSUME Intact, NEW d \in Clients
               PROVE  /\ pc[d] \in Started \ {"exited"} => conn[d] \in Descriptors /\ fd[conn[d]] = d
                      /\ pc[d] = "exited" => \A n \in Descriptors : fd[n] # d
                      /\ pc[d] \in {"write", "written"} => fd[fptr'] = AesdChar
                      /\ pc[d] \in {"read", "readback"} => fd[read_fptr] = AesdChar
    BY <1>1, <1>2, <1>3 DEF IntactInv
  <2> QED BY <1>5 DEF DescriptorInv, IntactInv
<1>9. ClosedInv'
  BY <1>1, <1>2, <1>3 DEF DescriptorInv, ClosedInv
<1> QED BY <1>6, <1>7, <1>8, <1>9 DEF DescriptorInv

(* A connection gets a free descriptor; no signal has come.                *)
LEMMA AcceptKeepsDescriptorInv ==
  ASSUME ControlInv, DescriptorInv, accept_connection
  PROVE  DescriptorInv'
<1> DEFINE new == NextFd
<1>1. PICK c \in Clients : /\ pc[c] = "connected" /\ Goto(c, "accepted")
                           /\ accepted_sockfd' = new /\ fd' = [fd EXCEPT ![new] = c]
  BY DEF accept_connection
<1>2. /\ main = "accept" /\ main' = "insert" /\ fd[sockfd] = Listening
      /\ UNCHANGED <<resume, conn, fptr, read_fptr>>
  BY DEF accept_connection, place, nodes
<1>3. Intact /\ Intact' /\ Phase' = "insert"
  BY <1>2 DEF DescriptorInv, ClosedInv, Intact, Phase
<1>4. \A n \in Descriptors : fd[n] # c
  BY <1>1 DEF DescriptorInv, FdInv
<1>5. new \in Descriptors /\ fd[new] = Closed
  BY <1>4, NextFdIsFree DEF DescriptorInv, Files
<1> HIDE DEF new
<1>6. /\ pc'[c] = "accepted" /\ \A d \in Clients \ {c} : pc'[d] = pc[d] /\ pc[d] # "accepted"
  BY <1>1, <1>2 DEF Goto, ControlInv, Types, MainInv, Phase
<1>7. /\ "accepted" \notin Started /\ "connected" \notin Started
      /\ {"write", "written", "read", "readback", "exited"} \subseteq Started
  BY DEF Started, Section, Writing, Reading
<1>8. /\ fd' \in [Descriptors -> Files \cup {Closed}]
      /\ fd'[new] = c /\ \A n \in Descriptors \ {new} : fd'[n] = fd[n]
  BY <1>1, <1>5 DEF DescriptorInv, FdTypes, Files
<1>9. FdTypes'
  BY <1>1, <1>2, <1>5, <1>8 DEF DescriptorInv, FdTypes
<1>10. FdInv'
  <2>1. ASSUME NEW m \in Descriptors, NEW n \in Descriptors, fd'[m] = fd'[n], fd'[m] # Closed
        PROVE  m = n
    BY <1>4, <1>8, <2>1 DEF DescriptorInv, FdInv
  <2>2. ASSUME NEW n \in Descriptors, NEW d \in Clients, fd'[n] = d
        PROVE  pc'[d] \notin {"away", "connected"}
    BY <1>6, <1>8, <2>2 DEF DescriptorInv, FdInv
  <2>3. \A n \in Descriptors : fd'[n] = Listening => n = sockfd
    BY <1>8, FileNames DEF DescriptorInv, FdInv
  <2>4. ASSUME NEW n \in Descriptors, fd'[n] = AesdChar
        PROVE  \E d \in Clients : \/ pc'[d] \in {"write", "written"} /\ n = fptr
                                  \/ pc'[d] \in {"read", "readback"} /\ n = read_fptr
    <3>1. fd[n] = AesdChar
      BY <1>8, <2>4, FileNames
    <3>2. PICK d \in Clients : \/ pc[d] \in {"write", "written"} /\ n = fptr
                               \/ pc[d] \in {"read", "readback"} /\ n = read_fptr
      BY <3>1 DEF DescriptorInv, FdInv
    <3> QED BY <1>1, <1>6, <3>2
  <2> QED BY <1>2, <2>1, <2>2, <2>3, <2>4 DEF FdInv
<1>11. IntactInv'
  <2> SUFFICES ASSUME NEW d \in Clients
               PROVE  /\ pc'[d] = "accepted" => fd'[new] = d
                      /\ pc'[d] \in Started \ {"exited"} => conn[d] \in Descriptors /\ fd'[conn[d]] = d
                      /\ pc'[d] = "exited" => \A n \in Descriptors : fd'[n] # d
                      /\ pc'[d] \in {"write", "written"} => fd'[fptr] = AesdChar
                      /\ pc'[d] \in {"read", "readback"} => fd'[read_fptr] = AesdChar
    BY <1>1, <1>2, <1>3 DEF IntactInv
  <2>1. CASE d = c
    BY <1>6, <1>7, <1>8, <2>1
  <2>2. CASE d # c
    <3>1. pc'[d] = pc[d] /\ pc[d] # "accepted"
      BY <1>6, <2>2
    <3>2. fptr \in Descriptors /\ read_fptr \in Descriptors
      BY DEF DescriptorInv, FdTypes
    <3>3. \A n \in Descriptors : fd[n] # Closed => fd'[n] = fd[n]
      BY <1>5, <1>8
    <3>4. \A n \in Descriptors : fd'[n] = d => fd[n] = d
      BY <1>8, <2>2
    <3> QED BY <1>3, <3>1, <3>2, <3>3, <3>4, FileNames DEF DescriptorInv, IntactInv
  <2> QED BY <2>1, <2>2
<1>12. ClosedInv'
  <2>1. \A d \in Clients : pc'[d] = "accepted" => fd'[accepted_sockfd'] \notin Clients \ {d}
    BY <1>1, <1>6, <1>8
  <2>2. \A d \in Clients : pc'[d] \in Started \ {"exited"}
                           => (conn'[d] \in Descriptors => fd'[conn'[d]] \notin Clients \ {d})
    BY <1>3, <1>11 DEF IntactInv
  <2>3. Phase' # "create"
    BY <1>3
  <2> QED BY <1>3, <2>1, <2>2, <2>3 DEF ClosedInv
<1> QED BY <1>9, <1>10, <1>11, <1>12 DEF DescriptorInv

(* A node remembers the connection's descriptor, and the thread gets the   *)
(* node.                                                                   *)
LEMMA NewWorkerKeepsDescriptorInv ==
  ASSUME ControlInv, DescriptorInv, InsertNode \/ CreateThread
  PROVE  DescriptorInv'
<1>1. UNCHANGED <<resume, fptr, accepted_sockfd, read_fptr, fd>>
  BY DEF InsertNode, CreateThread, place, files
<1>2. /\ {"lock", "write", "written", "read", "readback", "exited"} \subseteq Started
      /\ "accepted" \notin Started
  BY DEF Started, Section, Writing, Reading
<1>3. CASE InsertNode
  <2>1. PICK c \in Clients : pc[c] = "accepted" /\ conn' = [conn EXCEPT ![c] = accepted_sockfd]
    BY <1>3 DEF InsertNode
  <2>2. main = "insert" /\ main' = "create" /\ UNCHANGED pc
    BY <1>3 DEF InsertNode
  <2>3. Intact' = Intact /\ Phase' = "create"
    BY <1>1, <2>2 DEF Intact, Phase
  <2>4. \A d \in Clients \ {c} : pc[d] # "accepted" /\ conn'[d] = conn[d]
    BY <2>1 DEF ControlInv, MainInv, DescriptorInv, FdTypes
  <2>5. conn'[c] = accepted_sockfd /\ accepted_sockfd \in Descriptors
        /\ conn' \in [Clients -> Descriptors \cup {-1}]
    BY <2>1 DEF DescriptorInv, FdTypes
  <2>6. FdTypes' /\ FdInv'
    BY <1>1, <2>2, <2>5 DEF DescriptorInv, FdTypes, FdInv
  <2>7. IntactInv'
    BY <1>1, <1>2, <2>1, <2>2, <2>3, <2>4, <2>5 DEF DescriptorInv, IntactInv
  <2>8. ClosedInv'
    BY <1>1, <1>2, <2>1, <2>2, <2>3, <2>4, <2>5 DEF DescriptorInv, ClosedInv
  <2> QED BY <2>6, <2>7, <2>8 DEF DescriptorInv
<1>4. CASE CreateThread
  <2>1. PICK c \in Clients : pc[c] = "accepted" /\ Goto(c, "lock")
    BY <1>4 DEF CreateThread
  <2>2. main = "create" /\ main' = "join" /\ UNCHANGED conn
    BY <1>4 DEF CreateThread
  <2>3. Intact' = Intact /\ Phase = "create" /\ Phase' = "join"
    BY <1>1, <2>2 DEF Intact, Phase
  <2>4. pc'[c] = "lock" /\ \A d \in Clients \ {c} : pc[d] # "accepted" /\ pc'[d] = pc[d]
    BY <2>1 DEF Goto, ControlInv, Types, MainInv
  <2>5. FdTypes'
    BY <1>1, <2>2 DEF DescriptorInv, FdTypes
  <2>6. FdInv'
    <3>1. ASSUME NEW n \in Descriptors, fd[n] = AesdChar
          PROVE  \E d \in Clients : \/ pc'[d] \in {"write", "written"} /\ n = fptr
                                    \/ pc'[d] \in {"read", "readback"} /\ n = read_fptr
      BY <2>1, <2>4, <3>1 DEF DescriptorInv, FdInv
    <3>2. \A n \in Descriptors, d \in Clients : fd[n] = d => pc'[d] \notin {"away", "connected"}
      BY <2>4 DEF DescriptorInv, FdInv
    <3> QED BY <1>1, <2>2, <3>1, <3>2 DEF DescriptorInv, FdInv
  <2>7. IntactInv'
    <3> SUFFICES ASSUME Intact, NEW d \in Clients
                 PROVE  /\ pc'[d] \in Started \ {"exited"} => conn[d] \in Descriptors /\ fd[conn[d]] = d
                        /\ pc'[d] = "exited" => \A n \in Descriptors : fd[n] # d
                        /\ pc'[d] \in {"write", "written"} => fd[fptr] = AesdChar
                        /\ pc'[d] \in {"read", "readback"} => fd[read_fptr] = AesdChar
                        /\ pc'[d] # "accepted"
      BY <1>1, <2>2, <2>3 DEF IntactInv
    <3>1. CASE d = c
      <4>1. conn[c] = accepted_sockfd /\ fd[accepted_sockfd] = c /\ accepted_sockfd \in Descriptors
        BY <2>1, <2>3 DEF DescriptorInv, IntactInv, FdTypes
      <4> QED BY <2>4, <3>1, <4>1
    <3>2. CASE d # c
      <4>1. pc'[d] = pc[d] /\ pc[d] # "accepted"
        BY <2>4, <3>2
      <4> QED BY <4>1 DEF DescriptorInv, IntactInv
    <3> QED BY <3>1, <3>2
  <2>8. ClosedInv'
    <3>1. \A d \in Clients : pc'[d] # "accepted"
      BY <2>4
    <3>2. \A d \in Clients : pc'[d] \in Started \ {"exited"} =>
                               \/ pc[d] \in Started \ {"exited"}
                               \/ pc[d] = "accepted" /\ Phase = "create"
      BY <2>1, <2>3, <2>4
    <3> QED BY <1>1, <2>2, <2>3, <3>1, <3>2 DEF DescriptorInv, ClosedInv
  <2> QED BY <2>5, <2>6, <2>7, <2>8 DEF DescriptorInv
<1> QED BY <1>3, <1>4

(* When a signal comes everything is open as it was until the handler      *)
(* closes; after that the listening socket is closed.                      *)
LEMMA HandlerKeepsDescriptorInv ==
  ASSUME ControlInv, DescriptorInv, Signal \/ sighandler
  PROVE  DescriptorInv'
<1>1. UNCHANGED <<pc, fptr, accepted_sockfd, read_fptr>>
  BY DEF Signal, sighandler, CloseFptr, CloseSockfd, CloseAccepted, FreeBuffers, DeleteList,
         files
<1>2. CASE Signal
  <2>1. /\ resume = "none" /\ main \notin {"start", "close", "close_sockfd", "close_accepted", "free", "delete"}
        /\ main' = "close" /\ UNCHANGED <<conn, fd>> /\ resume' = main
    BY <1>2 DEF Signal, ControlInv, MainInv, nodes, files
  <2>2. Intact /\ Intact' /\ Phase' = Phase
    BY <2>1 DEF Intact, Phase
  <2> QED BY <1>1, <2>1, <2>2 DEF DescriptorInv, FdTypes, FdInv, IntactInv, ClosedInv
<1>3. CASE CloseFptr \/ CloseSockfd \/ CloseAccepted
  <2>1. /\ \/ main = "close" /\ main' = "close_sockfd"
           \/ main = "close_sockfd" /\ main' = "close_accepted" /\ fd'[sockfd] = Closed
           \/ main = "close_accepted" /\ main' = "free"
        /\ UNCHANGED <<resume, conn>>
        /\ \E m \in Descriptors : fd' = [fd EXCEPT ![m] = Closed]
    BY <1>3, DescriptorsAreFinite
       DEF CloseFptr, CloseSockfd, CloseAccepted, CloseNumber, DescriptorInv, FdTypes,
           place, nodes
  <2>2. resume # "none" /\ ~Intact' /\ Phase' = Phase
    BY <2>1 DEF ControlInv, MainInv, Intact, Phase
  <2>3. /\ fd' \in [Descriptors -> Files \cup {Closed}]
        /\ \A n \in Descriptors : fd'[n] # Closed => fd'[n] = fd[n]
    BY <2>1 DEF DescriptorInv, FdTypes
  <2>4. main' # "close_sockfd" => fd'[sockfd] # Listening
    <3>1. sockfd \in Descriptors
      BY DescriptorsAreFinite
    <3>2. CASE main = "close_sockfd"
      BY <2>1, <3>2, FileNames
    <3>3. CASE main = "close_accepted"
      <4>1. fd[sockfd] # Listening
        BY <2>2, <2>1, <3>3 DEF DescriptorInv, ClosedInv, Intact
      <4> QED BY <2>3, <3>1, <4>1, FileNames
    <3> QED BY <2>1, <3>2, <3>3
  <2>5. FdTypes'
    BY <1>1, <2>1, <2>3 DEF DescriptorInv, FdTypes
  <2>6. FdInv'
    <3>1. \A n \in Descriptors, d \in Clients : fd'[n] = d => fd[n] = d
      BY <2>3, FileNames
    <3>2. \A n \in Descriptors : fd'[n] = Listening => n = sockfd
      BY <2>3, FileNames DEF DescriptorInv, FdInv
    <3>3. \A n \in Descriptors : fd'[n] = AesdChar => fd[n] = AesdChar
      BY <2>3, FileNames
    <3>4. \A k, n \in Descriptors : fd'[k] = fd'[n] /\ fd'[k] # Closed => k = n
      BY <2>3 DEF DescriptorInv, FdInv
    <3> QED BY <1>1, <2>1, <3>1, <3>2, <3>3, <3>4 DEF DescriptorInv, FdInv
  <2>7. ClosedInv'
    <3>1. ASSUME NEW d \in Clients, NEW n \in Descriptors, fd[n] \notin Clients \ {d}
          PROVE  fd'[n] \notin Clients \ {d}
      BY <2>3, <3>1, FileNames
    <3> QED BY <1>1, <2>1, <2>2, <2>3, <2>4, <3>1, FileNames
            DEF DescriptorInv, FdTypes, ClosedInv
  <2> QED BY <2>2, <2>5, <2>6, <2>7 DEF DescriptorInv, IntactInv
<1>4. CASE FreeBuffers
  <2>1. main = "free" /\ main' = "delete" /\ UNCHANGED <<resume, conn, fd>>
    BY <1>4 DEF FreeBuffers, place, nodes, files
  <2>2. /\ ~Intact /\ ~Intact' /\ Phase' = Phase
        /\ main # "close_sockfd" /\ main # "ended"
    BY <2>1 DEF ControlInv, MainInv, Intact, Phase
  <2> QED BY <1>1, <2>1, <2>2 DEF DescriptorInv, FdTypes, FdInv, IntactInv, ClosedInv
<1>5. CASE DeleteList
  <2>1. /\ main = "delete" /\ main' = resume /\ UNCHANGED <<resume, fd>>
        /\ conn' \in {conn, [c \in Clients |-> -1]}
    BY <1>5 DEF DeleteList, place
  <2>2. resume \notin {"none", "start", "ended", "close", "close_sockfd",
                         "close_accepted", "free", "delete"}
    BY <2>1 DEF ControlInv, Types, MainInv
  <2>3. ~Intact /\ ~Intact' /\ Phase' = Phase /\ main' # "start"
    BY <2>1, <2>2 DEF Intact, Phase
  <2>4. FdTypes' /\ FdInv'
    BY <1>1, <2>1, <2>3 DEF DescriptorInv, FdTypes, FdInv
  <2>5. ClosedInv'
    <3>1. \A d \in Clients, n \in Descriptors : conn'[d] = n => conn[d] = n
      BY <2>1, DescriptorsAreFinite
    <3>2. ~Intact /\ main # "close_sockfd" /\ main # "ended"
      BY <2>1, <2>3
    <3> QED BY <1>1, <2>1, <2>3, <3>1, <3>2 DEF DescriptorInv, ClosedInv
  <2> QED BY <2>3, <2>4, <2>5 DEF DescriptorInv, IntactInv
<1> QED BY <1>2, <1>3, <1>4, <1>5 DEF sighandler

(* Every step keeps the second layer.                                      *)
LEMMA NextDescriptorInv == ControlInv /\ DescriptorInv /\ [Next]_vars => DescriptorInv'
<1> SUFFICES ASSUME ControlInv, DescriptorInv, [Next]_vars PROVE DescriptorInv'
  OBVIOUS
<1>1. CASE UNCHANGED vars
  <2>1. UNCHANGED <<main, pc, resume, conn, fptr, accepted_sockfd, read_fptr, fd>>
    BY <1>1 DEF vars, process, place, nodes, files
  <2> QED BY <2>1 DEF DescriptorInv, FdTypes, FdInv, IntactInv, ClosedInv, Intact, Phase
<1>2. CASE Main
  BY <1>2, BindKeepsDescriptorInv, MainKeepsDescriptorInv, AcceptKeepsDescriptorInv,
     NewWorkerKeepsDescriptorInv, ExitKeepsDescriptorInv DEF Main, ListeningClosed
<1>3. CASE MainExits \/ JoinUnmapped \/ DoubleFree
  BY <1>3, ExitKeepsDescriptorInv DEF MainExits, JoinUnmapped, DoubleFree
<1>4. CASE Signal \/ sighandler
  BY <1>4, HandlerKeepsDescriptorInv
<1>5. ASSUME NEW c \in Clients, Connect(c) \/ Leave(c) \/ Lock(c) \/ WorkerExits(c)
      PROVE  DescriptorInv'
  BY <1>5, ClientKeepsDescriptorInv, FreeWorkerKeepsDescriptorInv, ExitKeepsDescriptorInv
     DEF WorkerExits
<1>6. ASSUME NEW c \in Clients, Worker(c)
      PROVE  DescriptorInv'
  BY <1>6, HolderKeepsDescriptorInv, OpenKeepsDescriptorInv, FreeWorkerKeepsDescriptorInv,
     ExitKeepsDescriptorInv DEF Worker, WorkerFails
<1> QED BY <1>1, <1>2, <1>3, <1>4, <1>5, <1>6 DEF Next

(* The second layer holds throughout.                                      *)
LEMMA DescriptorInvariant == Spec => []DescriptorInv
BY InitDescriptorInv, NextDescriptorInv, ControlInvariant, PTL DEF Spec

(* Types, and what they rest on: there is a descriptor for everything the  *)
(* server opens, a client has at most one node, and only threads that have *)
(* ended have been joined (aesdsocket.c:371, 405, 642-720).                *)
THEOREM ServerTypes == Spec => []TypeOK
<1>1. ControlInv /\ DescriptorInv => TypeOK
  <2> SUFFICES ASSUME ControlInv, DescriptorInv PROVE TypeOK
    OBVIOUS
  <2>1. /\ cursor \in 1 .. Cardinality(Clients) + 1
        /\ list \in Seq(Clients) /\ IsInjective(list)
        /\ thread_id \in [Clients -> 0 .. Cardinality(Clients)]
        /\ joined \subseteq {c \in Clients : pc[c] = "exited"}
        /\ read_data_len \in Nat
    BY DEF ControlInv, ListInv, ThreadInv, BufferInv
  <2>2. /\ {fptr, accepted_sockfd, read_fptr} \subseteq Descriptors
        /\ conn \in [Clients -> Descriptors \cup {-1}]
        /\ fd \in [Descriptors -> Clients \cup {Closed, Listening, AesdChar, DevNull}]
    <3>1. Files \cup {Closed} = Clients \cup {Closed, Listening, AesdChar, DevNull}
      BY DEF Files
    <3> QED BY <3>1 DEF DescriptorInv, FdTypes
  <2> QED BY <2>1, <2>2 DEF ControlInv, Types, TypeOK
<1> QED BY <1>1, ControlInvariant, DescriptorInvariant, PTL

(* A worker never closes, reads or writes what another client has open,    *)
(* though descriptors are used again, and until a signal comes every       *)
(* connection is open once and the device at most once, for the worker     *)
(* that holds the mutex (aesdsocket.c:371, 405, 423, 442).                 *)
THEOREM WorkersOwnDescriptors == Spec => []DescriptorsOwned
<1>1. ControlInv /\ DescriptorInv => DescriptorsOwned
  <2> SUFFICES ASSUME ControlInv, DescriptorInv PROVE DescriptorsOwned
    OBVIOUS
  <2>1. ASSUME NEW c \in Clients, pc[c] \notin {"away", "connected", "accepted", "exited"}
        PROVE  FileOf(conn[c]) \notin Clients \ {c}
    <3>1. pc[c] \in Started \ {"exited"}
      BY <2>1 DEF ControlInv, Types
    <3>2. conn[c] \in Descriptors => fd[conn[c]] \notin Clients \ {c}
      BY <3>1 DEF DescriptorInv, ClosedInv
    <3> QED BY <3>2, FileNames DEF FileOf
  <2>2. ASSUME resume = "none", NEW c \in Clients
        PROVE  {n \in Descriptors : fd[n] = c} =
                 CASE pc[c] \in {"away", "connected", "exited"} -> {}
                   [] pc[c] = "accepted" -> {accepted_sockfd}
                   [] OTHER -> {conn[c]}
    <3>0. Intact
      BY <2>2 DEF Intact
    <3>1. ASSUME NEW m \in Descriptors, fd[m] = c
          PROVE  {n \in Descriptors : fd[n] = c} = {m}
      <4>1. \A n \in Descriptors : fd[n] = c => n = m
        BY <3>1, FileNames DEF DescriptorInv, FdInv
      <4> QED BY <3>1, <4>1
    <3>2. CASE pc[c] \in {"away", "connected", "exited"}
      <4>1. \A n \in Descriptors : fd[n] # c
        BY <3>0, <3>2 DEF DescriptorInv, FdInv, IntactInv
      <4> QED BY <3>2, <4>1
    <3>3. CASE pc[c] = "accepted"
      <4>1. accepted_sockfd \in Descriptors /\ fd[accepted_sockfd] = c
        BY <3>0, <3>3 DEF DescriptorInv, FdTypes, IntactInv
      <4> QED BY <3>1, <3>3, <4>1
    <3>4. CASE pc[c] \notin {"away", "connected", "exited", "accepted"}
      <4>1. pc[c] \in Started \ {"exited"}
        BY <3>4 DEF ControlInv, Types
      <4>2. conn[c] \in Descriptors /\ fd[conn[c]] = c
        BY <3>0, <4>1 DEF DescriptorInv, IntactInv
      <4> QED BY <3>1, <3>4, <4>2
    <3> QED BY <3>2, <3>3, <3>4
  <2>3. ASSUME NEW n \in Descriptors, fd[n] = AesdChar
        PROVE  /\ mutex_lock # NoClient
               /\ n = IF pc[mutex_lock] \in {"write", "written"} THEN fptr ELSE read_fptr
    <3>1. PICK c \in Clients : \/ pc[c] \in {"write", "written"} /\ n = fptr
                               \/ pc[c] \in {"read", "readback"} /\ n = read_fptr
      BY <2>3 DEF DescriptorInv, FdInv
    <3>2. pc[c] \in Section
      BY <3>1 DEF Section, Writing, Reading
    <3>3. mutex_lock = c
      BY <3>2 DEF ControlInv, MutexInv
    <3> QED BY <3>1, <3>3, ClientsAssumption
  <2> QED BY <2>1, <2>2, <2>3 DEF DescriptorsOwned
<1> QED BY <1>1, ControlInvariant, DescriptorInvariant, PTL

-----------------------------------------------------------------------------
(* Lengths.  Between its write and the end of its reading a worker may have *)
(* counted more than the device holds; otherwise the two agree.            *)
Data == FlattenSeq(log)
(* Places between a write and the count that includes its bytes, and those *)
(* that read up to that count.                                             *)
Counting == {"written", "open", "read", "readback"}

(* Types of the device and of what a worker reads from it.                 *)
LogTypes ==
  /\ log \in Seq(Seq(Byte)) /\ partial \in Seq(Byte)
  /\ f_pos \in [Clients -> Nat] /\ ubuf \in [Clients -> Seq(Byte)]
  /\ \A c \in Clients : pc[c] \in Reading => read_buffer \in Seq(Byte)
  /\ \A c \in Clients : pc[c] # "readback" => ubuf[c] = << >>

(* The count follows the bytes written: no more is in the device than has  *)
(* been counted, and outside the places that count they agree.             *)
CountInv ==
  /\ \A c \in Clients :
       /\ pc[c] = "written" => Len(Data) + Len(partial) <= read_data_len + Len(recv_data)
       /\ pc[c] \in {"open", "read", "readback"} => Len(Data) + Len(partial) <= read_data_len
       /\ pc[c] \in {"read", "readback"} =>
            Len(read_buffer) + Len(ubuf[c]) = f_pos[c] /\ f_pos[c] <= Len(Data)
       /\ pc[c] = "send" => Len(read_buffer) = read_data_len
  /\ (\A c \in Clients : pc[c] \notin Counting) => read_data_len = Len(Data) /\ partial = << >>

(* The third layer: read_data_len and the length of the device.            *)
LengthInv == LogTypes /\ CountInv

-----------------------------------------------------------------------------
(* A write puts what it is given, with what was waiting, into the log or   *)
(* makes it wait; what leaves the log makes its length smaller.            *)
LEMMA DeviceWrites ==
  ASSUME log \in Seq(Seq(Byte)), partial \in Seq(Byte),
         NEW c \in Clients, NEW s \in Seq(Byte), Device!Write(c, s)
  PROVE  /\ UNCHANGED <<f_pos, ubuf>>
         /\ log' \in Seq(Seq(Byte)) /\ partial' \in Seq(Byte)
         /\ Len(FlattenSeq(log')) + Len(partial') <= Len(FlattenSeq(log)) + Len(partial) + Len(s)
         /\ partial = << >> /\ Len(log) < Slots =>
              \/ log' = log /\ partial' = s
              \/ log' = Append(log, s) /\ partial' = << >>
<1> DEFINE line == partial \o s
<1>1. line \in Seq(Byte) /\ Len(line) = Len(partial) + Len(s) /\ Len(partial) \in Nat /\ Len(s) \in Nat
  BY ConcatProperties, LenProperties
<1>2. partial = << >> => line = s
  BY ConcatEmptySeq
<1>3. UNCHANGED <<f_pos, ubuf>>
  BY DEF Device!Write
<1>4. \/ log' = Device!Push(log, line) /\ partial' = << >>
      \/ log' = log /\ partial' = line
  BY DEF Device!Write
<1> HIDE DEF line
<1>5. Len(log) \in Nat /\ Len(FlattenSeq(log)) \in Nat /\ << >> \in Seq(Byte) /\ Len(<< >>) = 0
  BY LenProperties, FlattenProperties, EmptySeq
<1>6. CASE log' = log /\ partial' = line
  BY <1>1, <1>2, <1>3, <1>5, <1>6
<1>7. CASE log' = Device!Push(log, line) /\ partial' = << >>
  <2>1. ASSUME NEW kept \in Seq(Seq(Byte)), log' = Append(kept, line),
               Len(FlattenSeq(kept)) <= Len(FlattenSeq(log))
        PROVE  /\ log' \in Seq(Seq(Byte))
               /\ Len(FlattenSeq(log')) + Len(partial') <= Len(FlattenSeq(log)) + Len(partial) + Len(s)
    <3>1. Append(kept, line) \in Seq(Seq(Byte))
      BY <1>1, AppendProperties
    <3>2. Len(FlattenSeq(Append(kept, line))) = Len(FlattenSeq(kept)) + Len(line)
      BY <1>1, FlattenAppend
    <3>3. Len(FlattenSeq(kept)) \in Nat
      BY FlattenProperties
    <3> QED BY <1>1, <1>5, <1>7, <2>1, <3>1, <3>2, <3>3
  <2>2. CASE Len(log) = Slots
    <3>1. log # << >> /\ Len(log) # 0
      BY <2>2, DeviceAssumption, EmptySeq
    <3>2. /\ log[1] \in Seq(Byte) /\ Tail(log) \in Seq(Seq(Byte))
          /\ FlattenSeq(log) = log[1] \o FlattenSeq(Tail(log))
      BY <3>1, FlattenHead
    <3>3. FlattenSeq(Tail(log)) \in Seq(Byte) /\ Len(FlattenSeq(Tail(log))) \in Nat
      BY <3>2, FlattenProperties
    <3>4. Len(log[1]) \in Nat /\ Len(log[1] \o FlattenSeq(Tail(log))) = Len(log[1]) + Len(FlattenSeq(Tail(log)))
      BY <3>2, <3>3, ConcatProperties, LenProperties
    <3>5. Len(FlattenSeq(Tail(log))) <= Len(FlattenSeq(log))
      BY <3>2, <3>3, <3>4
    <3>6. log' = Append(Tail(log), line)
      BY <1>7, <2>2 DEF Device!Push
    <3>7. /\ log' \in Seq(Seq(Byte))
          /\ Len(FlattenSeq(log')) + Len(partial') <= Len(FlattenSeq(log)) + Len(partial) + Len(s)
      BY <2>1, <3>2, <3>5, <3>6
    <3>8. partial' \in Seq(Byte)
      BY <1>5, <1>7
    <3>9. ~(Len(log) < Slots)
      BY <1>5, <2>2
    <3> QED BY <1>3, <3>7, <3>8, <3>9
  <2>3. CASE Len(log) # Slots
    <3>1. log' = Append(log, line)
      BY <1>7, <2>3 DEF Device!Push
    <3>2. Len(FlattenSeq(log)) <= Len(FlattenSeq(log))
      BY <1>5
    <3>3. /\ log' \in Seq(Seq(Byte))
          /\ Len(FlattenSeq(log')) + Len(partial') <= Len(FlattenSeq(log)) + Len(partial) + Len(s)
      BY <2>1, <3>1, <3>2
    <3>4. partial' \in Seq(Byte)
      BY <1>5, <1>7
    <3>5. partial = << >> => log' = Append(log, s) /\ partial' = << >>
      BY <1>2, <1>7, <3>1
    <3> QED BY <1>3, <3>3, <3>4, <3>5
  <2> QED BY <2>2, <2>3
<1> QED BY <1>4, <1>6, <1>7

(* A read returns the next bytes of the log. *)
LEMMA DeviceReads ==
  ASSUME LogTypes, NEW c \in Clients, f_pos[c] <= Len(Data),
         NEW count \in Nat, Device!Read(c, count)
  PROVE  \E bytes \in Seq(Byte) :
           /\ ubuf' = [ubuf EXCEPT ![c] = bytes]
           /\ f_pos' = [f_pos EXCEPT ![c] = @ + Len(bytes)]
           /\ UNCHANGED <<log, partial>>
           /\ f_pos[c] + Len(bytes) <= Len(Data)
           /\ SubSeq(Data, 1, f_pos[c]) \o bytes = SubSeq(Data, 1, f_pos[c] + Len(bytes))
<1> DEFINE pos == f_pos[c]
           rest == Device!RestOfCommand(pos)
<1>1. log \in Seq(Seq(Byte)) /\ pos \in Nat /\ Data \in Seq(Byte)
      /\ Len(Data) \in Nat
  BY FlattenProperties DEF LogTypes, Data
<1>2. rest = RestAt(log, pos)
  <2> DEFINE start(i) == Len(Device!FlattenSeq(SubSeq(log, 1, i - 1)))
             at == {i \in 1 .. Len(log) : start(i) <= pos /\ pos < start(i) + Len(log[i])}
             first == CHOOSE i \in at : TRUE
  <2>1. rest = IF at = {} THEN << >>
               ELSE SubSeq(log[first], pos - start(first) + 1, Len(log[first]))
    BY Zenon DEF Device!RestOfCommand
  <2>2. \A t : Device!FlattenSeq(t) = FlattenSeq(t)
    BY DEF Device!FlattenSeq, FlattenSeq
  <2>3. \A i : start(i) = LineStart(log, i - 1)
    BY <2>2 DEF LineStart
  <2>4. at = LinesAt(log, pos)
    <3> HIDE DEF start
    <3> QED BY <2>3 DEF LinesAt
  <2> HIDE DEF at, start
  <2> QED BY <2>1, <2>3, <2>4 DEF RestAt
<1> HIDE DEF rest
<1>3. RestAt(log, pos) \in Seq(Byte) /\ Len(RestAt(log, pos)) \in Nat
  BY <1>1, RestAtIsSeq
<1>4. PICK k \in Nat :
        /\ k \in 0 .. Len(RestAt(log, pos))
        /\ ubuf' = [ubuf EXCEPT ![c] = SubSeq(RestAt(log, pos), 1, k)]
        /\ f_pos' = [f_pos EXCEPT ![c] = @ + k]
        /\ UNCHANGED <<log, partial>>
  <2> DEFINE k == IF Len(rest) > count THEN count ELSE Len(rest)
  <2>1. /\ ubuf' = [ubuf EXCEPT ![c] = SubSeq(rest, 1, k)]
        /\ f_pos' = [f_pos EXCEPT ![c] = @ + k]
        /\ UNCHANGED <<log, partial>>
    BY DEF Device!Read, Device!Transferred, rest
  <2>2. k \in 0 .. Len(rest) /\ k \in Nat
    BY <1>2, <1>3
  <2> HIDE DEF k
  <2>3. /\ k \in 0 .. Len(RestAt(log, pos))
        /\ ubuf' = [ubuf EXCEPT ![c] = SubSeq(RestAt(log, pos), 1, k)]
    BY <1>2, <2>1, <2>2
  <2> QED BY <2>1, <2>2, <2>3
<1>5. /\ pos + k <= Len(Data)
      /\ SubSeq(RestAt(log, pos), 1, k) \in Seq(Byte)
      /\ Len(SubSeq(RestAt(log, pos), 1, k)) = k
      /\ SubSeq(Data, 1, pos) \o SubSeq(RestAt(log, pos), 1, k) = SubSeq(Data, 1, pos + k)
  <2>1. pos \in 0 .. Len(FlattenSeq(log))
    BY <1>1 DEF Data
  <2>2. k \in 0 .. Len(RestAt(log, pos)) /\ log \in Seq(Seq(Byte))
    BY <1>1, <1>4
  <2> HIDE DEF pos
  <2> QED BY <2>1, <2>2, ReadGoesOn DEF Data
<1> QED BY <1>4, <1>5

(* The device is empty, if it is, and nothing has been counted.            *)
LEMMA InitLengthInv == Init /\ Fresh => LengthInv
<1> SUFFICES ASSUME Init, Fresh PROVE LengthInv
  OBVIOUS
<1>1. << >> \in Seq(Byte) /\ << >> \in Seq(Seq(Byte)) /\ Len(<< >>) = 0
  BY EmptySeq
<1>2. /\ log = << >> /\ partial = << >> /\ f_pos = [c \in Clients |-> 0]
      /\ ubuf = [c \in Clients |-> << >>] /\ pc = [c \in Clients |-> "away"]
      /\ read_data_len = 0
  BY DEF Init, Fresh
<1>3. FlattenSeq(<< >>) = << >>
  BY <1>1, FlattenProperties
<1> QED BY <1>1, <1>2, <1>3 DEF LengthInv, LogTypes, CountInv, Data, Counting, Reading

(* Steps that neither write nor read the device. *)
LEMMA QuietKeepsLengthInv ==
  ASSUME LengthInv, UNCHANGED <<log, partial, f_pos, ubuf, read_data_len, read_buffer>>,
         \A d \in Clients : \/ pc'[d] = pc[d]
                            \/ {pc[d], pc'[d]} \cap (Counting \cup Reading) = {},
         UNCHANGED recv_data \/ \A d \in Clients : pc[d] # "written"
  PROVE  LengthInv'
<1>1. \A d \in Clients : pc'[d] \in Counting \cup Reading \/ pc[d] \in Counting \cup Reading => pc'[d] = pc[d]
  OBVIOUS
<1>2. {"written", "open", "read", "readback", "send"} \subseteq Counting \cup Reading
      /\ "readback" \in Reading
  BY DEF Counting, Reading
<1>3. LogTypes'
  BY <1>1, <1>2 DEF LengthInv, LogTypes
<1>4. Data' = Data
  BY DEF Data
<1>5. CountInv'
  BY <1>1, <1>2, <1>4 DEF LengthInv, CountInv
<1> QED BY <1>3, <1>5 DEF LengthInv

(* Nobody but the holder of the mutex has to do with what is counted. *)
LEMMA HolderKeepsLengthInv ==
  ASSUME ControlInv, LengthInv, NEW c \in Clients, pc[c] \in Section,
         NEW label \in Section, Goto(c, label),
         log' \in Seq(Seq(Byte)), partial' \in Seq(Byte),
         f_pos' \in [Clients -> Nat], ubuf' \in [Clients -> Seq(Byte)],
         \A d \in Clients \ {c} : ubuf'[d] = ubuf[d],
         label \in Reading => read_buffer' \in Seq(Byte),
         label # "readback" => ubuf'[c] = << >>,
         label = "written" => Len(Data') + Len(partial') <= read_data_len' + Len(recv_data'),
         label \in {"open", "read", "readback"} => Len(Data') + Len(partial') <= read_data_len',
         label \in {"read", "readback"} =>
           Len(read_buffer') + Len(ubuf'[c]) = f_pos'[c] /\ f_pos'[c] <= Len(Data'),
         label = "send" => Len(read_buffer') = read_data_len',
         label \notin Counting => read_data_len' = Len(Data') /\ partial' = << >>
  PROVE  LengthInv'
<1>1. pc'[c] = label /\ \A d \in Clients \ {c} : pc'[d] = pc[d]
  BY DEF Goto, ControlInv, Types
<1>2. \A d \in Clients \ {c} : pc'[d] \notin Section
  BY <1>1, HolderIsAlone DEF ControlInv
<1>3. {"written", "open", "read", "readback", "send"} \subseteq Section /\ Reading \subseteq Section
  BY DEF Section, Writing, Reading
<1>4. LogTypes'
  <2>1. \A d \in Clients : pc'[d] # "readback" => ubuf'[d] = << >>
    BY <1>1, <1>2, <1>3 DEF LengthInv, LogTypes
  <2> QED BY <1>1, <1>2, <1>3, <2>1 DEF LogTypes
<1>5. CountInv'
  <2>1. ASSUME NEW d \in Clients
        PROVE  /\ pc'[d] = "written" => Len(Data') + Len(partial') <= read_data_len' + Len(recv_data')
               /\ pc'[d] \in {"open", "read", "readback"} => Len(Data') + Len(partial') <= read_data_len'
               /\ pc'[d] \in {"read", "readback"} =>
                    Len(read_buffer') + Len(ubuf'[d]) = f_pos'[d] /\ f_pos'[d] <= Len(Data')
               /\ pc'[d] = "send" => Len(read_buffer') = read_data_len'
    <3>1. CASE d = c
      BY <1>1, <3>1
    <3>2. CASE d # c
      BY <1>2, <1>3, <3>2
    <3> QED BY <3>1, <3>2
  <2> QED BY <1>1, <2>1 DEF CountInv
<1> QED BY <1>4, <1>5 DEF LengthInv

(* Outside its counting, the holder of the mutex knows the device's length. *)
LEMMA HolderHasCounted ==
  ASSUME ControlInv, LengthInv, NEW c \in Clients, pc[c] \in Section \ Counting
  PROVE  read_data_len = Len(Data) /\ partial = << >>
<1>1. Counting \subseteq Section
  BY DEF Counting, Section, Writing, Reading
<1>2. \A d \in Clients : pc[d] \notin Counting
  BY <1>1, HolderIsAlone DEF ControlInv
<1> QED BY <1>2 DEF LengthInv, CountInv

(* What the device's bytes are counted with. *)
LEMMA DataTypes ==
  ASSUME LogTypes
  PROVE  /\ Data \in Seq(Byte) /\ Len(Data) \in Nat /\ Len(partial) \in Nat
         /\ \A c \in Clients : ubuf[c] \in Seq(Byte) /\ Len(ubuf[c]) \in Nat
BY FlattenProperties, LenProperties DEF LogTypes, Data

(* The worker's steps. *)
LEMMA WorkerStaysKeepsLengthInv ==
  ASSUME ControlInv, LengthInv, NEW c \in Clients,
         Lock(c) \/ Recv(c) \/ OpenToWrite(c) \/ Unlock(c) \/ Complete(c) \/ Close(c)
  PROVE  LengthInv'
<1>1. UNCHANGED <<log, partial, f_pos, ubuf, read_data_len, read_buffer>>
  BY DEF Lock, Recv, OpenToWrite, Unlock, Complete, Close, device, buffers
<1>2. {"lock", "recv", "open_write", "write", "unlock", "complete", "close", "exited"}
        \cap (Counting \cup Reading) = {}
  BY DEF Counting, Reading
<1>3. \A d \in Clients : \/ pc'[d] = pc[d]
                         \/ {pc[d], pc'[d]} \cap (Counting \cup Reading) = {}
  <2>1. \/ UNCHANGED pc
        \/ \E label \in {"recv", "open_write", "write", "complete", "close", "exited"} :
             /\ Goto(c, label)
             /\ pc[c] \in {"lock", "recv", "open_write", "unlock", "complete", "close"}
    BY DEF Lock, Recv, OpenToWrite, Unlock, Complete, Close, At
  <2>2. pc \in [Clients -> {"away", "connected", "accepted"} \cup Started]
    BY DEF ControlInv, Types
  <2> QED BY <1>2, <2>1, <2>2 DEF Goto
<1>4. UNCHANGED recv_data \/ \A d \in Clients : pc[d] # "written"
  <2>1. CASE Lock(c)
    <3>1. mutex_lock = NoClient
      BY <2>1 DEF Lock
    <3>2. "written" \in Section
      BY DEF Section, Writing
    <3> QED BY <3>1, <3>2, ClientsAssumption DEF ControlInv, MutexInv
  <2>2. CASE Recv(c)
    <3>1. pc[c] = "recv" /\ "recv" \in Section /\ "written" \in Section
      BY <2>2 DEF Recv, At, Section, Writing
    <3> QED BY <3>1, HolderIsAlone DEF ControlInv
  <2>3. CASE OpenToWrite(c) \/ Unlock(c) \/ Complete(c) \/ Close(c)
    BY <2>3 DEF OpenToWrite, Unlock, Complete, Close, buffers
  <2> QED BY <2>1, <2>2, <2>3
<1> QED BY <1>1, <1>3, <1>4, QuietKeepsLengthInv

(* A write adds at most the bytes about to be counted.                     *)
LEMMA WriteKeepsLengthInv ==
  ASSUME ControlInv, LengthInv, NEW c \in Clients, Write(c)
  PROVE  LengthInv'
<1>1. /\ pc[c] = "write" /\ Goto(c, "written")
      /\ UNCHANGED <<recv_data, read_data_len>>
      /\ Device!Write(c, recv_data) \/ Device!Fail(c, -1)
  BY DEF Write, At, process, buffers
<1>2. /\ pc[c] \in Section \ Counting /\ pc[c] \in Writing /\ "written" \in Section
      /\ "written" \notin Reading /\ "written" \in Counting
  BY <1>1 DEF Section, Writing, Reading, Counting
<1>3. recv_data \in Seq(Byte) /\ Len(recv_data) \in Nat
  BY <1>2, HolderHas
<1>4. read_data_len = Len(Data) /\ partial = << >>
  BY <1>2, HolderHasCounted
<1>5. LogTypes /\ Len(<< >>) = 0
  BY EmptySeq DEF LengthInv
<1>6. /\ UNCHANGED <<f_pos, ubuf>>
      /\ log' \in Seq(Seq(Byte)) /\ partial' \in Seq(Byte)
      /\ Len(Data') + Len(partial') <= Len(Data) + Len(partial) + Len(recv_data)
  <2>1. CASE Device!Write(c, recv_data)
    BY <1>3, <1>5, <2>1, DeviceWrites DEF LogTypes, Data
  <2>2. CASE Device!Fail(c, -1)
    <3>1. UNCHANGED <<log, partial, f_pos, ubuf>>
      BY <2>2 DEF Device!Fail
    <3>2. Len(Data) + Len(partial) <= Len(Data) + Len(partial) + Len(recv_data)
      BY <1>3, <1>5, DataTypes
    <3> QED BY <1>5, <3>1, <3>2 DEF LogTypes, Data
  <2> QED BY <1>1, <2>1, <2>2
<1>7. Len(Data') + Len(partial') <= read_data_len' + Len(recv_data')
  BY <1>1, <1>3, <1>4, <1>5, <1>6, DataTypes
<1>8. /\ f_pos' \in [Clients -> Nat] /\ ubuf' \in [Clients -> Seq(Byte)]
      /\ \A d \in Clients \ {c} : ubuf'[d] = ubuf[d]
      /\ ubuf'[c] = << >>
  BY <1>1, <1>5, <1>6 DEF LogTypes
<1> QED BY <1>1, <1>2, <1>6, <1>7, <1>8, HolderKeepsLengthInv

(* The count takes in the bytes of the line written.                       *)
LEMMA WrittenKeepsLengthInv ==
  ASSUME ControlInv, LengthInv, NEW c \in Clients, Written(c)
  PROVE  LengthInv'
<1>1. /\ pc[c] = "written" /\ Goto(c, "open")
      /\ read_data_len' = read_data_len + Len(recv_data)
      /\ UNCHANGED <<log, partial, f_pos>> /\ ubuf' = [ubuf EXCEPT ![c] = << >>]
  BY DEF Written, At, Device!Return
<1>2. /\ pc[c] \in Section /\ "open" \in Section
      /\ "open" \notin Reading /\ "open" \in Counting
  BY <1>1 DEF Section, Writing, Reading, Counting
<1>3. LogTypes /\ << >> \in Seq(Byte)
  BY EmptySeq DEF LengthInv
<1>4. Len(Data') + Len(partial') <= read_data_len'
  BY <1>1 DEF LengthInv, CountInv, Data
<1>5. /\ f_pos' \in [Clients -> Nat] /\ ubuf' \in [Clients -> Seq(Byte)]
      /\ \A d \in Clients \ {c} : ubuf'[d] = ubuf[d]
      /\ ubuf'[c] = << >> /\ log' \in Seq(Seq(Byte)) /\ partial' \in Seq(Byte)
  BY <1>1, <1>3 DEF LogTypes
<1> QED BY <1>1, <1>2, <1>4, <1>5, HolderKeepsLengthInv

(* Reading starts at the device's first byte.                              *)
LEMMA OpenKeepsLengthInv ==
  ASSUME ControlInv, LengthInv, NEW c \in Clients, Open(c)
  PROVE  LengthInv'
<1>1. /\ pc[c] = "open" /\ Goto(c, "read") /\ read_buffer' = << >>
      /\ UNCHANGED read_data_len
      /\ UNCHANGED <<log, partial, ubuf>> /\ f_pos' = [f_pos EXCEPT ![c] = 0]
  BY DEF Open, At, Device!Open
<1>2. /\ pc[c] \in Section /\ "read" \in Section
      /\ "read" \in Reading /\ "read" \in Counting
  BY <1>1 DEF Section, Writing, Reading, Counting
<1>3. LogTypes /\ << >> \in Seq(Byte) /\ Len(<< >>) = 0
  BY EmptySeq DEF LengthInv
<1>4. Len(Data') + Len(partial') <= read_data_len'
  BY <1>1 DEF LengthInv, CountInv, Data
<1>5. /\ f_pos' \in [Clients -> Nat] /\ ubuf' \in [Clients -> Seq(Byte)]
      /\ \A d \in Clients \ {c} : ubuf'[d] = ubuf[d]
      /\ ubuf'[c] = << >> /\ log' \in Seq(Seq(Byte)) /\ partial' \in Seq(Byte)
      /\ f_pos'[c] = 0 /\ read_buffer' \in Seq(Byte)
  BY <1>1, <1>3 DEF LogTypes
<1>6. Len(read_buffer') + Len(ubuf'[c]) = f_pos'[c] /\ f_pos'[c] <= Len(Data')
  BY <1>1, <1>3, <1>5, DataTypes DEF Data
<1> QED BY <1>1, <1>2, <1>4, <1>5, <1>6, HolderKeepsLengthInv

(* A read takes what is left of one line of the device.                    *)
LEMMA ReadKeepsLengthInv ==
  ASSUME ControlInv, LengthInv, NEW c \in Clients, Read(c)
  PROVE  LengthInv'
<1>1. /\ pc[c] = "read" /\ Goto(c, "readback")
      /\ UNCHANGED <<read_data_len, read_buffer>>
      /\ Device!Read(c, read_data_len) \/ Device!Fail(c, -1)
  BY DEF Read, At, process, buffers
<1>2. /\ pc[c] \in Section /\ "readback" \in Section
      /\ pc[c] \in Reading /\ "readback" \in Reading /\ "readback" \in Counting
  BY <1>1 DEF Section, Writing, Reading, Counting
<1>3. /\ LogTypes /\ read_buffer \in Seq(Byte) /\ Len(read_buffer) \in Nat
      /\ ubuf[c] = << >> /\ Len(<< >>) = 0 /\ f_pos[c] \in Nat
      /\ read_data_len \in Nat
  BY <1>1, <1>2, EmptySeq, LenProperties DEF LengthInv, LogTypes, ControlInv, BufferInv
<1>4. /\ Len(Data) + Len(partial) <= read_data_len
      /\ Len(read_buffer) + Len(ubuf[c]) = f_pos[c] /\ f_pos[c] <= Len(Data)
  BY <1>1 DEF LengthInv, CountInv
<1>5. /\ UNCHANGED <<log, partial>>
      /\ f_pos' \in [Clients -> Nat] /\ ubuf' \in [Clients -> Seq(Byte)]
      /\ \A d \in Clients \ {c} : ubuf'[d] = ubuf[d]
      /\ Len(read_buffer) + Len(ubuf'[c]) = f_pos'[c] /\ f_pos'[c] <= Len(Data)
  <2>1. CASE Device!Read(c, read_data_len)
    <3>1. PICK bytes \in Seq(Byte) :
            /\ ubuf' = [ubuf EXCEPT ![c] = bytes]
            /\ f_pos' = [f_pos EXCEPT ![c] = @ + Len(bytes)]
            /\ UNCHANGED <<log, partial>>
            /\ f_pos[c] + Len(bytes) <= Len(Data)
      BY <1>3, <1>4, <2>1, DeviceReads
    <3>2. Len(bytes) \in Nat
      BY LenProperties
    <3>3. /\ ubuf'[c] = bytes /\ f_pos'[c] = f_pos[c] + Len(bytes)
          /\ f_pos' \in [Clients -> Nat] /\ ubuf' \in [Clients -> Seq(Byte)]
          /\ \A d \in Clients \ {c} : ubuf'[d] = ubuf[d]
      BY <1>3, <3>1, <3>2 DEF LogTypes
    <3>4. Len(read_buffer) = f_pos[c]
      BY <1>3, <1>4
    <3>5. f_pos'[c] <= Len(Data)
      BY <3>1, <3>3
    <3>6. Len(read_buffer) + Len(ubuf'[c]) = f_pos'[c]
      BY <3>3, <3>4
    <3> QED BY <3>1, <3>3, <3>5, <3>6
  <2>2. CASE Device!Fail(c, -1)
    <3>1. UNCHANGED <<log, partial, f_pos, ubuf>>
      BY <2>2 DEF Device!Fail
    <3> QED BY <1>3, <1>4, <3>1 DEF LogTypes
  <2> QED BY <1>1, <2>1, <2>2
<1>6. /\ Len(Data') + Len(partial') <= read_data_len'
      /\ Len(read_buffer') + Len(ubuf'[c]) = f_pos'[c] /\ f_pos'[c] <= Len(Data')
      /\ log' \in Seq(Seq(Byte)) /\ partial' \in Seq(Byte) /\ read_buffer' \in Seq(Byte)
  BY <1>1, <1>3, <1>4, <1>5 DEF LogTypes, Data
<1> QED BY <1>1, <1>2, <1>5, <1>6, HolderKeepsLengthInv

(* The loop ends only when the worker has read all that the device holds   *)
(* and that is all that was counted.                                       *)
LEMMA ReadBackReads ==
  ASSUME ControlInv, LengthInv, NEW c \in Clients, ReadBack(c)
  PROVE  /\ pc[c] = "readback" /\ read_buffer \in Seq(Byte) /\ ubuf[c] \in Seq(Byte)
         /\ read_buffer' = read_buffer \o ubuf[c] /\ read_buffer' \in Seq(Byte)
         /\ Len(read_buffer') = f_pos[c] /\ f_pos[c] <= Len(Data)
         /\ UNCHANGED <<log, partial, f_pos, read_data_len>>
         /\ ubuf' = [ubuf EXCEPT ![c] = << >>]
         /\ \/ Goto(c, "read")
            \/ /\ Goto(c, "send")
               /\ f_pos[c] = Len(Data) /\ read_data_len = Len(Data) /\ partial = << >>
<1>1. /\ pc[c] = "readback" /\ read_buffer' = read_buffer \o ubuf[c]
      /\ UNCHANGED <<log, partial, f_pos, read_data_len>>
      /\ ubuf' = [ubuf EXCEPT ![c] = << >>]
      /\ \/ Goto(c, "read")
         \/ Goto(c, "send") /\ Len(read_buffer') = read_data_len
  BY DEF ReadBack, At, Device!Return
<1>2. /\ LogTypes /\ read_buffer \in Seq(Byte) /\ ubuf[c] \in Seq(Byte)
      /\ read_data_len \in Nat /\ partial \in Seq(Byte)
  BY <1>1 DEF LengthInv, LogTypes, Reading, ControlInv, BufferInv
<1>3. /\ Len(Data) + Len(partial) <= read_data_len
      /\ Len(read_buffer) + Len(ubuf[c]) = f_pos[c] /\ f_pos[c] <= Len(Data)
  BY <1>1 DEF LengthInv, CountInv
<1>4. /\ read_buffer \o ubuf[c] \in Seq(Byte)
      /\ Len(read_buffer \o ubuf[c]) = Len(read_buffer) + Len(ubuf[c])
  BY <1>2, ConcatProperties
<1>5. CASE Goto(c, "send") /\ Len(read_buffer') = read_data_len
  <2>1. f_pos[c] = Len(Data) /\ read_data_len = Len(Data) /\ Len(partial) = 0
    BY <1>1, <1>2, <1>3, <1>4, <1>5, DataTypes
  <2>2. partial = << >>
    BY <1>2, <2>1, EmptySeq
  <2> QED BY <1>1, <1>2, <1>3, <1>4, <1>5, <2>1, <2>2
<1>6. CASE Goto(c, "read")
  BY <1>1, <1>2, <1>3, <1>4, <1>6
<1> QED BY <1>1, <1>5, <1>6

(* The bytes read are those between two positions of the device.           *)
LEMMA ReadBackKeepsLengthInv ==
  ASSUME ControlInv, LengthInv, NEW c \in Clients, ReadBack(c)
  PROVE  LengthInv'
<1>1. /\ pc[c] = "readback" /\ read_buffer' \in Seq(Byte)
      /\ Len(read_buffer') = f_pos[c] /\ f_pos[c] <= Len(Data)
      /\ UNCHANGED <<log, partial, f_pos, read_data_len>>
      /\ ubuf' = [ubuf EXCEPT ![c] = << >>]
      /\ \/ Goto(c, "read")
         \/ /\ Goto(c, "send")
            /\ f_pos[c] = Len(Data) /\ read_data_len = Len(Data) /\ partial = << >>
  BY ReadBackReads
<1>2. /\ LogTypes /\ << >> \in Seq(Byte) /\ Len(<< >>) = 0
  BY EmptySeq DEF LengthInv
<1>3. /\ pc[c] \in Section /\ {"read", "send"} \subseteq Section
      /\ "send" \notin Counting /\ "read" \in Counting
  BY <1>1 DEF Section, Writing, Reading, Counting
<1>4. Len(Data') + Len(partial') <= read_data_len'
  BY <1>1 DEF LengthInv, CountInv, Data
<1>5. /\ f_pos' \in [Clients -> Nat] /\ ubuf' \in [Clients -> Seq(Byte)]
      /\ \A d \in Clients \ {c} : ubuf'[d] = ubuf[d]
      /\ ubuf'[c] = << >> /\ log' \in Seq(Seq(Byte)) /\ partial' \in Seq(Byte)
      /\ f_pos[c] \in Nat
  BY <1>1, <1>2 DEF LogTypes
<1>6. Len(read_buffer') + Len(ubuf'[c]) = f_pos'[c] /\ f_pos'[c] <= Len(Data')
  BY <1>1, <1>2, <1>5 DEF Data
<1>7. CASE Goto(c, "read")
  BY <1>1, <1>3, <1>4, <1>5, <1>6, <1>7, HolderKeepsLengthInv
<1>8. CASE /\ Goto(c, "send")
           /\ f_pos[c] = Len(Data) /\ read_data_len = Len(Data) /\ partial = << >>
  <2>1. /\ read_data_len' = Len(Data') /\ partial' = << >>
        /\ Len(read_buffer') = read_data_len'
    BY <1>1, <1>8 DEF Data
  <2> QED BY <1>1, <1>3, <1>5, <1>8, <2>1, HolderKeepsLengthInv
<1> QED BY <1>1, <1>7, <1>8

(* A worker that has read as much as was counted has read it all.          *)
LEMMA SendKeepsLengthInv ==
  ASSUME ControlInv, LengthInv, NEW c \in Clients, Send(c)
  PROVE  LengthInv'
<1>1. /\ pc[c] = "send" /\ Goto(c, "unlock")
      /\ UNCHANGED <<log, partial, f_pos, ubuf, read_data_len>>
  BY DEF Send, At, device
<1>2. /\ pc[c] \in Section \ Counting /\ "unlock" \in Section
      /\ "unlock" \notin Reading /\ "unlock" \notin Counting
  BY <1>1 DEF Section, Writing, Reading, Counting
<1>3. LogTypes
  BY DEF LengthInv
<1>4. read_data_len' = Len(Data') /\ partial' = << >>
  BY <1>1, <1>2, HolderHasCounted DEF Data
<1>5. /\ f_pos' \in [Clients -> Nat] /\ ubuf' \in [Clients -> Seq(Byte)]
      /\ \A d \in Clients \ {c} : ubuf'[d] = ubuf[d]
      /\ ubuf'[c] = << >> /\ log' \in Seq(Seq(Byte)) /\ partial' \in Seq(Byte)
  BY <1>1, <1>3 DEF LogTypes
<1> QED BY <1>1, <1>2, <1>4, <1>5, HolderKeepsLengthInv

(* The handler changes what is in the buffers, not how much.               *)
LEMMA FreeKeepsLengthInv ==
  ASSUME ControlInv, LengthInv, FreeBuffers
  PROVE  LengthInv'
<1>1. /\ UNCHANGED <<pc, log, partial, f_pos, ubuf, read_data_len>>
      /\ recv_data' = recv_data \/ recv_data' \in Remains(recv_data)
      /\ read_buffer' = read_buffer \/ read_buffer' \in Remains(read_buffer)
  BY DEF FreeBuffers, device
<1>2. ASSUME NEW c \in Clients, pc[c] = "written"
      PROVE  Len(recv_data') = Len(recv_data)
  <2>1. recv_data \in Seq(Byte) /\ JUNK \in Byte
    BY <1>2 DEF ControlInv, BufferInv, Writing, Byte
  <2> QED BY <1>1, <2>1, RemainsProperties
<1>3. ASSUME NEW c \in Clients, pc[c] \in Reading
      PROVE  read_buffer' \in Seq(Byte) /\ Len(read_buffer') = Len(read_buffer)
  <2>1. read_buffer \in Seq(Byte) /\ JUNK \in Byte
    BY <1>3 DEF LengthInv, LogTypes, Byte
  <2> QED BY <1>1, <2>1, RemainsProperties
<1>4. Data' = Data
  BY <1>1 DEF Data
<1>5. {"read", "readback", "send"} \subseteq Reading
  BY DEF Reading
<1>6. LogTypes'
  BY <1>1, <1>3 DEF LengthInv, LogTypes
<1>7. CountInv'
  BY <1>1, <1>2, <1>3, <1>4, <1>5 DEF LengthInv, CountInv
<1> QED BY <1>6, <1>7 DEF LengthInv

(* All other steps. *)
LEMMA OthersKeepLengthInv ==
  ASSUME ControlInv, LengthInv,
         \/ Exit \/ Signal \/ CloseFptr \/ CloseSockfd \/ CloseAccepted \/ DeleteList
         \/ open_socket_then_bind \/ create_new_file \/ Listen \/ accept_connection \/ InsertNode \/ CreateThread
         \/ VisitNode \/ JoinWorker \/ EndOfList
         \/ \E c \in Clients : Connect(c) \/ Leave(c)
         \/ UNCHANGED vars
  PROVE  LengthInv'
<1>1. UNCHANGED <<log, partial, f_pos, ubuf, read_data_len, read_buffer, recv_data>>
  BY DEF Exit, Signal, CloseFptr, CloseSockfd, CloseAccepted, DeleteList, open_socket_then_bind,
         create_new_file, Listen, accept_connection, InsertNode, CreateThread,
         VisitNode, JoinWorker, EndOfList, Connect, Leave, vars, process, buffers, device
<1>2. \/ UNCHANGED pc
      \/ \E c \in Clients : /\ pc[c] \in {"away", "connected", "accepted"}
                            /\ \E label \in {"connected", "accepted", "lock"} : Goto(c, label)
  BY DEF Exit, Signal, CloseFptr, CloseSockfd, CloseAccepted, DeleteList, open_socket_then_bind,
         create_new_file, Listen, accept_connection, InsertNode, CreateThread,
         VisitNode, JoinWorker, EndOfList, Connect, Leave, vars, process
<1>3. {"away", "connected", "accepted", "lock"} \cap (Counting \cup Reading) = {}
  BY DEF Counting, Reading
<1>4. \A d \in Clients : \/ pc'[d] = pc[d]
                         \/ {pc[d], pc'[d]} \cap (Counting \cup Reading) = {}
  <2>1. pc \in [Clients -> {"away", "connected", "accepted"} \cup Started]
    BY DEF ControlInv, Types
  <2> QED BY <1>2, <1>3, <2>1 DEF Goto
<1> QED BY <1>1, <1>4, QuietKeepsLengthInv

(* Every step keeps the third layer.                                       *)
LEMMA NextLengthInv == ControlInv /\ LengthInv /\ [Next]_vars => LengthInv'
<1> SUFFICES ASSUME ControlInv, LengthInv, [Next]_vars PROVE LengthInv'
  OBVIOUS
<1>1. CASE UNCHANGED vars \/ Main \/ MainExits \/ JoinUnmapped \/ DoubleFree \/ Signal
  BY <1>1, OthersKeepLengthInv
     DEF Main, MainExits, JoinUnmapped, DoubleFree, ListeningClosed
<1>2. CASE sighandler
  BY <1>2, OthersKeepLengthInv, FreeKeepsLengthInv DEF sighandler
<1>3. ASSUME NEW c \in Clients, Connect(c) \/ Leave(c) \/ Lock(c) \/ WorkerExits(c)
      PROVE  LengthInv'
  BY <1>3, OthersKeepLengthInv, WorkerStaysKeepsLengthInv DEF WorkerExits
<1>4. ASSUME NEW c \in Clients, Worker(c)
      PROVE  LengthInv'
  BY <1>4, WorkerStaysKeepsLengthInv, WriteKeepsLengthInv, WrittenKeepsLengthInv,
     OpenKeepsLengthInv, ReadKeepsLengthInv, ReadBackKeepsLengthInv, SendKeepsLengthInv,
     OthersKeepLengthInv DEF Worker, WorkerFails
<1> QED BY <1>1, <1>2, <1>3, <1>4 DEF Next

(* The scenario stays as it was chosen. *)
LEMMA ScenarioKept == [Next]_vars => UNCHANGED scenario
<1> SUFFICES ASSUME [Next]_vars PROVE UNCHANGED scenario
  OBVIOUS
<1>1. CASE UNCHANGED vars \/ MainExits \/ JoinUnmapped \/ Signal \/ sighandler \/ DoubleFree
  BY <1>1 DEF vars, MainExits, JoinUnmapped, Signal, DoubleFree, Exit, sighandler, CloseFptr,
              CloseSockfd, CloseAccepted, FreeBuffers, DeleteList
<1>2. CASE Main
  BY <1>2 DEF Main, open_socket_then_bind, create_new_file, Listen, ListeningClosed, Exit,
              accept_connection, InsertNode, CreateThread, VisitNode, JoinWorker, EndOfList
<1>3. ASSUME NEW c \in Clients, Connect(c) \/ Leave(c) \/ Lock(c) \/ WorkerExits(c)
      PROVE  UNCHANGED scenario
  BY <1>3 DEF Connect, Leave, Lock, WorkerExits, Exit
<1>4. ASSUME NEW c \in Clients, Worker(c)
      PROVE  UNCHANGED scenario
  BY <1>4 DEF Worker, Recv, OpenToWrite, Write, Written, Open, Read, ReadBack, Send, Unlock,
              Complete, Close, WorkerFails, Exit
<1> QED BY <1>1, <1>2, <1>3, <1>4 DEF Next

(* The third layer holds throughout, on a device that was empty.           *)
LEMMA LengthInvariant == Spec => [](Fresh => LengthInv)
<1>1. Init => (Fresh => LengthInv)
  BY InitLengthInv
<1>2. ControlInv /\ (Fresh => LengthInv) /\ [Next]_vars => (Fresh => LengthInv)'
  BY NextLengthInv, ScenarioKept DEF Fresh
<1> QED BY <1>1, <1>2, ControlInvariant, PTL DEF Spec

(* On a device that was empty the reading loop never reads past the buffer *)
(* it has allocated, however many lines there are and whatever goes wrong  *)
(* (aesdsocket.c:165-186).                                                 *)
THEOREM ReadsFit == Spec => []ReadFits
<1>1. ControlInv /\ (Fresh => LengthInv) => ReadFits
  <2> SUFFICES ASSUME ControlInv, LengthInv, read_buffer # NULL
               PROVE  ~(Len(read_buffer) > read_data_len)
    BY DEF ReadFits, Overrun
  <2>1. PICK c \in Clients : pc[c] \in Reading
    BY DEF ControlInv, BufferInv
  <2>2. read_buffer \in Seq(Byte) /\ Len(read_buffer) \in Nat /\ read_data_len \in Nat
    BY <2>1, LenProperties DEF ControlInv, BufferInv, LengthInv, LogTypes
  <2>3. CASE pc[c] = "send"
    BY <2>2, <2>3 DEF LengthInv, CountInv
  <2>4. CASE pc[c] \in {"read", "readback"}
    <3>1. /\ Len(Data) + Len(partial) <= read_data_len
          /\ Len(read_buffer) + Len(ubuf[c]) = f_pos[c] /\ f_pos[c] <= Len(Data)
      BY <2>4 DEF LengthInv, CountInv
    <3>2. f_pos[c] \in Nat
      BY DEF LengthInv, LogTypes
    <3> QED BY <2>2, <3>1, <3>2, DataTypes DEF LengthInv
  <2> QED BY <2>1, <2>3, <2>4 DEF Reading
<1> QED BY <1>1, ControlInvariant, LengthInvariant, PTL

(* Whenever the mutex is free the length that the server has counted is    *)
(* that of what a device that was empty holds, also after the driver has dropped        *)
(* commands or refused a write (aesdsocket.c:165-178, 400-423).            *)
THEOREM LengthAgrees == Spec => []LengthIsDevice
<1>1. ControlInv /\ (Fresh => LengthInv) => LengthIsDevice
  <2> SUFFICES ASSUME ControlInv, LengthInv, mutex_lock = NoClient
               PROVE  read_data_len = Len(FlattenSeq(log))
    BY DEF LengthIsDevice
  <2>1. Counting \subseteq Section
    BY DEF Counting, Section, Writing, Reading
  <2>2. \A c \in Clients : pc[c] \notin Counting
    BY <2>1, ClientsAssumption DEF ControlInv, MutexInv
  <2> QED BY <2>2 DEF LengthInv, CountInv, Data
<1> QED BY <1>1, ControlInvariant, LengthInvariant, PTL

-----------------------------------------------------------------------------
(* Bytes.  As long as the device has room for a line of every client, what *)
(* it holds only grows.  A worker that finds as much there as was counted  *)
(* finds its own line at the end; what it reads, and sends, is all of it.  *)
(* A buffer that the handler has freed may hold JUNK instead, and so may   *)
(* then the device.                                                        *)
Received(c) == SubSeq(scenario.message[c], 1, consumed[c])
(* What has been or is about to be counted.                                *)
Counted(c) == read_data_len + IF pc[c] = "written" THEN Len(recv_data) ELSE 0

(* Places before a worker has the mutex, after it has sent its answer, and *)
(* between the write of its line and the answer; who has written a line.   *)
Waiting == {"away", "connected", "accepted", "lock"}
Answered == {"unlock", "complete", "close", "exited"}
Stored == Counting \cup {"send"}
Wrote == {c \in Clients : pc[c] \in Stored \cup Answered}

(* What a worker is about to write is what it has received.                *)
LineInv(c) ==
  /\ pc[c] \in Waiting => consumed[c] = 0
  /\ pc[c] \in Writing => recv_data = Received(c) \/ JUNK \in Range(recv_data)

(* A line that was stored whole is at the end of the device.               *)
StoredInv(c) ==
  pc[c] \in Stored /\ Len(Data) = Counted(c)
    => JUNK \in Range(Data) \/ EndsWith(Byte, Data, Received(c))

(* What a worker has read is the beginning of the device.                  *)
ReadInv(c) ==
  /\ pc[c] \in {"read", "readback"} =>
       read_buffer \o ubuf[c] = SubSeq(Data, 1, f_pos[c]) \/ JUNK \in Range(read_buffer)
  /\ pc[c] = "send" => read_buffer = Data \/ JUNK \in Range(read_buffer)

(* An answer is a beginning of the device that ends with the line sent.    *)
SentInv(c) ==
  pc[c] \in Answered =>
    \/ JUNK \in Range(answer[c])
    \/ EndsWith(Byte, answer[c], Received(c)) /\ IsPrefix(answer[c], Data)

(* All of it, for one client.                                              *)
ClientInv(c) == LineInv(c) /\ StoredInv(c) /\ ReadInv(c) /\ SentInv(c)

(* The fourth layer: the answers.                                          *)
AnswerInv ==
  /\ answer \in [Clients -> Seq(Byte)]
  /\ \A c \in DOMAIN scenario.message : consumed[c] <= Len(scenario.message[c])
  /\ Len(log) <= Cardinality(Wrote)
  /\ \A c \in Clients : ClientInv(c)

-----------------------------------------------------------------------------
(* No more workers wrote a line than there are clients.                    *)
LEMMA WroteIsFinite ==
  IsFiniteSet(Wrote) /\ Cardinality(Wrote) \in Nat /\ Cardinality(Wrote) <= Cardinality(Clients)
<1>1. Wrote \subseteq Clients
  BY DEF Wrote
<1> QED BY <1>1, ClientsAssumption, FS_Subset, FS_CardinalityType

(* Nobody has sent or been answered anything.                              *)
LEMMA InitAnswerInv == Init /\ Fresh => AnswerInv
<1> SUFFICES ASSUME Init, Fresh PROVE AnswerInv
  OBVIOUS
<1>1. << >> \in Seq(Byte) /\ Len(<< >>) = 0
  BY EmptySeq
<1>2. /\ log = << >> /\ pc = [c \in Clients |-> "away"] /\ scenario \in Scenarios
      /\ consumed = [c \in Clients |-> 0] /\ answer = [c \in Clients |-> << >>]
  BY DEF Init, Fresh
<1>3. ASSUME NEW c \in DOMAIN scenario.message
      PROVE  consumed[c] <= Len(scenario.message[c])
  <2>1. c \in Clients /\ scenario.message[c] \in Seq(Byte)
    BY <1>2, ScenariosAssumption, MessagesAreBytes
  <2> QED BY <1>2, <2>1, LenProperties
<1>4. Len(log) <= Cardinality(Wrote)
  BY <1>1, <1>2, WroteIsFinite
<1>5. ASSUME NEW c \in Clients PROVE ClientInv(c)
  BY <1>2 DEF ClientInv, LineInv, StoredInv, ReadInv, SentInv, Stored, Counting, Writing, Answered
<1> QED BY <1>1, <1>2, <1>3, <1>4, <1>5 DEF AnswerInv

(* The labels, apart. *)
LEMMA AnswerLabels ==
  /\ Waiting \cap (Writing \cup Stored \cup Answered \cup {"read", "readback", "send"}) = {}
  /\ (Writing \ {"written"}) \cap (Stored \cup Answered) = {}
  /\ "written" \notin Waiting \cup Answered \cup {"read", "readback", "send"}
  /\ \A label \in {"open", "read", "readback", "send"} :
       label \in Stored /\ label \notin Waiting \cup Writing \cup Answered
  /\ "written" \in Stored \cap Writing
  /\ {"recv", "open_write", "write"} \subseteq Writing
  /\ Answered \cap (Waiting \cup Writing \cup Stored \cup {"read", "readback", "send"}) = {}
  /\ Writing \cup Stored \cup {"read", "readback", "send"} \subseteq Section
BY DEF Waiting, Writing, Stored, Answered, Counting, Section, Reading

(* A client outside the section sees at most that the device grows. *)
LEMMA OthersKeepClientInv ==
  ASSUME NEW c \in Clients, ClientInv(c), pc[c] \notin Section, pc'[c] = pc[c],
         UNCHANGED scenario, consumed'[c] = consumed[c], answer'[c] = answer[c],
         IsPrefix(answer[c], Data) => IsPrefix(answer[c], Data')
  PROVE  ClientInv(c)'
<1>1. pc[c] \notin Writing /\ pc[c] \notin Stored /\ pc[c] \notin {"read", "readback", "send"}
  BY AnswerLabels
<1>2. Received(c)' = Received(c)
  BY DEF Received
<1>3. LineInv(c)' /\ StoredInv(c)' /\ ReadInv(c)'
  BY <1>1 DEF ClientInv, LineInv, StoredInv, ReadInv
<1>4. SentInv(c)'
  BY <1>2 DEF ClientInv, SentInv
<1> QED BY <1>3, <1>4 DEF ClientInv

(* A worker that has the mutex to itself has to see to its own part only.  *)
LEMMA HolderKeepsAnswerInv ==
  ASSUME ControlInv, AnswerInv, NEW c \in Clients, NEW label, Goto(c, label),
         \A d \in Clients \ {c} : pc[d] \notin Section,
         UNCHANGED scenario,
         \A d \in Clients \ {c} : consumed'[d] = consumed[d] /\ answer'[d] = answer[d],
         answer' \in [Clients -> Seq(Byte)],
         c \in DOMAIN scenario.message => consumed'[c] <= Len(scenario.message[c]),
         Len(log') <= Cardinality(Wrote'),
         \A a \in Seq(Byte) : IsPrefix(a, Data) => IsPrefix(a, Data'),
         ClientInv(c)'
  PROVE  AnswerInv'
<1>1. \A d \in Clients \ {c} : pc'[d] = pc[d]
  BY DEF Goto, ControlInv, Types
<1>2. ASSUME NEW d \in Clients PROVE ClientInv(d)'
  <2>1. CASE d = c
    BY <2>1
  <2>2. CASE d # c
    <3>1. /\ pc[d] \notin Section /\ pc'[d] = pc[d] /\ consumed'[d] = consumed[d]
          /\ answer'[d] = answer[d] /\ ClientInv(d)
      BY <1>1, <2>2 DEF AnswerInv
    <3>2. IsPrefix(answer[d], Data) => IsPrefix(answer[d], Data')
      BY DEF AnswerInv
    <3> QED BY <3>1, <3>2, OthersKeepClientInv
  <2> QED BY <2>1, <2>2
<1>3. ASSUME NEW d \in DOMAIN scenario'.message
      PROVE  consumed'[d] <= Len(scenario'.message[d])
  <2>1. d \in Clients /\ d \in DOMAIN scenario.message
    BY ScenariosAssumption DEF ControlInv, BufferInv
  <2> QED BY <2>1 DEF AnswerInv
<1> QED BY <1>2, <1>3 DEF AnswerInv

(* Who has written does not change when nobody goes from writing on. *)
LEMMA WroteKept ==
  ASSUME ControlInv, NEW c \in Clients, NEW label, Goto(c, label),
         pc[c] \in Stored \cup Answered <=> label \in Stored \cup Answered
  PROVE  Wrote' = Wrote
BY DEF Wrote, Goto, ControlInv, Types

(* Steps in which no byte moves. *)
LEMMA QuietKeepsAnswerInv ==
  ASSUME ControlInv, AnswerInv,
         UNCHANGED <<scenario, log, f_pos, ubuf, read_data_len, recv_data, read_buffer,
                     consumed, answer>>,
         \A d \in Clients : \/ pc'[d] = pc[d]
                            \/ {pc[d], pc'[d]} \subseteq Waiting
                            \/ {pc[d], pc'[d]} \subseteq Answered
                            \/ {pc[d], pc'[d]} \subseteq Writing \ {"written"}
  PROVE  AnswerInv'
<1>1. Data' = Data
  BY DEF Data
<1>2. Wrote' = Wrote
  BY AnswerLabels DEF Wrote
<1>3. ASSUME NEW d \in Clients PROVE ClientInv(d)'
  <2>1. Received(d)' = Received(d)
    BY DEF Received
  <2>2. ClientInv(d)
    BY DEF AnswerInv
  <2>3. CASE pc'[d] = pc[d]
    BY <1>1, <2>1, <2>2, <2>3 DEF ClientInv, LineInv, StoredInv, ReadInv, SentInv, Counted
  <2>4. CASE {pc[d], pc'[d]} \subseteq Waiting
    BY <2>1, <2>2, <2>4, AnswerLabels DEF ClientInv, LineInv, StoredInv, ReadInv, SentInv
  <2>5. CASE {pc[d], pc'[d]} \subseteq Answered
    BY <1>1, <2>1, <2>2, <2>5, AnswerLabels DEF ClientInv, LineInv, StoredInv, ReadInv, SentInv
  <2>6. CASE {pc[d], pc'[d]} \subseteq Writing \ {"written"}
    <3>1. /\ pc[d] \in Writing
          /\ pc'[d] \notin Waiting /\ pc'[d] \notin Stored /\ pc'[d] \notin Answered
          /\ pc'[d] \notin {"read", "readback", "send"}
      BY <2>6, AnswerLabels
    <3> QED BY <2>1, <2>2, <3>1 DEF ClientInv, LineInv, StoredInv, ReadInv, SentInv
  <2> QED BY <2>3, <2>4, <2>5, <2>6
<1> QED BY <1>2, <1>3 DEF AnswerInv

(* The steps that touch neither the device nor a worker's buffers.         *)
LEMMA OthersKeepAnswerInv ==
  ASSUME ControlInv, AnswerInv,
         \/ Exit \/ Signal \/ CloseFptr \/ CloseSockfd \/ CloseAccepted \/ DeleteList
         \/ open_socket_then_bind \/ create_new_file \/ Listen \/ accept_connection \/ InsertNode \/ CreateThread
         \/ VisitNode \/ JoinWorker \/ EndOfList
         \/ \E c \in Clients : \/ Connect(c) \/ Leave(c) \/ OpenToWrite(c) \/ Unlock(c)
                               \/ Complete(c) \/ Close(c)
         \/ UNCHANGED vars
  PROVE  AnswerInv'
<1>1. UNCHANGED <<scenario, log, f_pos, ubuf, read_data_len, recv_data, read_buffer,
                  consumed, answer>>
  BY DEF Exit, Signal, CloseFptr, CloseSockfd, CloseAccepted, DeleteList, open_socket_then_bind,
         create_new_file, Listen, accept_connection, InsertNode, CreateThread,
         VisitNode, JoinWorker, EndOfList, Connect, Leave, OpenToWrite, Unlock, Complete,
         Close, vars, process, buffers, device, clients
<1>2. \/ UNCHANGED pc
      \/ \E c \in Clients :
           \/ /\ pc[c] \in {"away", "connected", "accepted"}
              /\ \E label \in {"connected", "accepted", "lock"} : Goto(c, label)
           \/ pc[c] = "open_write" /\ Goto(c, "write")
           \/ /\ pc[c] \in {"unlock", "complete", "close"}
              /\ \E label \in {"complete", "close", "exited"} : Goto(c, label)
  BY DEF Exit, Signal, CloseFptr, CloseSockfd, CloseAccepted, DeleteList, open_socket_then_bind,
         create_new_file, Listen, accept_connection, InsertNode, CreateThread,
         VisitNode, JoinWorker, EndOfList, Connect, Leave, OpenToWrite, Unlock, Complete,
         Close, At, vars, process
<1>3. \A d \in Clients : \/ pc'[d] = pc[d]
                         \/ {pc[d], pc'[d]} \subseteq Waiting
                         \/ {pc[d], pc'[d]} \subseteq Answered
                         \/ {pc[d], pc'[d]} \subseteq Writing \ {"written"}
  <2>1. pc \in [Clients -> {"away", "connected", "accepted"} \cup Started]
    BY DEF ControlInv, Types
  <2> QED BY <1>2, <2>1 DEF Goto, Waiting, Answered, Writing
<1> QED BY <1>1, <1>3, QuietKeepsAnswerInv

(* What has been received are bytes. *)
LEMMA ReceivedIsSeq ==
  ASSUME ControlInv, AnswerInv, NEW c \in Clients, pc[c] # "away"
  PROVE  /\ c \in DOMAIN scenario.message /\ scenario.message[c] \in Seq(Byte)
         /\ consumed[c] \in Nat /\ consumed[c] <= Len(scenario.message[c])
         /\ Received(c) \in Seq(Byte)
<1>1. /\ c \in DOMAIN scenario.message /\ scenario.message[c] \in Seq(Byte)
      /\ consumed[c] \in Nat /\ consumed[c] <= Len(scenario.message[c])
  BY MessagesAreBytes DEF ControlInv, BufferInv, AnswerInv
<1>2. SubSeq(scenario.message[c], 0 + 1, 0 + consumed[c]) \in Seq(Byte)
  BY <1>1, PartIsSeq
<1> QED BY <1>1, <1>2 DEF Received

(* A worker that takes the mutex has received nothing yet.                 *)
LEMMA LockKeepsAnswerInv ==
  ASSUME ControlInv, AnswerInv, NEW c \in Clients, Lock(c)
  PROVE  AnswerInv'
<1>1. /\ pc[c] = "lock" /\ mutex_lock = NoClient /\ recv_data' = << >> /\ Goto(c, "recv")
      /\ UNCHANGED <<scenario, consumed, answer, log>>
  BY DEF Lock, At, clients, device
<1>2. \A d \in Clients : pc[d] \notin Section
  BY <1>1, ClientsAssumption DEF ControlInv, MutexInv
<1>3. /\ "lock" \in Waiting
      /\ "recv" \notin Waiting /\ "recv" \notin Stored /\ "recv" \notin Answered
      /\ "lock" \notin Stored /\ "lock" \notin Answered
  BY DEF Waiting, Stored, Answered, Counting
<1>4. pc'[c] = "recv"
  BY <1>1 DEF Goto, ControlInv, Types
<1>5. consumed[c] = 0
  BY <1>1, <1>3 DEF AnswerInv, ClientInv, LineInv
<1>6. Received(c)' = << >>
  <2>1. SubSeq(scenario.message[c], 1, 0) = << >>
    BY SubSeqEmpty
  <2> QED BY <1>1, <1>5, <2>1 DEF Received
<1>7. ClientInv(c)'
  BY <1>1, <1>3, <1>4, <1>6 DEF ClientInv, LineInv, StoredInv, ReadInv, SentInv
<1>8. Wrote' = Wrote
  BY <1>1, <1>3, WroteKept
<1>9. Data' = Data
  BY <1>1 DEF Data
<1>10. /\ answer' \in [Clients -> Seq(Byte)] /\ Len(log') <= Cardinality(Wrote')
       /\ c \in DOMAIN scenario.message => consumed'[c] <= Len(scenario.message[c])
  BY <1>1, <1>8 DEF AnswerInv
<1> QED BY <1>1, <1>2, <1>7, <1>9, <1>10, HolderKeepsAnswerInv

(* What recv delivers goes behind what was received before.                *)
LEMMA RecvKeepsAnswerInv ==
  ASSUME ControlInv, AnswerInv, NEW c \in Clients, Recv(c)
  PROVE  AnswerInv'
<1>1. /\ pc[c] = "recv" /\ recv_data \in Seq(Byte)
      /\ Goto(c, "open_write") \/ UNCHANGED pc
      /\ \E n \in 1 .. recv_len :
           /\ consumed[c] + n <= Len(scenario.message[c])
           /\ consumed' = [consumed EXCEPT ![c] = @ + n]
           /\ recv_data' = recv_data \o SubSeq(scenario.message[c], consumed[c] + 1, consumed[c] + n)
  BY RecvReceives
<1>2. PICK n \in 1 .. recv_len :
        /\ consumed[c] + n <= Len(scenario.message[c])
        /\ consumed' = [consumed EXCEPT ![c] = @ + n]
        /\ recv_data' = recv_data \o SubSeq(scenario.message[c], consumed[c] + 1, consumed[c] + n)
  BY <1>1
<1>3. UNCHANGED <<scenario, answer, log>>
  BY DEF Recv, device
<1>4. PICK label \in {"recv", "open_write"} : Goto(c, label) /\ pc'[c] = label
  <2>1. pc \in [Clients -> {"away", "connected", "accepted"} \cup Started]
    BY DEF ControlInv, Types
  <2>2. CASE Goto(c, "open_write")
    BY <2>1, <2>2 DEF Goto
  <2>3. CASE UNCHANGED pc
    BY <1>1, <2>1, <2>3 DEF Goto
  <2> QED BY <1>1, <2>2, <2>3
<1>5. /\ {pc[c], label} \subseteq Writing \ {"written"} /\ pc[c] \in Section
      /\ label \notin Waiting /\ label \notin Stored /\ label \notin Answered
      /\ pc[c] \notin Stored /\ pc[c] \notin Answered
      /\ label \notin {"read", "readback", "send"}
  BY <1>1 DEF Writing, Section, Waiting, Stored, Answered, Counting
<1>6. /\ scenario.message[c] \in Seq(Byte) /\ consumed[c] \in Nat /\ Received(c) \in Seq(Byte)
      /\ consumed \in [Clients -> Nat] /\ n \in Nat
  <2>1. pc[c] # "away"
    BY <1>1
  <2>2. /\ scenario.message[c] \in Seq(Byte) /\ consumed[c] \in Nat
        /\ Received(c) \in Seq(Byte)
    BY <2>1, ReceivedIsSeq
  <2>3. n \in Nat
    BY RecvAssumption
  <2> QED BY <2>2, <2>3 DEF ControlInv, BufferInv
<1> DEFINE part == SubSeq(scenario.message[c], consumed[c] + 1, consumed[c] + n)
<1>7. part \in Seq(Byte)
  BY <1>2, <1>6, PartIsSeq
<1>8. Received(c)' = Received(c) \o part
  <2>1. Received(c)' = SubSeq(scenario.message[c], 1, consumed[c] + n)
    BY <1>2, <1>3, <1>6 DEF Received
  <2>2. /\ 1 \in 1 .. Len(scenario.message[c]) + 1
        /\ consumed[c] \in 1 - 1 .. Len(scenario.message[c])
        /\ consumed[c] + n \in consumed[c] .. Len(scenario.message[c])
    <3>1. Len(scenario.message[c]) \in Nat
      BY <1>6, LenProperties
    <3>2. consumed[c] + n <= Len(scenario.message[c]) /\ consumed[c] \in Nat /\ n \in Nat
      BY <1>2, <1>6
    <3> QED BY <3>1, <3>2
  <2>3. SubSeq(scenario.message[c], 1, consumed[c]) \o part
          = SubSeq(scenario.message[c], 1, consumed[c] + n)
    BY <1>6, <2>2, ConcatAdjacentSubSeq
  <2> QED BY <2>1, <2>3, Zenon DEF Received
<1>9. recv_data' = recv_data \o part
  BY <1>2
<1> HIDE DEF part
<1>10. recv_data' = Received(c)' \/ JUNK \in Range(recv_data')
  <2>1. recv_data = Received(c) \/ JUNK \in Range(recv_data)
    BY <1>5 DEF AnswerInv, ClientInv, LineInv
  <2>2. CASE recv_data = Received(c)
    BY <1>8, <1>9, <2>2
  <2>3. CASE JUNK \in Range(recv_data)
    BY <1>1, <1>7, <1>9, <2>3, RangeOfConcat
  <2> QED BY <2>1, <2>2, <2>3
<1>11. ClientInv(c)'
  BY <1>4, <1>5, <1>10 DEF ClientInv, LineInv, StoredInv, ReadInv, SentInv
<1>12. Wrote' = Wrote /\ Data' = Data
  BY <1>3, <1>4, <1>5, WroteKept DEF Data
<1>13. \A d \in Clients \ {c} : pc[d] \notin Section
  BY <1>5, HolderIsAlone DEF ControlInv
<1>14. \A d \in Clients \ {c} : consumed'[d] = consumed[d] /\ answer'[d] = answer[d]
  BY <1>2, <1>3, <1>6
<1>15. /\ answer' \in [Clients -> Seq(Byte)] /\ Len(log') <= Cardinality(Wrote')
       /\ consumed'[c] <= Len(scenario.message[c])
  BY <1>2, <1>3, <1>6, <1>12 DEF AnswerInv
<1> QED BY <1>3, <1>4, <1>11, <1>12, <1>13, <1>14, <1>15, HolderKeepsAnswerInv

(* A line that is stored comes after all that the device held. *)
LEMMA WriteKeepsAnswerInv ==
  ASSUME Cardinality(Clients) <= Slots, ControlInv, LengthInv, AnswerInv,
         NEW c \in Clients, Write(c)
  PROVE  AnswerInv'
<1>1. /\ pc[c] = "write" /\ Goto(c, "written")
      /\ UNCHANGED <<scenario, recv_data, read_data_len, consumed, answer>>
      /\ Device!Write(c, recv_data) \/ Device!Fail(c, -1)
  BY DEF Write, At, process, buffers, clients
<1>2. /\ pc[c] \in Section \ Counting /\ pc[c] \in Writing
      /\ pc[c] \notin Stored /\ pc[c] \notin Answered
      /\ "written" \in Writing /\ "written" \in Stored /\ "written" \notin Answered
      /\ "written" \notin Waiting /\ "written" \notin {"read", "readback", "send"}
  BY <1>1 DEF Section, Writing, Reading, Counting, Stored, Answered, Waiting
<1>3. recv_data \in Seq(Byte) /\ Len(recv_data) \in Nat /\ read_data_len \in Nat
  BY <1>2, HolderHas
<1>4. read_data_len = Len(Data) /\ partial = << >>
  BY <1>2, HolderHasCounted
<1>5. /\ log \in Seq(Seq(Byte)) /\ partial \in Seq(Byte) /\ Len(log) \in Nat
      /\ Data \in Seq(Byte) /\ Len(Data) \in Nat
  BY DataTypes, LenProperties DEF LengthInv, LogTypes
<1>6. pc'[c] = "written" /\ \A d \in Clients \ {c} : pc'[d] = pc[d]
  BY <1>1 DEF Goto, ControlInv, Types
<1>7. /\ IsFiniteSet(Wrote) /\ c \notin Wrote /\ Wrote' = Wrote \cup {c}
      /\ Cardinality(Wrote) \in Nat
      /\ Cardinality(Wrote') = Cardinality(Wrote) + 1
  <2>1. c \notin Wrote /\ Wrote' = Wrote \cup {c}
    BY <1>2, <1>6 DEF Wrote
  <2> QED BY <2>1, WroteIsFinite, FS_AddElement
<1>8. Cardinality(Wrote) + 1 <= Cardinality(Clients)
  <2>1. Wrote \cup {c} \subseteq Clients
    BY DEF Wrote
  <2> QED BY <1>7, <2>1, ClientsAssumption, FS_Subset
<1>9. Len(log) <= Cardinality(Wrote) /\ Len(log) < Slots
  <2>1. Cardinality(Clients) \in Nat
    BY ClientsAssumption, FS_CardinalityType
  <2> QED BY <1>5, <1>7, <1>8, <2>1, DeviceAssumption DEF AnswerInv
<1>10. \/ log' = log
       \/ log' = Append(log, recv_data)
  <2>1. CASE Device!Write(c, recv_data)
    BY <1>3, <1>4, <1>5, <1>9, <2>1, DeviceWrites
  <2>2. CASE Device!Fail(c, -1)
    BY <2>2 DEF Device!Fail
  <2> QED BY <1>1, <2>1, <2>2
<1>11. \/ Data' = Data /\ Len(log') = Len(log)
       \/ Data' = Data \o recv_data /\ Len(log') = Len(log) + 1
  <2>1. CASE log' = log
    BY <2>1 DEF Data
  <2>2. CASE log' = Append(log, recv_data)
    <3>1. FlattenSeq(Append(log, recv_data)) = FlattenSeq(log) \o recv_data
      BY <1>3, <1>5, FlattenAppend
    <3>2. Len(Append(log, recv_data)) = Len(log) + 1
      BY <1>3, <1>5, AppendProperties
    <3> QED BY <2>2, <3>1, <3>2 DEF Data
  <2> QED BY <1>10, <2>1, <2>2
<1>12. recv_data = Received(c) \/ JUNK \in Range(recv_data)
  BY <1>2 DEF AnswerInv, ClientInv, LineInv
<1>13. Received(c)' = Received(c)
  BY <1>1 DEF Received
<1>14. Len(Data') = read_data_len + Len(recv_data)
         => JUNK \in Range(Data') \/ EndsWith(Byte, Data', Received(c))
  <2> SUFFICES ASSUME Len(Data') = read_data_len + Len(recv_data)
               PROVE  JUNK \in Range(Data') \/ EndsWith(Byte, Data', Received(c))
    OBVIOUS
  <2>1. CASE Data' = Data \o recv_data
    <3>1. EndsWith(Byte, Data', recv_data)
      BY <1>5, <2>1 DEF EndsWith
    <3>2. CASE recv_data = Received(c)
      BY <3>1, <3>2
    <3>3. CASE JUNK \in Range(recv_data)
      BY <1>3, <1>5, <2>1, <3>3, RangeOfConcat
    <3> QED BY <1>12, <3>2, <3>3
  <2>2. CASE Data' = Data
    <3>1. Len(recv_data) = 0
      BY <1>3, <1>4, <1>5, <2>2
    <3>2. recv_data = << >> /\ JUNK \notin Range(recv_data)
      <4>1. recv_data = << >>
        BY <1>3, <3>1, EmptySeq
      <4>2. DOMAIN recv_data = {}
        BY <1>3, <3>1, LenProperties
      <4> QED BY <4>1, <4>2 DEF Range
    <3>3. EndsWith(Byte, Data', << >>) /\ << >> \in Seq(Byte)
      BY <1>5, <2>2, EndsWithProperties, EmptySeq
    <3> QED BY <1>12, <3>2, <3>3
  <2> QED BY <1>11, <2>1, <2>2
<1>15. ClientInv(c)'
  <2>1. Counted(c)' = read_data_len + Len(recv_data)
    BY <1>1, <1>6 DEF Counted
  <2> QED BY <1>1, <1>2, <1>6, <1>12, <1>13, <1>14, <2>1
          DEF ClientInv, LineInv, StoredInv, ReadInv, SentInv
<1>16. \A a \in Seq(Byte) : IsPrefix(a, Data) => IsPrefix(a, Data')
  BY <1>3, <1>5, <1>11, PrefixGrows
<1>17. Len(log') <= Cardinality(Wrote')
  BY <1>5, <1>7, <1>9, <1>11
<1>18. \A d \in Clients \ {c} : pc[d] \notin Section
  BY <1>2, HolderIsAlone DEF ControlInv
<1>19. /\ answer' \in [Clients -> Seq(Byte)]
       /\ c \in DOMAIN scenario.message => consumed'[c] <= Len(scenario.message[c])
  BY <1>1 DEF AnswerInv
<1> QED BY <1>1, <1>15, <1>16, <1>17, <1>18, <1>19, HolderKeepsAnswerInv

(* The line is counted; nothing else is done with it. *)
LEMMA WrittenKeepsAnswerInv ==
  ASSUME ControlInv, AnswerInv, NEW c \in Clients, Written(c)
  PROVE  AnswerInv'
<1>1. /\ pc[c] = "written" /\ Goto(c, "open")
      /\ read_data_len' = read_data_len + Len(recv_data)
      /\ UNCHANGED <<scenario, consumed, answer, log>>
  BY DEF Written, At, Device!Return, clients
<1>2. /\ pc[c] \in Section /\ pc[c] \in Stored /\ pc[c] \in Writing
      /\ "open" \in Stored /\ "open" \notin Writing /\ "open" \notin Answered
      /\ "open" \notin Waiting
  BY <1>1 DEF Section, Writing, Counting, Stored, Answered, Waiting
<1>3. pc'[c] = "open"
  BY <1>1 DEF Goto, ControlInv, Types
<1>4. Data' = Data /\ Received(c)' = Received(c) /\ Wrote' = Wrote
  BY <1>1, <1>2, WroteKept DEF Data, Received
<1>5. Counted(c) = read_data_len' /\ Counted(c)' = read_data_len'
  <2>1. read_data_len' \in Nat
    BY <1>1, <1>2, HolderHas
  <2> QED BY <1>1, <1>3, <2>1 DEF Counted
<1>6. ClientInv(c)'
  <2>1. StoredInv(c)'
    BY <1>2, <1>4, <1>5 DEF AnswerInv, ClientInv, StoredInv
  <2> QED BY <1>2, <1>3, <2>1 DEF ClientInv, LineInv, ReadInv, SentInv
<1>7. \A d \in Clients \ {c} : pc[d] \notin Section
  BY <1>2, HolderIsAlone DEF ControlInv
<1>8. /\ answer' \in [Clients -> Seq(Byte)] /\ Len(log') <= Cardinality(Wrote')
      /\ c \in DOMAIN scenario.message => consumed'[c] <= Len(scenario.message[c])
  BY <1>1, <1>4 DEF AnswerInv
<1> QED BY <1>1, <1>4, <1>6, <1>7, <1>8, HolderKeepsAnswerInv

(* While it reads, the worker and its line stay as they are, and so does   *)
(* the device.                                                             *)
LEMMA ReaderKeepsAnswerInv ==
  ASSUME ControlInv, AnswerInv, NEW c \in Clients, NEW label, Goto(c, label),
         pc[c] \in {"open", "read", "readback"}, label \in {"read", "readback", "send"},
         UNCHANGED <<scenario, consumed, answer, log, read_data_len>>,
         ReadInv(c)'
  PROVE  AnswerInv'
<1>1. /\ pc[c] \in Section /\ {pc[c], label} \subseteq Stored
      /\ pc[c] # "written" /\ label # "written"
      /\ label \notin Waiting /\ label \notin Writing /\ label \notin Answered
  BY AnswerLabels
<1>2. pc'[c] = label
  BY DEF Goto, ControlInv, Types
<1>3. Data' = Data /\ Received(c)' = Received(c) /\ Wrote' = Wrote
  BY <1>1, WroteKept DEF Data, Received
<1>4. Counted(c)' = Counted(c)
  BY <1>1, <1>2 DEF Counted
<1>5. StoredInv(c)'
  BY <1>1, <1>3, <1>4 DEF AnswerInv, ClientInv, StoredInv
<1>6. ClientInv(c)'
  BY <1>1, <1>2, <1>5 DEF ClientInv, LineInv, SentInv
<1>7. \A d \in Clients \ {c} : pc[d] \notin Section
  BY <1>1, HolderIsAlone DEF ControlInv
<1>8. /\ answer' \in [Clients -> Seq(Byte)] /\ Len(log') <= Cardinality(Wrote')
      /\ c \in DOMAIN scenario.message => consumed'[c] <= Len(scenario.message[c])
  BY <1>3 DEF AnswerInv
<1> QED BY <1>3, <1>6, <1>7, <1>8, HolderKeepsAnswerInv

(* A worker about to read has read nothing.                                *)
LEMMA OpenKeepsAnswerInv ==
  ASSUME ControlInv, LengthInv, AnswerInv, NEW c \in Clients, Open(c)
  PROVE  AnswerInv'
<1>1. /\ pc[c] = "open" /\ Goto(c, "read") /\ read_buffer' = << >>
      /\ UNCHANGED <<scenario, consumed, answer, log, read_data_len, ubuf>>
      /\ f_pos' = [f_pos EXCEPT ![c] = 0]
  BY DEF Open, At, Device!Open, clients
<1>2. pc'[c] = "read"
  BY <1>1 DEF Goto, ControlInv, Types
<1>3. f_pos'[c] = 0 /\ ubuf'[c] = << >>
  BY <1>1 DEF LengthInv, LogTypes
<1>4. << >> \o << >> = << >> /\ SubSeq(Data', 1, 0) = << >>
  <2>1. << >> \in Seq(Byte)
    BY EmptySeq
  <2> QED BY <2>1, ConcatEmptySeq, SubSeqEmpty
<1>5. ReadInv(c)'
  BY <1>1, <1>2, <1>3, <1>4 DEF ReadInv
<1> QED BY <1>1, <1>5, ReaderKeepsAnswerInv

(* A read continues what was read before.                                  *)
LEMMA ReadKeepsAnswerInv ==
  ASSUME ControlInv, LengthInv, AnswerInv, NEW c \in Clients, Read(c)
  PROVE  AnswerInv'
<1>1. /\ pc[c] = "read" /\ Goto(c, "readback")
      /\ UNCHANGED <<scenario, consumed, answer, read_data_len, read_buffer>>
      /\ Device!Read(c, read_data_len) \/ Device!Fail(c, -1)
  BY DEF Read, At, process, buffers, clients
<1>2. pc'[c] = "readback"
  BY <1>1 DEF Goto, ControlInv, Types
<1>3. /\ LogTypes /\ read_buffer \in Seq(Byte) /\ ubuf[c] = << >>
      /\ read_data_len \in Nat /\ f_pos[c] <= Len(Data) /\ f_pos[c] \in Nat
  BY <1>1 DEF LengthInv, LogTypes, CountInv, Reading, ControlInv, BufferInv
<1>4. read_buffer = SubSeq(Data, 1, f_pos[c]) \/ JUNK \in Range(read_buffer)
  <2>1. read_buffer \o ubuf[c] = read_buffer
    BY <1>3, ConcatEmptySeq
  <2> QED BY <1>1, <2>1 DEF AnswerInv, ClientInv, ReadInv
<1>5. /\ UNCHANGED log
      /\ read_buffer \o ubuf'[c] = SubSeq(Data, 1, f_pos'[c]) \/ JUNK \in Range(read_buffer)
  <2>1. CASE Device!Read(c, read_data_len)
    <3>1. PICK bytes \in Seq(Byte) :
            /\ ubuf' = [ubuf EXCEPT ![c] = bytes]
            /\ f_pos' = [f_pos EXCEPT ![c] = @ + Len(bytes)]
            /\ UNCHANGED <<log, partial>>
            /\ SubSeq(Data, 1, f_pos[c]) \o bytes = SubSeq(Data, 1, f_pos[c] + Len(bytes))
      BY <1>3, <2>1, DeviceReads
    <3>2. ubuf'[c] = bytes /\ f_pos'[c] = f_pos[c] + Len(bytes)
      BY <1>3, <3>1 DEF LogTypes
    <3>3. CASE read_buffer = SubSeq(Data, 1, f_pos[c])
      BY <3>1, <3>2, <3>3
    <3> QED BY <1>4, <3>1, <3>3
  <2>2. CASE Device!Fail(c, -1)
    <3>1. UNCHANGED <<log, ubuf, f_pos>>
      BY <2>2 DEF Device!Fail
    <3> QED BY <1>1, <3>1 DEF AnswerInv, ClientInv, ReadInv
  <2> QED BY <1>1, <2>1, <2>2
<1>6. Data' = Data
  BY <1>5 DEF Data
<1>7. ReadInv(c)'
  BY <1>1, <1>2, <1>5, <1>6 DEF ReadInv
<1> QED BY <1>1, <1>5, <1>7, ReaderKeepsAnswerInv

(* When as much was read as was counted, it is the whole device.           *)
LEMMA ReadBackKeepsAnswerInv ==
  ASSUME ControlInv, LengthInv, AnswerInv, NEW c \in Clients, ReadBack(c)
  PROVE  AnswerInv'
<1>1. /\ pc[c] = "readback" /\ read_buffer \in Seq(Byte) /\ ubuf[c] \in Seq(Byte)
      /\ read_buffer' = read_buffer \o ubuf[c] /\ read_buffer' \in Seq(Byte)
      /\ UNCHANGED <<log, f_pos, read_data_len>>
      /\ ubuf' = [ubuf EXCEPT ![c] = << >>]
      /\ Goto(c, "read") \/ (Goto(c, "send") /\ f_pos[c] = Len(Data))
  BY ReadBackReads
<1>2. UNCHANGED <<scenario, consumed, answer>>
  BY DEF ReadBack, clients
<1>3. Data' = Data /\ Data \in Seq(Byte) /\ ubuf'[c] = << >>
  BY <1>1, DataTypes DEF Data, LengthInv, LogTypes
<1>4. read_buffer' = SubSeq(Data, 1, f_pos[c]) \/ JUNK \in Range(read_buffer')
  <2>1. read_buffer \o ubuf[c] = SubSeq(Data, 1, f_pos[c]) \/ JUNK \in Range(read_buffer)
    BY <1>1 DEF AnswerInv, ClientInv, ReadInv
  <2>2. CASE JUNK \in Range(read_buffer)
    BY <1>1, <2>2, RangeOfConcat
  <2> QED BY <1>1, <2>1, <2>2
<1>5. CASE Goto(c, "read")
  <2>1. pc'[c] = "read"
    BY <1>5 DEF Goto, ControlInv, Types
  <2>2. read_buffer' \o ubuf'[c] = read_buffer'
    BY <1>1, <1>3, ConcatEmptySeq
  <2>3. ReadInv(c)'
    BY <1>1, <1>3, <1>4, <2>1, <2>2 DEF ReadInv
  <2> QED BY <1>1, <1>2, <1>5, <2>3, ReaderKeepsAnswerInv
<1>6. CASE Goto(c, "send") /\ f_pos[c] = Len(Data)
  <2>1. pc'[c] = "send"
    BY <1>6 DEF Goto, ControlInv, Types
  <2>2. read_buffer' = Data \/ JUNK \in Range(read_buffer')
    BY <1>3, <1>4, <1>6, SubSeqFull
  <2>3. ReadInv(c)'
    BY <1>3, <2>1, <2>2 DEF ReadInv
  <2> QED BY <1>1, <1>2, <1>6, <2>3, ReaderKeepsAnswerInv
<1> QED BY <1>1, <1>5, <1>6

(* What is sent is all that the device holds, and ends with the client's   *)
(* own line.                                                               *)
LEMMA SendKeepsAnswerInv ==
  ASSUME ControlInv, LengthInv, AnswerInv, NEW c \in Clients, Send(c)
  PROVE  AnswerInv'
<1>1. /\ pc[c] = "send" /\ Goto(c, "unlock") /\ answer' = [answer EXCEPT ![c] = read_buffer]
      /\ UNCHANGED <<scenario, consumed, log>>
  BY DEF Send, At, device
<1>2. /\ pc[c] \in Section \ Counting /\ pc[c] \in Stored /\ pc[c] # "written"
      /\ pc[c] \in Reading
      /\ "unlock" \in Answered
      /\ "unlock" \notin Waiting /\ "unlock" \notin Writing /\ "unlock" \notin Stored
  BY <1>1 DEF Section, Reading, Counting, Stored, Answered, Waiting, Writing
<1>3. /\ LogTypes /\ read_buffer \in Seq(Byte) /\ Data \in Seq(Byte) /\ Len(Data) \in Nat
  BY <1>2, DataTypes DEF LengthInv, LogTypes
<1>4. pc'[c] = "unlock"
  BY <1>1 DEF Goto, ControlInv, Types
<1>5. Data' = Data /\ Received(c)' = Received(c) /\ Wrote' = Wrote
  BY <1>1, <1>2, WroteKept DEF Data, Received
<1>6. JUNK \in Range(Data) \/ EndsWith(Byte, Data, Received(c))
  <2>1. read_data_len = Len(Data)
    BY <1>2, HolderHasCounted
  <2>2. Len(Data) = Counted(c)
    BY <1>2, <1>3, <2>1 DEF Counted
  <2> QED BY <1>2, <2>2 DEF AnswerInv, ClientInv, StoredInv
<1>7. read_buffer = Data \/ JUNK \in Range(read_buffer)
  BY <1>1 DEF AnswerInv, ClientInv, ReadInv
<1>8. /\ answer' \in [Clients -> Seq(Byte)] /\ answer'[c] = read_buffer
      /\ \A d \in Clients \ {c} : answer'[d] = answer[d]
  BY <1>1, <1>3 DEF AnswerInv
<1>9. SentInv(c)'
  <2>1. IsPrefix(Data, Data)
    BY <1>3, PrefixGrows
  <2> QED BY <1>5, <1>6, <1>7, <1>8, <2>1 DEF SentInv
<1>10. ClientInv(c)'
  BY <1>2, <1>4, <1>9 DEF ClientInv, LineInv, StoredInv, ReadInv
<1>11. \A d \in Clients \ {c} : pc[d] \notin Section
  BY <1>2, HolderIsAlone DEF ControlInv
<1>12. /\ Len(log') <= Cardinality(Wrote')
       /\ c \in DOMAIN scenario.message => consumed'[c] <= Len(scenario.message[c])
  BY <1>1, <1>5 DEF AnswerInv
<1> QED BY <1>1, <1>5, <1>8, <1>10, <1>11, <1>12, HolderKeepsAnswerInv

(* What the handler has freed is what it was, or JUNK. *)
LEMMA FreeKeepsAnswerInv ==
  ASSUME ControlInv, LengthInv, AnswerInv, FreeBuffers
  PROVE  AnswerInv'
<1>1. /\ UNCHANGED <<scenario, pc, log, f_pos, ubuf, read_data_len, consumed, answer>>
      /\ recv_data' = recv_data \/ recv_data' \in Remains(recv_data)
      /\ read_buffer' = read_buffer \/ read_buffer' \in Remains(read_buffer)
  BY DEF FreeBuffers, device, clients
<1>2. Data' = Data /\ Wrote' = Wrote
  BY <1>1 DEF Data, Wrote
<1>3. JUNK \in Byte
  BY DEF Byte
<1>4. ASSUME NEW c \in Clients PROVE ClientInv(c)'
  <2>1. Received(c)' = Received(c) /\ ClientInv(c)
    BY <1>1 DEF Received, AnswerInv
  <2>2. pc[c] \in Writing =>
          Len(recv_data') = Len(recv_data) /\ (recv_data' = recv_data \/ JUNK \in Range(recv_data'))
    BY <1>1, <1>3, RemainsProperties DEF ControlInv, BufferInv
  <2>3. pc[c] \in Reading => read_buffer' = read_buffer \/ JUNK \in Range(read_buffer')
    BY <1>1, <1>3, RemainsProperties DEF LengthInv, LogTypes
  <2>4. "written" \in Writing /\ {"read", "readback", "send"} \subseteq Reading
    BY DEF Writing, Reading
  <2>5. LineInv(c)'
    BY <1>1, <2>1, <2>2 DEF ClientInv, LineInv
  <2>6. StoredInv(c)'
    <3>1. Counted(c)' = Counted(c)
      BY <1>1, <2>2, <2>4 DEF Counted
    <3> QED BY <1>1, <1>2, <2>1, <3>1 DEF ClientInv, StoredInv
  <2>7. ReadInv(c)'
    BY <1>1, <1>2, <2>1, <2>3, <2>4 DEF ClientInv, ReadInv
  <2>8. SentInv(c)'
    BY <1>1, <1>2, <2>1 DEF ClientInv, SentInv
  <2> QED BY <2>5, <2>6, <2>7, <2>8 DEF ClientInv
<1> QED BY <1>1, <1>2, <1>4 DEF AnswerInv

(* Every step keeps the fourth layer, while the driver displaces no line.  *)
LEMMA NextAnswerInv ==
  ASSUME Cardinality(Clients) <= Slots
  PROVE  ControlInv /\ LengthInv /\ AnswerInv /\ [Next]_vars => AnswerInv'
<1> SUFFICES ASSUME ControlInv, LengthInv, AnswerInv, [Next]_vars PROVE AnswerInv'
  OBVIOUS
<1>1. CASE UNCHANGED vars \/ Main \/ MainExits \/ JoinUnmapped \/ DoubleFree \/ Signal
  BY <1>1, OthersKeepAnswerInv
     DEF Main, MainExits, JoinUnmapped, DoubleFree, ListeningClosed
<1>2. CASE sighandler
  BY <1>2, OthersKeepAnswerInv, FreeKeepsAnswerInv DEF sighandler
<1>3. ASSUME NEW c \in Clients, Connect(c) \/ Leave(c) \/ Lock(c) \/ WorkerExits(c)
      PROVE  AnswerInv'
  BY <1>3, OthersKeepAnswerInv, LockKeepsAnswerInv DEF WorkerExits
<1>4. ASSUME NEW c \in Clients, Worker(c)
      PROVE  AnswerInv'
  BY <1>4, RecvKeepsAnswerInv, WriteKeepsAnswerInv, WrittenKeepsAnswerInv,
     OpenKeepsAnswerInv, ReadKeepsAnswerInv, ReadBackKeepsAnswerInv, SendKeepsAnswerInv,
     OthersKeepAnswerInv DEF Worker, WorkerFails
<1> QED BY <1>1, <1>2, <1>3, <1>4 DEF Next

(* All clients see one history, however many there are and whatever they   *)
(* send, as long as the driver has room for a line of each: the answer     *)
(* that a client gets ends with what was received from it, and of any two  *)
(* answers one begins with the other (aesdsocket.c:400-423).               *)
THEOREM AnswersAreOneHistory ==
  ASSUME Cardinality(Clients) <= Slots
  PROVE  Spec => []AnswersAgree
<1>1. ControlInv /\ (Fresh => LengthInv) /\ (Fresh => AnswerInv) => AnswersAgree
  <2> SUFFICES ASSUME ControlInv, LengthInv, AnswerInv PROVE AnswersAgree
    BY DEF AnswersAgree
  <2> DEFINE intact == {c \in Served : JUNK \notin Range(answer[c])}
  <2>1. ASSUME NEW c \in intact
        PROVE  /\ answer[c] \in Seq(Byte) /\ Received(c) \in Seq(Byte)
               /\ EndsWith(Byte, answer[c], Received(c)) /\ IsPrefix(answer[c], Data)
    <3>1. c \in Clients /\ pc[c] \in Answered /\ pc[c] # "away"
      BY DEF Served, Answered
    <3>2. Received(c) \in Seq(Byte)
      BY <3>1, ReceivedIsSeq
    <3> QED BY <3>1, <3>2 DEF AnswerInv, ClientInv, SentInv
  <2>2. ASSUME NEW c \in intact, NEW d \in intact
        PROVE  /\ IsSuffix(SubSeq(scenario.message[c], 1, consumed[c]), answer[c])
               /\ IsPrefix(answer[c], answer[d]) \/ IsPrefix(answer[d], answer[c])
               /\ IsPrefix(answer[c], FlattenSeq(log))
    <3> HIDE DEF intact
    <3>1. /\ answer[c] \in Seq(Byte) /\ Received(c) \in Seq(Byte)
          /\ EndsWith(Byte, answer[c], Received(c)) /\ IsPrefix(answer[c], Data)
          /\ answer[d] \in Seq(Byte) /\ IsPrefix(answer[d], Data)
      BY <2>1
    <3>2. IsSuffix(Received(c), answer[c])
      BY <3>1, EndsWithIsSuffix
    <3>3. Data \in Seq(Byte)
      BY DataTypes DEF LengthInv
    <3>4. IsPrefix(answer[c], answer[d]) \/ IsPrefix(answer[d], answer[c])
      BY <3>1, <3>3, PrefixesAgree
    <3> QED BY <3>1, <3>2, <3>4 DEF Received, Data
  <2> QED BY <2>2 DEF AnswersAgree
<1>2. Init => (Fresh => AnswerInv)
  BY InitAnswerInv
<1>3. ControlInv /\ (Fresh => LengthInv) /\ (Fresh => AnswerInv) /\ [Next]_vars
        => (Fresh => AnswerInv)'
  BY NextAnswerInv, ScenarioKept DEF Fresh
<1> QED BY <1>1, <1>2, <1>3, ControlInvariant, LengthInvariant, PTL DEF Spec

=============================================================================
