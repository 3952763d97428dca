--------------------------- MODULE NamedPipeProofs ---------------------------
(***************************************************************************)
(* For any number of clients, messages and sizes of answers: what the threads *)
(* of the pipe send is there, and while no client sends data each client and  *)
(* its thread are in step.                                                  *)
(***************************************************************************)
EXTENDS NamedPipe, SequenceTheorems, TLAPS

-----------------------------------------------------------------------------
(* Bytes and streams *)

Byte == 0 .. 255
DWords == {b \in Seq(Byte) : Len(b) = 4}

\* What a read takes from a stream and leaves in it; a read of all that is there takes it.
LEMMA TakenLeft ==
  ASSUME NEW S, NEW q \in Seq(S), NEW n \in Nat
  PROVE  /\ Taken(q, n) \in Seq(S) /\ Len(Taken(q, n)) = Least(n, Len(q))
         /\ Left(q, n) \in Seq(S)
         /\ Len(q) = n => Taken(q, n) = q /\ Left(q, n) = <<>>
<1>1. Len(q) \in Nat /\ \A i \in 1 .. Len(q) : q[i] \in S
  BY LenProperties
<1>2. Least(n, Len(q)) \in 0 .. Len(q)
  BY <1>1 DEF Least
<1>3. /\ \A i \in 1 .. Least(n, Len(q)) : q[i] \in S
      /\ \A i \in Least(n, Len(q)) + 1 .. Len(q) : q[i] \in S
  BY <1>1, <1>2
<1>4. /\ Taken(q, n) \in Seq(S)
      /\ Len(Taken(q, n)) = IF 1 <= Least(n, Len(q)) THEN Least(n, Len(q)) - 1 + 1 ELSE 0
      /\ \A i \in 1 .. Least(n, Len(q)) - 1 + 1 : Taken(q, n)[i] = q[1 + i - 1]
  BY <1>1, <1>2, <1>3, SubSeqProperties DEF Taken
<1>5. Left(q, n) \in Seq(S)
  BY <1>1, <1>2, <1>3, SubSeqProperties DEF Left
<1>6. ASSUME Len(q) = n PROVE Taken(q, n) = q /\ Left(q, n) = <<>>
  <2>1. Least(n, Len(q)) = Len(q)
    BY <1>1, <1>6 DEF Least
  <2>2. Taken(q, n) = q
    BY <1>1, <1>4, <2>1, SeqEqual
  <2>3. Left(q, n) = <<>>
    BY <1>1, <2>1, SubSeqEmpty DEF Left
  <2> QED
    BY <2>2, <2>3
<1> QED
  BY <1>1, <1>2, <1>4, <1>5, <1>6

\* The four bytes of a size make that size.
LEMMA BytesNumber ==
  ASSUME NEW n \in Byte
  PROVE  Bytes(n) \in DWords /\ Number(Bytes(n)) = n /\ Bytes(n) # <<>>
<1>1. Bytes(n) \in Seq(Byte) /\ Len(Bytes(n)) = 4
  BY DEF Bytes, Byte
<1> QED
  BY <1>1 DEF Bytes, Number, DWords, Byte

\* The data of an answer.
LEMMA ConstantSeq ==
  ASSUME NEW n \in Nat, NEW x \in Nat
  PROVE  /\ [i \in 1 .. n |-> x] \in Seq(Nat) /\ Len([i \in 1 .. n |-> x]) = n
         /\ n # 0 => [i \in 1 .. n |-> x] # <<>>
OBVIOUS

\* Whatever four bytes are read make a number.
LEMMA NumberNat == ASSUME NEW S \in SUBSET Nat, NEW b \in Seq(S), Len(b) = 4 PROVE Number(b) \in Nat
<1>1. \A i \in 1 .. 4 : b[i] \in Nat
  BY ElementOfSeq
<1> QED
  BY <1>1 DEF Number

\* Reading some of the bytes of a DWORD leaves a DWORD; reading none changes nothing.
LEMMA OverwrittenDWord ==
  ASSUME NEW old \in DWords, NEW new \in Seq(Byte), NEW k \in 0 .. 4, Len(new) = k
  PROVE  /\ Overwritten(old, new) \in DWords
         /\ k = 0 => Overwritten(old, new) = old
         /\ k = 4 => Overwritten(old, new) = new
<1>1. old \in Seq(Byte) /\ Len(old) = 4
  BY DEF DWords
<1>2. k + 1 \in Int /\ 4 \in Int /\ \A i \in k + 1 .. 4 : old[i] \in Byte
  <2>1. \A i \in 1 .. 4 : old[i] \in Byte
    BY <1>1, ElementOfSeq
  <2> QED
    BY <2>1
<1> DEFINE rest == SubSeq(old, k + 1, 4)
<1>3. /\ rest \in Seq(Byte)
      /\ Len(rest) = IF k + 1 <= 4 THEN 4 - (k + 1) + 1 ELSE 0
      /\ \A i \in 1 .. 4 - (k + 1) + 1 : rest[i] = old[k + 1 + i - 1]
  <2> DEFINE m == k + 1
  <2>1. m \in Int /\ 4 \in Int /\ \A i \in m .. 4 : old[i] \in Byte
    BY <1>2
  <2> HIDE DEF m
  <2>2. /\ SubSeq(old, m, 4) \in Seq(Byte)
        /\ Len(SubSeq(old, m, 4)) = IF m <= 4 THEN 4 - m + 1 ELSE 0
        /\ \A i \in 1 .. 4 - m + 1 : SubSeq(old, m, 4)[i] = old[m + i - 1]
    BY <2>1, SubSeqProperties
  <2> QED
    BY <2>2 DEF m
<1>4. Len(rest) = 4 - k
  BY <1>3
<1>5. Overwritten(old, new) = new \o rest
  BY DEF Overwritten
<1> HIDE DEF rest
<1>6. new \o rest \in DWords
  <2>1. rest \in Seq(Byte)
    BY <1>3
  <2>2. new \o rest \in Seq(Byte) /\ Len(new \o rest) = Len(new) + Len(rest)
    BY <2>1, ConcatProperties
  <2>3. Len(new \o rest) = 4
    BY <1>4, <2>2
  <2> QED
    BY <2>2, <2>3 DEF DWords
<1>7. ASSUME k = 0 PROVE new \o rest = old
  <2>1. \A i \in 1 .. 4 : rest[i] = old[i]
    BY <1>3, <1>7
  <2>2. rest = old
    BY <1>1, <1>3, <1>4, <1>7, <2>1, SeqEqual
  <2>3. new = <<>>
    BY <1>7, EmptySeq
  <2> QED
    BY <1>3, <2>2, <2>3, ConcatEmptySeq
<1>8. ASSUME k = 4 PROVE new \o rest = new
  <2>1. rest = <<>>
    BY <1>3, <1>4, <1>8, EmptySeq
  <2> QED
    BY <2>1, ConcatEmptySeq
<1> QED
  BY <1>5, <1>6, <1>7, <1>8

\* A size that was sent with a command is read alone.
LEMMA OneMessage ==
  ASSUME NEW x \in Byte
  PROVE  /\ Bytes(1) \o <<x>> \in Seq(Byte) /\ <<x>> \in Seq(Byte) /\ Len(<<x>>) = 1
         /\ Taken(Bytes(1) \o <<x>>, 4) = Bytes(1) /\ Left(Bytes(1) \o <<x>>, 4) = <<x>>
<1>1. Bytes(1) \in Seq(Byte) /\ Len(Bytes(1)) = 4
  BY DEF Byte, Bytes
<1>2. <<x>> \in Seq(Byte) /\ Len(<<x>>) = 1 /\ <<x>>[1] = x
  OBVIOUS
<1> DEFINE q == Bytes(1) \o <<x>>
<1>3. /\ q \in Seq(Byte) /\ Len(q) = 5
      /\ \A i \in 1 .. 4 + 1 : q[i] = IF i <= 4 THEN Bytes(1)[i] ELSE <<x>>[i - 4]
  <2>1. /\ q \in Seq(Byte) /\ Len(q) = Len(Bytes(1)) + Len(<<x>>)
        /\ \A i \in 1 .. Len(Bytes(1)) + Len(<<x>>) :
             q[i] = IF i <= Len(Bytes(1)) THEN Bytes(1)[i] ELSE <<x>>[i - Len(Bytes(1))]
    BY <1>1, <1>2, ConcatProperties, Zenon
  <2> QED
    BY <1>1, <1>2, <2>1
<1> HIDE DEF q
<1>4. Least(4, Len(q)) = 4
  BY <1>3 DEF Least
<1>5. \A i \in 1 .. 5 : q[i] \in Byte
  BY <1>3, ElementOfSeq
<1>6. /\ SubSeq(q, 1, 4) \in Seq(Byte) /\ Len(SubSeq(q, 1, 4)) = 4
      /\ \A i \in 1 .. 4 - 1 + 1 : SubSeq(q, 1, 4)[i] = q[1 + i - 1]
  BY <1>5, SubSeqProperties
<1>7. /\ SubSeq(q, 5, 5) \in Seq(Byte) /\ Len(SubSeq(q, 5, 5)) = 1
      /\ \A i \in 1 .. 5 - 5 + 1 : SubSeq(q, 5, 5)[i] = q[5 + i - 1]
  BY <1>5, SubSeqProperties
<1>8. SubSeq(q, 1, 4) = Bytes(1)
  BY <1>1, <1>3, <1>6, SeqEqual
<1>9. SubSeq(q, 5, 5) = <<x>>
  <2>1. SubSeq(q, 5, 5)[1] = x
    BY <1>2, <1>3, <1>7
  <2> QED
    <3> DEFINE s == SubSeq(q, 5, 5)
    <3>1. s \in Seq(Byte) /\ Len(s) = Len(<<x>>) /\ \A i \in 1 .. Len(s) : s[i] = <<x>>[i]
      BY <1>2, <1>7, <2>1
    <3> QED
      BY <1>2, <3>1, SeqEqual, Zenon
<1> QED
  BY <1>2, <1>3, <1>4, <1>8, <1>9 DEF Taken, Left, q

-----------------------------------------------------------------------------
(* Types *)

ClientSteps == {"idle", "command", "data", "answer", "answerData"}
ThreadSteps ==
  {"none", "size", "checkSize", "command", "checkCommand", "data", "checkData", "handle",
   "answer", "checkAnswer", "answerData", "checkAnswerData", "end"}
IPC_datas ==
  [m_byCommand : 0 .. 256, m_ar_byDataToSend : {"NULL", "allocated", "freed"},
   m_wDataToWriteSizeInByte : Byte]
Statics ==
  [sizeBytesRead : Nat, dwNumberOfBytesToRead : DWords, commandRead : BOOLEAN,
   dataRead : BOOLEAN, sizeWritten : BOOLEAN, dataBytesWritten : Nat]

ClientTypes ==
  /\ client \in [Clients -> ClientSteps]
  /\ m_bConnected \in [Clients -> BOOLEAN]
  /\ request \in [Clients -> [command : Commands, data : Seq(Byte)]]
  /\ \A c \in Clients : Len(request[c].data) < 255
  /\ m_dwIPCdataSizeInByte \in [Clients -> Nat]
  /\ sent \in [Clients -> Nat] /\ spent \in [Clients -> Nat] /\ onlyCommands \in BOOLEAN
PipeTypes ==
  /\ pipe \in [Clients -> {"none", "open", "left", "cut"}]
  /\ toServer \in [Clients -> Seq(Byte)] /\ toClient \in [Clients -> Seq(Nat)]
ThreadTypes ==
  /\ thread \in [Clients -> ThreadSteps]
  /\ ipc_data \in [Clients -> IPC_datas]
  /\ wanted \in [Clients -> Nat] /\ dwBytesRead \in [Clients -> Nat]
  /\ handled \in [Clients -> Nat]
TypeOK == ClientTypes /\ PipeTypes /\ ThreadTypes /\ static \in Statics

\* Testing the result of a call leaves the number of bytes.
LEMMA TestedType ==
  ASSUME static \in Statics, NEW c \in Clients,
         \/ Tested(c, "sizeBytesRead", 0) \/ Tested(c, "commandRead", FALSE)
         \/ Tested(c, "dataRead", FALSE) \/ Tested(c, "sizeWritten", FALSE)
         \/ Tested(c, "dataBytesWritten", 0)
  PROVE  static' \in Statics /\ static'.dwNumberOfBytesToRead = static.dwNumberOfBytesToRead
<1>1. ASSUME NEW result, NEW nothing, Tested(c, result, nothing)
      PROVE  static' = static \/ static' = [static EXCEPT ![result] = nothing]
  BY <1>1 DEF Tested
<1>2. CASE static' = static
  BY <1>2
<1>3. CASE \/ static' = [static EXCEPT !["sizeBytesRead"] = 0]
           \/ static' = [static EXCEPT !["dataBytesWritten"] = 0]
  BY <1>3 DEF Statics
<1>4. CASE \/ static' = [static EXCEPT !["commandRead"] = FALSE]
           \/ static' = [static EXCEPT !["dataRead"] = FALSE]
  BY <1>4 DEF Statics
<1>5. CASE static' = [static EXCEPT !["sizeWritten"] = FALSE]
  BY <1>5 DEF Statics
<1> QED
  BY <1>1, <1>2, <1>3, <1>4, <1>5

\* What happens to the IPC_data of a thread keeps it one.
LEMMA IPC_dataType ==
  ASSUME NEW d \in IPC_datas
  PROVE  /\ \A b \in 0 .. 256 : [d EXCEPT !.m_byCommand = b] \in IPC_datas
         /\ \A n \in Byte : [d EXCEPT !.m_wDataToWriteSizeInByte = n] \in IPC_datas
         /\ \A n \in Byte :
              [d EXCEPT !.m_ar_byDataToSend = "allocated", !.m_wDataToWriteSizeInByte = n] \in IPC_datas
<1>1. \A b \in 0 .. 256 : [d EXCEPT !.m_byCommand = b] \in IPC_datas
  BY DEF IPC_datas
<1>2. \A n \in Byte : [d EXCEPT !.m_wDataToWriteSizeInByte = n] \in IPC_datas
  BY DEF IPC_datas
<1>3. \A n \in Byte :
        [d EXCEPT !.m_ar_byDataToSend = "allocated", !.m_wDataToWriteSizeInByte = n] \in IPC_datas
  BY DEF IPC_datas
<1> QED
  BY <1>1, <1>2, <1>3

\* The size of an answer is a byte and commands are counted.
LEMMA SizeType ==
  ASSUME TypeOK, NEW c \in Clients
  PROVE  ipc_data[c].m_wDataToWriteSizeInByte \in Byte /\ handled[c] \in Nat
BY DEF TypeOK, ThreadTypes, IPC_datas

\* No statement of a server's thread breaks a type.
LEMMA ThreadStepTypes ==
  ASSUME TypeOK, NEW c \in Clients, ThreadStep(c)
  PROVE  TypeOK'
<1> USE DEF TypeOK
<1>1. CASE ReadNumberOfBytesToRead(c)
  <2> DEFINE size == Taken(toServer[c], 4)
  <2>1. toServer[c] \in Seq(Byte) /\ 4 \in Nat
    BY DEF PipeTypes
  <2>2. /\ size \in Seq(Byte) /\ Len(size) \in 0 .. 4
        /\ Left(toServer[c], 4) \in Seq(Byte) /\ Len(size) \in Nat
    <3>1. Len(toServer[c]) \in Nat
      BY <2>1, LenProperties
    <3>2. Least(4, Len(toServer[c])) \in 0 .. 4
      <4>1. \A n \in Nat : Least(4, n) \in 0 .. 4
        BY DEF Least
      <4> QED
        BY <3>1, <4>1
    <3>3. /\ size \in Seq(Byte) /\ Left(toServer[c], 4) \in Seq(Byte)
          /\ Len(size) = Least(4, Len(toServer[c]))
      BY <2>1, TakenLeft
    <3>4. Len(size) \in 0 .. 4
      BY <3>2, <3>3, Zenon
    <3>5. Len(size) \in Nat
      BY <3>3, LenProperties
    <3> QED
      BY <3>3, <3>4, <3>5
  <2> HIDE DEF size
  <2>3. static.dwNumberOfBytesToRead \in DWords
    BY DEF Statics
  <2>4. Overwritten(static.dwNumberOfBytesToRead, size) \in DWords
    BY <2>2, <2>3, OverwrittenDWord
  <2>5. static' = [static EXCEPT !.sizeBytesRead = Len(size),
             !.dwNumberOfBytesToRead = Overwritten(static.dwNumberOfBytesToRead, size)]
    BY <1>1 DEF ReadNumberOfBytesToRead, size
  <2>6. static' \in Statics
    BY <2>2, <2>4, <2>5 DEF Statics
  <2>7. PipeTypes'
    BY <1>1, <2>2 DEF ReadNumberOfBytesToRead, ServerReads, PipeTypes
  <2>8. ThreadTypes'
    BY <1>1 DEF ReadNumberOfBytesToRead, ServerReads, Goes, ThreadTypes, ThreadSteps
  <2> QED
    BY <1>1, <2>6, <2>7, <2>8 DEF ReadNumberOfBytesToRead, ServerReads, KeepClient, ClientTypes, clientVars
<1>2. CASE HandleNumberOfBytesToRead(c)
  <2>1. static' \in Statics
    BY <1>2, TestedType DEF HandleNumberOfBytesToRead
  <2>2. ThreadTypes'
    BY <1>2 DEF HandleNumberOfBytesToRead, Goes, ThreadTypes, ThreadSteps
  <2> QED
    BY <1>2, <2>1, <2>2 DEF HandleNumberOfBytesToRead, KeepClient, clientVars, pipeVars, ClientTypes, PipeTypes
<1>3. CASE ReadCommand(c)
  <2> DEFINE command == Taken(toServer[c], 1)
  <2>1. toServer[c] \in Seq(Byte) /\ 1 \in Nat
    BY DEF PipeTypes
  <2>2. command \in Seq(Byte) /\ Left(toServer[c], 1) \in Seq(Byte)
    BY <2>1, TakenLeft
  <2> HIDE DEF command
  <2>3. Len(command) \in Nat
    BY <2>2, LenProperties
  <2>4. /\ static' = [static EXCEPT !.commandRead = command # <<>>]
        /\ dwBytesRead' = [dwBytesRead EXCEPT ![c] = Len(command)]
        /\ ipc_data' = IF command = <<>> THEN ipc_data
                       ELSE [ipc_data EXCEPT ![c].m_byCommand = command[1]]
    BY <1>3 DEF ReadCommand, command
  <2>5. static' \in Statics
    BY <2>4 DEF Statics
  <2>6. PipeTypes'
    BY <1>3, <2>2 DEF ReadCommand, ServerReads, PipeTypes
  <2>7. ThreadTypes'
    <3>1. thread' \in [Clients -> ThreadSteps]
      BY <1>3 DEF ReadCommand, Goes, ThreadTypes, ThreadSteps
    <3>2. ipc_data' \in [Clients -> IPC_datas]
      <4>1. ASSUME command # <<>> PROVE command[1] \in 0 .. 256
        <5>1. command[1] \in Byte
          BY <2>2, <4>1, EmptySeq, ElementOfSeq
        <5> QED
          BY <5>1 DEF Byte
      <4> QED
        BY <2>4, <4>1, IPC_dataType DEF ThreadTypes
    <3> QED
      BY <1>3, <2>3, <2>4, <3>1, <3>2 DEF ReadCommand, ServerReads, ThreadTypes
  <2> QED
    BY <1>3, <2>5, <2>6, <2>7 DEF ReadCommand, ServerReads, KeepClient, ClientTypes, clientVars
<1>4. CASE HandleCommand(c)
  <2>1. static' \in Statics
    BY <1>4, TestedType DEF HandleCommand
  <2>2. Number(static.dwNumberOfBytesToRead) \in Nat
    <3>1. static.dwNumberOfBytesToRead \in Seq(Byte) /\ Len(static.dwNumberOfBytesToRead) = 4
      BY DEF Statics, DWords
    <3>2. Byte \in SUBSET Nat
      BY DEF Byte
    <3> QED
      BY <3>1, <3>2, NumberNat
  <2>3. ThreadTypes'
    BY <1>4, <2>2 DEF HandleCommand, Goes, ThreadTypes, ThreadSteps
  <2> QED
    BY <1>4, <2>1, <2>3 DEF HandleCommand, KeepClient, clientVars, pipeVars, ClientTypes, PipeTypes
<1>5. CASE ReadDataBelongingToTheCommand(c)
  <2> DEFINE data == Taken(toServer[c], wanted[c])
  <2>1. toServer[c] \in Seq(Byte) /\ wanted[c] \in Nat
    BY DEF PipeTypes, ThreadTypes
  <2>2. data \in Seq(Byte) /\ Left(toServer[c], wanted[c]) \in Seq(Byte)
    BY <2>1, TakenLeft
  <2> HIDE DEF data
  <2>3. Len(data) \in Nat
    BY <2>2, LenProperties
  <2>4. /\ static' = [static EXCEPT !.dataRead = data # <<>>]
        /\ dwBytesRead' = [dwBytesRead EXCEPT ![c] = Len(data)]
    BY <1>5 DEF ReadDataBelongingToTheCommand, data
  <2>5. static' \in Statics
    BY <2>4 DEF Statics
  <2>6. PipeTypes'
    BY <1>5, <2>2 DEF ReadDataBelongingToTheCommand, ServerReads, PipeTypes
  <2>7. ThreadTypes'
    BY <1>5, <2>3, <2>4 DEF ReadDataBelongingToTheCommand, ServerReads, Goes, ThreadTypes, ThreadSteps
  <2> QED
    BY <1>5, <2>5, <2>6, <2>7 DEF ReadDataBelongingToTheCommand, ServerReads, KeepClient, ClientTypes, clientVars
<1>6. CASE HandleData(c)
  <2>1. static' \in Statics
    BY <1>6, TestedType DEF HandleData
  <2>2. ThreadTypes'
    BY <1>6 DEF HandleData, Goes, ThreadTypes, ThreadSteps
  <2> QED
    BY <1>6, <2>1, <2>2 DEF HandleData, KeepClient, clientVars, pipeVars, ClientTypes, PipeTypes
<1>7. CASE IPC_Message(c)
  <2>1. ThreadTypes'
    <3>1. thread' \in [Clients -> ThreadSteps]
      BY <1>7 DEF IPC_Message, Goes, ThreadTypes, ThreadSteps
    <3>2. handled' \in [Clients -> Nat]
      <4>1. handled' = [handled EXCEPT ![c] = @ + 1]
        BY <1>7 DEF IPC_Message
      <4> QED
        BY <4>1 DEF ThreadTypes
    <3>3. 0 \in Byte /\ AnswerSizes \subseteq Byte
      BY PipeAssumption DEF Byte
    <3>4. \/ ipc_data' = [ipc_data EXCEPT ![c].m_wDataToWriteSizeInByte = 0]
          \/ \E n \in AnswerSizes :
               ipc_data' = [ipc_data EXCEPT ![c] =
                 [@ EXCEPT !.m_ar_byDataToSend = "allocated", !.m_wDataToWriteSizeInByte = n]]
      BY <1>7 DEF IPC_Message
    <3>5. ipc_data' \in [Clients -> IPC_datas]
      <4>1. ipc_data[c] \in IPC_datas
        BY DEF ThreadTypes
      <4>2. [ipc_data[c] EXCEPT !.m_wDataToWriteSizeInByte = 0] \in IPC_datas
        BY <3>3, <4>1, IPC_dataType
      <4>3. \A n \in AnswerSizes :
              [ipc_data[c] EXCEPT !.m_ar_byDataToSend = "allocated",
                                  !.m_wDataToWriteSizeInByte = n] \in IPC_datas
        BY <3>3, <4>1, IPC_dataType
      <4>4. \E d \in IPC_datas : ipc_data' = [ipc_data EXCEPT ![c] = d]
        BY <3>4, <4>2, <4>3
      <4> QED
        BY <4>4 DEF ThreadTypes
    <3> QED
      BY <1>7, <3>1, <3>2, <3>5 DEF IPC_Message, ThreadTypes
  <2> QED
    BY <1>7, <2>1 DEF IPC_Message, KeepClient, clientVars, pipeVars, ClientTypes, PipeTypes
<1>8. CASE WriteSizeInByte(c)
  <2>1. Bytes(ipc_data[c].m_wDataToWriteSizeInByte) \in Seq(Nat)
    BY SizeType DEF Bytes, Byte
  <2>2. PipeTypes'
    BY <1>8, <2>1, ConcatProperties DEF WriteSizeInByte, ServerWrites, PipeTypes
  <2>3. static' \in Statics
    BY <1>8 DEF WriteSizeInByte, Statics
  <2>4. ThreadTypes'
    BY <1>8 DEF WriteSizeInByte, ServerWrites, Goes, ThreadTypes, ThreadSteps
  <2> QED
    BY <1>8, <2>2, <2>3, <2>4 DEF WriteSizeInByte, ServerWrites, KeepClient, clientVars, ClientTypes
<1>9. CASE HandleSizeWritten(c)
  <2>1. static' \in Statics
    BY <1>9, TestedType DEF HandleSizeWritten
  <2>2. ThreadTypes'
    BY <1>9 DEF HandleSizeWritten, Goes, Again, ThreadTypes, ThreadSteps
  <2> QED
    BY <1>9, <2>1, <2>2 DEF HandleSizeWritten, KeepClient, clientVars, pipeVars, ClientTypes, PipeTypes
<1>10. CASE WriteAnswerData(c)
  <2> DEFINE size == ipc_data[c].m_wDataToWriteSizeInByte
             data == [i \in 1 .. size |-> handled[c]]
  <2>1. size \in Nat /\ handled[c] \in Nat
    BY SizeType DEF Byte
  <2>2. data \in Seq(Nat)
    BY <2>1, ConstantSeq
  <2>3. /\ ServerWrites(c, data)
        /\ static' = [static EXCEPT !.dataBytesWritten = IF pipe[c] = "open" THEN size ELSE 0]
    BY <1>10 DEF WriteAnswerData
  <2> HIDE DEF data, size
  <2>4. PipeTypes'
    BY <2>3, <2>2, ConcatProperties DEF ServerWrites, PipeTypes
  <2>5. static' \in Statics
    BY <2>1, <2>3 DEF Statics
  <2>6. ThreadTypes'
    BY <1>10, <2>3 DEF WriteAnswerData, ServerWrites, Goes, ThreadTypes, ThreadSteps
  <2> QED
    BY <2>3, <2>4, <2>5, <2>6 DEF ServerWrites, KeepClient, clientVars, ClientTypes
<1>11. CASE HandleAnswerWritten(c)
  <2>1. static' \in Statics
    BY <1>11, TestedType DEF HandleAnswerWritten
  <2>2. ThreadTypes'
    BY <1>11 DEF HandleAnswerWritten, Goes, Again, ThreadTypes, ThreadSteps, IPC_datas
  <2> QED
    BY <1>11, <2>1, <2>2 DEF HandleAnswerWritten, KeepClient, clientVars, pipeVars, ClientTypes, PipeTypes
<1>12. CASE ThreadEnds(c)
  <2>1. PipeTypes'
    BY <1>12, EmptySeq DEF ThreadEnds, PipeTypes
  <2>2. ThreadTypes'
    BY <1>12 DEF ThreadEnds, Goes, ThreadTypes, ThreadSteps, IPC_datas, NewIPC_data, Unset, Byte
  <2> QED
    BY <1>12, <2>1, <2>2 DEF ThreadEnds, KeepClient, clientVars, ClientTypes
<1> QED
  BY <1>1, <1>2, <1>3, <1>4, <1>5, <1>6, <1>7, <1>8, <1>9, <1>10, <1>11, <1>12 DEF ThreadStep

\* No statement of a client breaks a type.
LEMMA ClientStepTypes ==
  ASSUME TypeOK, NEW c \in Clients,
         Connect(c) \/ ClientLeaves(c) \/ WriteDataSizeInByte(c) \/ SendStep(c)
  PROVE  TypeOK'
<1> USE DEF TypeOK
\* What Write(...) does to the client and the pipe.
<1>0. ASSUME NEW bytes \in Seq(Byte), NEW next \in ClientSteps,
             NEW m \in [command : Commands, data : Seq(Byte)], Len(m.data) < 255,
             ClientWrites(c, bytes, next, m)
      PROVE  /\ PipeTypes' /\ ThreadTypes' /\ static' \in Statics
             /\ client' \in [Clients -> ClientSteps] /\ m_bConnected' \in [Clients -> BOOLEAN]
             /\ request' \in [Clients -> [command : Commands, data : Seq(Byte)]]
             /\ \A d \in Clients : Len(request'[d].data) < 255
             /\ m_dwIPCdataSizeInByte' \in [Clients -> Nat]
  <2>1. NoMessage \in [command : Commands, data : Seq(Byte)] /\ Len(NoMessage.data) < 255
    BY EmptySeq DEF NoMessage, Commands
  <2>2. PipeTypes'
    <3>1. toServer[c] \o bytes \in Seq(Byte)
      BY <1>0, ConcatProperties DEF PipeTypes
    <3> QED
      BY <1>0, <3>1 DEF ClientWrites, PipeTypes
  <2>3. ThreadTypes' /\ static' \in Statics
    BY <1>0 DEF ClientWrites, ThreadTypes, threadVars
  <2>4. \E d \in {m, NoMessage} : request' = [request EXCEPT ![c] = d]
    BY <1>0 DEF ClientWrites, ClientGoes
  <2>5. /\ request' \in [Clients -> [command : Commands, data : Seq(Byte)]]
        /\ \A d \in Clients : Len(request'[d].data) < 255
    BY <1>0, <2>1, <2>4 DEF ClientTypes
  <2>6. /\ client' \in [Clients -> ClientSteps] /\ m_bConnected' \in [Clients -> BOOLEAN]
        /\ m_dwIPCdataSizeInByte' \in [Clients -> Nat]
    BY <1>0 DEF ClientWrites, ClientGoes, ClientTypes, ClientSteps
  <2> QED
    BY <2>2, <2>3, <2>5, <2>6
<1>a. request[c] \in [command : Commands, data : Seq(Byte)] /\ Len(request[c].data) < 255
  BY DEF ClientTypes
<1>1. CASE Connect(c)
  <2>1. PipeTypes'
    BY <1>1, EmptySeq DEF Connect, PipeTypes
  <2>2. ThreadTypes'
    BY <1>1 DEF Connect, ThreadTypes, ThreadSteps, IPC_datas, NewIPC_data, Unset, Byte
  <2> QED
    BY <1>1, <2>1, <2>2 DEF Connect, ClientTypes
<1>2. CASE ClientLeaves(c)
  <2>1. PipeTypes'
    BY <1>2, EmptySeq DEF ClientLeaves, PipeTypes
  <2>2. ClientTypes'
    BY <1>2, EmptySeq DEF ClientLeaves, ClientTypes, ClientSteps, NoMessage, Commands
  <2> QED
    BY <1>2, <2>1, <2>2 DEF ClientLeaves, ThreadTypes, threadVars
<1>3. CASE WriteDataSizeInByte(c)
  <2>1. PICK m \in Messages[c] :
          /\ onlyCommands' = (onlyCommands /\ m.data = <<>>)
          /\ ClientWrites(c, Bytes(1 + Len(m.data)), "command", m)
    BY <1>3 DEF WriteDataSizeInByte
  <2>2. m \in [command : Commands, data : Seq(Byte)] /\ Len(m.data) < 255
    BY PipeAssumption DEF Byte
  <2>3. Bytes(1 + Len(m.data)) \in Seq(Byte)
    <3>1. \A n \in Nat : n < 255 => Bytes(1 + n) \in Seq(Byte)
      BY DEF Bytes, Byte
    <3>2. Len(m.data) \in Nat
      BY <2>2, LenProperties
    <3> QED
      BY <2>2, <3>1, <3>2
  <2>4. onlyCommands' \in BOOLEAN /\ sent' \in [Clients -> Nat] /\ spent' \in [Clients -> Nat]
    BY <1>3, <2>1 DEF WriteDataSizeInByte, ClientTypes
  <2> QED
    BY <1>0, <2>1, <2>2, <2>3, <2>4 DEF ClientSteps, ClientTypes
<1>4. CASE WriteCommand(c)
  <2>1. <<request[c].command>> \in Seq(Byte)
    BY <1>a DEF Commands, start_DVFS, stop_service, get_current_CPU_data,
                setMaximumCPUcoreMultplier, Byte
  <2>2. \E next \in ClientSteps : ClientWrites(c, <<request[c].command>>, next, request[c])
    BY <1>4 DEF WriteCommand, ClientSteps
  <2> QED
    BY <1>0, <1>4, <1>a, <2>1, <2>2 DEF WriteCommand, KeepMessage, ClientTypes
<1>5. CASE WriteDataBelongingToCommand(c)
  <2>1. PICK g \in Garbage : ClientWrites(c, Append(request[c].data, g), "answer", request[c])
    BY <1>5 DEF WriteDataBelongingToCommand
  <2>2. Append(request[c].data, g) \in Seq(Byte)
    BY <1>a, PipeAssumption, AppendProperties DEF Byte
  <2> QED
    BY <1>0, <1>5, <1>a, <2>1, <2>2 DEF WriteDataBelongingToCommand, KeepMessage, ClientTypes, ClientSteps
<1>6. ASSUME NEW n \in Nat, NEW next \in ClientSteps, NEW m \in {request[c], NoMessage},
             NEW size \in Nat, ClientReads(c, n), ClientGoes(c, next, m, size)
      PROVE  TypeOK'
  <2>1. toClient[c] \in Seq(Nat)
    BY DEF PipeTypes
  <2>2. Left(toClient[c], n) \in Seq(Nat)
    BY <2>1, TakenLeft
  <2>3. PipeTypes'
    BY <1>6, <2>2 DEF ClientReads, PipeTypes
  <2>4. NoMessage \in [command : Commands, data : Seq(Byte)] /\ Len(NoMessage.data) < 255
    BY EmptySeq DEF NoMessage, Commands
  <2>5. \E d \in {request[c], NoMessage} : request' = [request EXCEPT ![c] = d]
    BY <1>6 DEF ClientGoes
  <2>6. /\ request' \in [Clients -> [command : Commands, data : Seq(Byte)]]
        /\ \A d \in Clients : Len(request'[d].data) < 255
    BY <1>a, <2>4, <2>5 DEF ClientTypes
  <2>7. ClientTypes'
    BY <1>6, <2>6 DEF ClientReads, ClientGoes, KeepMessage, ClientTypes, ClientSteps
  <2> QED
    BY <1>6, <2>3, <2>7 DEF ClientReads, ThreadTypes, threadVars
<1>7. CASE ReadAnswerSize(c)
  <2> DEFINE size == Taken(toClient[c], 4)
  <2>1. toClient[c] \in Seq(Nat) /\ 4 \in Nat
    BY DEF PipeTypes
  <2>2. Len(size) = 4 => Number(size) \in Nat
    BY <2>1, TakenLeft, NumberNat
  <2>3. \E next \in ClientSteps, n \in Nat : ClientGoes(c, next, request[c], n)
    BY <1>7, <2>2 DEF ReadAnswerSize, ClientSteps
  <2> QED
    BY <1>6, <1>7, <2>1, <2>3 DEF ReadAnswerSize
<1>8. CASE ReadAnswerData(c)
  <2>1. m_dwIPCdataSizeInByte[c] \in Nat
    BY DEF ClientTypes
  <2> QED
    BY <1>6, <1>8, <2>1 DEF ReadAnswerData, ClientSteps
<1> QED
  BY <1>1, <1>2, <1>3, <1>4, <1>5, <1>7, <1>8 DEF SendStep

\* The type of every variable, and that the numbers of the protocol stay bytes.
THEOREM TypeCorrect == Spec => []TypeOK
<1>1. Init => TypeOK
  <2> SUFFICES ASSUME Init PROVE TypeOK
    OBVIOUS
  <2>1. ClientTypes
    BY EmptySeq DEF Init, ClientTypes, ClientSteps, NoMessage, Commands
  <2>2. PipeTypes
    BY EmptySeq DEF Init, PipeTypes
  <2>3. ThreadTypes
    BY DEF Init, ThreadTypes, ThreadSteps, IPC_datas, NewIPC_data, Unset, Byte
  <2>4. Bytes(0) \in DWords
    BY BytesNumber DEF Byte
  <2>5. static \in Statics
    BY <2>4 DEF Init, NewStatic, Statics
  <2> QED
    BY <2>1, <2>2, <2>3, <2>5 DEF TypeOK
<1>2. TypeOK /\ [Next]_vars => TypeOK'
  <2> SUFFICES ASSUME TypeOK, [Next]_vars PROVE TypeOK'
    OBVIOUS
  <2>1. CASE CreateDownPrivilegedPipe
    BY <2>1 DEF CreateDownPrivilegedPipe, TypeOK, ClientTypes, PipeTypes, ThreadTypes,
       clientVars, pipeVars, threadVars
  <2>2. CASE ServiceRestarts
    <3>1. PipeTypes'
      BY <2>2, EmptySeq DEF ServiceRestarts, TypeOK, PipeTypes
    <3>2. ThreadTypes'
      BY <2>2 DEF ServiceRestarts, ThreadTypes, ThreadSteps, IPC_datas, NewIPC_data, Unset, Byte
    <3>3. Bytes(0) \in DWords
      BY BytesNumber DEF Byte
    <3>4. static' \in Statics
      BY <2>2, <3>3 DEF ServiceRestarts, NewStatic, Statics
    <3> QED
      BY <2>2, <3>1, <3>2, <3>4 DEF ServiceRestarts, clientVars, TypeOK, ClientTypes
  <2>3. CASE UNCHANGED vars
    BY <2>3 DEF vars, TypeOK, ClientTypes, PipeTypes, ThreadTypes, clientVars, pipeVars, threadVars
  <2> QED
    BY <2>1, <2>2, <2>3, ClientStepTypes, ThreadStepTypes DEF Next
<1> QED
  BY <1>1, <1>2, PTL DEF Spec

-----------------------------------------------------------------------------
(* A step of a connection's client or thread leaves the other connections  *)
(* alone, the static variables apart.                                      *)

Connection(d) ==
  <<client[d], request[d], m_dwIPCdataSizeInByte[d], sent[d],
    pipe[d], toServer[d], toClient[d], thread[d], ipc_data[d], handled[d]>>

\* A statement of the thread of c changes nothing of the connection d.
LEMMA ThreadStepFrame ==
  ASSUME TypeOK, NEW c \in Clients, NEW d \in Clients, c # d, ThreadStep(c)
  PROVE  UNCHANGED Connection(d)
<1>a. toServer \in [Clients -> Seq(Byte)] /\ toClient \in [Clients -> Seq(Nat)]
      /\ pipe \in [Clients -> {"none", "open", "left", "cut"}]
  BY DEF TypeOK, PipeTypes
<1>b. thread \in [Clients -> ThreadSteps] /\ ipc_data \in [Clients -> IPC_datas]
      /\ handled \in [Clients -> Nat]
  BY DEF TypeOK, ThreadTypes
<1>1. thread'[d] = thread[d]
  BY <1>b DEF ThreadStep, Goes, ReadNumberOfBytesToRead, HandleNumberOfBytesToRead, ReadCommand,
     HandleCommand, ReadDataBelongingToTheCommand, HandleData, IPC_Message, WriteSizeInByte,
     HandleSizeWritten, WriteAnswerData, HandleAnswerWritten, ThreadEnds
<1>2. KeepClient
  BY DEF ThreadStep, ReadNumberOfBytesToRead, HandleNumberOfBytesToRead, ReadCommand,
     HandleCommand, ReadDataBelongingToTheCommand, HandleData, IPC_Message, WriteSizeInByte,
     HandleSizeWritten, WriteAnswerData, HandleAnswerWritten, ThreadEnds, ServerReads, ServerWrites
<1>3. CASE ReadNumberOfBytesToRead(c) \/ ReadDataBelongingToTheCommand(c)
  BY <1>1, <1>2, <1>3, <1>a DEF ReadNumberOfBytesToRead, ReadDataBelongingToTheCommand, ServerReads,
     KeepClient, clientVars, Connection
<1>4. CASE ReadCommand(c)
  BY <1>1, <1>2, <1>4, <1>a, <1>b DEF ReadCommand, ServerReads, KeepClient, clientVars, Connection
<1>5. CASE HandleNumberOfBytesToRead(c) \/ HandleCommand(c) \/ HandleData(c) \/ HandleSizeWritten(c)
  BY <1>1, <1>2, <1>5 DEF HandleNumberOfBytesToRead, HandleCommand, HandleData, HandleSizeWritten,
     KeepClient, clientVars, pipeVars, Connection
<1>6. CASE IPC_Message(c)
  BY <1>1, <1>2, <1>6, <1>b DEF IPC_Message, KeepClient, clientVars, pipeVars, Connection
<1>7. CASE WriteSizeInByte(c) \/ WriteAnswerData(c)
  <2>1. \E bytes : ServerWrites(c, bytes)
    BY <1>7 DEF WriteSizeInByte, WriteAnswerData
  <2> QED
    BY <1>1, <1>2, <2>1, <1>a DEF ServerWrites, KeepClient, clientVars, Connection
<1>8. CASE HandleAnswerWritten(c)
  BY <1>1, <1>2, <1>8, <1>b DEF HandleAnswerWritten, KeepClient, clientVars, pipeVars, Connection
<1>9. CASE ThreadEnds(c)
  BY <1>1, <1>2, <1>9, <1>a, <1>b DEF ThreadEnds, KeepClient, clientVars, Connection
<1> QED
  BY <1>3, <1>4, <1>5, <1>6, <1>7, <1>8, <1>9 DEF ThreadStep

\* A statement of the client c changes nothing of the connection d.
LEMMA ClientStepFrame ==
  ASSUME TypeOK, NEW c \in Clients, NEW d \in Clients, c # d,
         Connect(c) \/ ClientLeaves(c) \/ WriteDataSizeInByte(c) \/ SendStep(c)
  PROVE  UNCHANGED Connection(d)
<1>a. toServer \in [Clients -> Seq(Byte)] /\ toClient \in [Clients -> Seq(Nat)]
      /\ pipe \in [Clients -> {"none", "open", "left", "cut"}]
  BY DEF TypeOK, PipeTypes
<1>b. thread \in [Clients -> ThreadSteps] /\ ipc_data \in [Clients -> IPC_datas]
      /\ handled \in [Clients -> Nat]
  BY DEF TypeOK, ThreadTypes
<1>c. /\ client \in [Clients -> ClientSteps]
      /\ request \in [Clients -> [command : Commands, data : Seq(Byte)]]
      /\ m_dwIPCdataSizeInByte \in [Clients -> Nat] /\ sent \in [Clients -> Nat]
  BY DEF TypeOK, ClientTypes
<1>1. ASSUME NEW next, NEW m, NEW size, ClientGoes(c, next, m, size)
      PROVE  UNCHANGED <<client[d], request[d], m_dwIPCdataSizeInByte[d]>>
  BY <1>1, <1>c DEF ClientGoes
<1>2. ASSUME NEW bytes, NEW next, NEW m, ClientWrites(c, bytes, next, m), sent'[d] = sent[d]
      PROVE  UNCHANGED Connection(d)
  <2>1. UNCHANGED <<client[d], request[d], m_dwIPCdataSizeInByte[d]>>
    BY <1>1, <1>2 DEF ClientWrites
  <2>2. toServer'[d] = toServer[d]
    BY <1>2, <1>a DEF ClientWrites
  <2> QED
    BY <1>2, <2>1, <2>2 DEF ClientWrites, threadVars, Connection
<1>3. CASE Connect(c)
  BY <1>3, <1>a, <1>b, <1>c DEF Connect, Connection
<1>4. CASE ClientLeaves(c)
  BY <1>4, <1>a, <1>b, <1>c DEF ClientLeaves, Connection, threadVars
<1>5. CASE WriteDataSizeInByte(c)
  <2>1. sent'[d] = sent[d]
    BY <1>5, <1>c DEF WriteDataSizeInByte
  <2> QED
    BY <1>2, <1>5, <2>1 DEF WriteDataSizeInByte
<1>6. CASE WriteCommand(c) \/ WriteDataBelongingToCommand(c)
  <2>1. sent' = sent
    BY <1>6 DEF WriteCommand, WriteDataBelongingToCommand, KeepMessage
  <2> QED
    BY <1>2, <1>6, <2>1 DEF WriteCommand, WriteDataBelongingToCommand
<1>7. CASE ReadAnswerSize(c) \/ ReadAnswerData(c)
  <2>1. /\ \E n : ClientReads(c, n)
        /\ \E next, m, size : ClientGoes(c, next, m, size)
    BY <1>7 DEF ReadAnswerSize, ReadAnswerData
  <2>2. UNCHANGED <<client[d], request[d], m_dwIPCdataSizeInByte[d]>>
    BY <1>1, <2>1
  <2>3. toClient'[d] = toClient[d]
    BY <2>1, <1>a DEF ClientReads
  <2> QED
    BY <2>1, <2>2, <2>3 DEF ClientReads, KeepMessage, threadVars, Connection
<1> QED
  BY <1>3, <1>4, <1>5, <1>6, <1>7 DEF SendStep

-----------------------------------------------------------------------------
(* What is sent is there                                                   *)

\* An answer whose size is not 0 has data, until they are sent and freed: every
\* command sets the size.
AnswerInv ==
  \A c \in Clients :
    /\ thread[c] \in {"answer", "checkAnswer"} /\ ipc_data[c].m_wDataToWriteSizeInByte # 0 =>
         ipc_data[c].m_ar_byDataToSend = "allocated"
    /\ thread[c] \in {"answerData", "checkAnswerData"} => ipc_data[c].m_ar_byDataToSend = "allocated"

\* AnswerInv is inductive: only IPC_Message makes an answer, and it sets the size with the data.
LEMMA AnswerStep == TypeOK /\ AnswerInv /\ [Next]_vars => AnswerInv'
<1> SUFFICES ASSUME TypeOK, AnswerInv, [Next]_vars, NEW d \in Clients
    PROVE /\ thread'[d] \in {"answer", "checkAnswer"} /\ ipc_data'[d].m_wDataToWriteSizeInByte # 0 =>
               ipc_data'[d].m_ar_byDataToSend = "allocated"
          /\ thread'[d] \in {"answerData", "checkAnswerData"} =>
               ipc_data'[d].m_ar_byDataToSend = "allocated"
  BY DEF AnswerInv
<1>a. thread \in [Clients -> ThreadSteps] /\ ipc_data \in [Clients -> IPC_datas]
  BY DEF TypeOK, ThreadTypes
<1>1. CASE UNCHANGED <<thread, ipc_data>>
  BY <1>1 DEF AnswerInv
<1>2. CASE ServiceRestarts
  BY <1>2 DEF ServiceRestarts
<1>3. ASSUME NEW c \in Clients, Connect(c) PROVE thread'[d] = "size" \/ UNCHANGED <<thread[d], ipc_data[d]>>
  BY <1>a, <1>3 DEF Connect
<1>4. ASSUME NEW c \in Clients,
             ClientLeaves(c) \/ WriteDataSizeInByte(c) \/ SendStep(c)
      PROVE  UNCHANGED <<thread, ipc_data>>
  BY <1>4 DEF ClientLeaves, WriteDataSizeInByte, SendStep, WriteCommand,
     WriteDataBelongingToCommand, ReadAnswerSize, ReadAnswerData, ClientWrites, ClientReads, threadVars
<1>5. ASSUME NEW c \in Clients, ThreadStep(c), c # d PROVE UNCHANGED <<thread[d], ipc_data[d]>>
  BY <1>5, ThreadStepFrame DEF Connection
<1>6. ASSUME ThreadStep(d)
      PROVE  /\ thread'[d] \in {"answer", "checkAnswer"} /\ ipc_data'[d].m_wDataToWriteSizeInByte # 0 =>
                  ipc_data'[d].m_ar_byDataToSend = "allocated"
             /\ thread'[d] \in {"answerData", "checkAnswerData"} =>
                  ipc_data'[d].m_ar_byDataToSend = "allocated"
  <2>1. CASE IPC_Message(d)
    <3>1. \/ ipc_data' = [ipc_data EXCEPT ![d].m_wDataToWriteSizeInByte = 0]
          \/ \E n \in AnswerSizes :
               ipc_data' = [ipc_data EXCEPT ![d] =
                 [@ EXCEPT !.m_ar_byDataToSend = "allocated", !.m_wDataToWriteSizeInByte = n]]
      BY <2>1 DEF IPC_Message
    <3>2. ipc_data'[d].m_wDataToWriteSizeInByte # 0 => ipc_data'[d].m_ar_byDataToSend = "allocated"
      <4>1. CASE ipc_data' = [ipc_data EXCEPT ![d].m_wDataToWriteSizeInByte = 0]
        BY <1>a, <4>1 DEF IPC_datas
      <4>2. CASE \E n \in AnswerSizes :
                   ipc_data' = [ipc_data EXCEPT ![d] =
                     [@ EXCEPT !.m_ar_byDataToSend = "allocated", !.m_wDataToWriteSizeInByte = n]]
        BY <1>a, <4>2 DEF IPC_datas
      <4> QED
        BY <3>1, <4>1, <4>2
    <3>3. thread'[d] = "answer"
      BY <1>a, <2>1 DEF IPC_Message, Goes
    <3> QED
      BY <3>2, <3>3
  <2>2. CASE WriteSizeInByte(d)
    BY <1>a, <2>2 DEF WriteSizeInByte, ServerWrites, Goes, AnswerInv
  <2>3. CASE HandleSizeWritten(d)
    <3>1. ipc_data' = ipc_data /\ thread[d] = "checkAnswer"
      BY <2>3 DEF HandleSizeWritten
    <3>2. \/ thread'[d] \in {"size", "end"}
          \/ thread'[d] = "answerData" /\ ipc_data[d].m_wDataToWriteSizeInByte # 0
      BY <1>a, <2>3 DEF HandleSizeWritten, Goes, Again
    <3> QED
      BY <3>1, <3>2 DEF AnswerInv
  <2>4. CASE WriteAnswerData(d)
    BY <1>a, <2>4 DEF WriteAnswerData, ServerWrites, Goes, AnswerInv
  <2>5. CASE \/ ReadNumberOfBytesToRead(d) \/ HandleNumberOfBytesToRead(d) \/ ReadCommand(d)
             \/ HandleCommand(d) \/ ReadDataBelongingToTheCommand(d) \/ HandleData(d)
             \/ HandleAnswerWritten(d) \/ ThreadEnds(d)
    <3>1. thread'[d] \notin {"answer", "checkAnswer", "answerData", "checkAnswerData"}
      BY <1>a, <2>5 DEF ReadNumberOfBytesToRead, HandleNumberOfBytesToRead, ReadCommand, HandleCommand,
         ReadDataBelongingToTheCommand, HandleData, HandleAnswerWritten, ThreadEnds, Goes, Again
    <3> QED
      BY <3>1
  <2> QED
    BY <1>6, <2>1, <2>2, <2>3, <2>4, <2>5 DEF ThreadStep
<1>7. CASE CreateDownPrivilegedPipe \/ UNCHANGED vars
  BY <1>1, <1>7 DEF CreateDownPrivilegedPipe, vars, threadVars
<1>8. CASE UNCHANGED <<thread[d], ipc_data[d]>>
  BY <1>8 DEF AnswerInv
<1> QED
  BY <1>1, <1>2, <1>3, <1>4, <1>5, <1>6, <1>7, <1>8 DEF Next

\* However many clients there are and whatever their threads do to the static
\* variables, no thread sends, or frees, an array of data that is not there.
THEOREM DataAllocated == Spec => []NeverSendsFreed
<1>1. Init => AnswerInv
  BY DEF Init, AnswerInv
<1>2. AnswerInv => NeverSendsFreed
  BY DEF AnswerInv, NeverSendsFreed
<1> QED
  BY <1>1, <1>2, AnswerStep, TypeCorrect, PTL DEF Spec

-----------------------------------------------------------------------------
(* A client and its thread are in step                                      *)

Size(c) == ipc_data[c].m_wDataToWriteSizeInByte

\* While no client has sent data, a thread finds in its pipe what it is about to read:
\* a size, with or without the command, or nothing yet.
Aligned(c) ==
  /\ thread[c] \in {"size", "answer", "checkAnswer", "answerData", "checkAnswerData"} =>
       \/ toServer[c] = <<>> \/ toServer[c] = Bytes(1)
       \/ \E b \in Byte : toServer[c] = Bytes(1) \o <<b>>
  /\ thread[c] \in {"checkSize", "command"} =>
       toServer[c] = <<>> \/ \E b \in Byte : toServer[c] = <<b>>
  /\ thread[c] \in {"checkCommand", "handle"} => toServer[c] = <<>>
  /\ thread[c] \notin {"data", "checkData"}

\* The client has its last answer, its thread may still be at the end of it, or has ended.
Resting(c) ==
  /\ client[c] = "idle" /\ handled[c] = sent[c]
  /\ toServer[c] = <<>> /\ toClient[c] = <<>>
  /\ thread[c] \in {"size", "checkAnswer", "checkAnswerData", "end"}
  /\ thread[c] = "checkAnswer" => Size(c) = 0

\* The client sends the size and the command, and the thread reads them.
Asking(c) ==
  /\ client[c] \in {"command", "answer"} /\ sent[c] = handled[c] + 1 /\ toClient[c] = <<>>
  /\ \/ /\ thread[c] \in {"size", "checkAnswer", "checkAnswerData"}
        /\ thread[c] = "checkAnswer" => Size(c) = 0
        /\ client[c] = "command" => toServer[c] = Bytes(1)
        /\ client[c] = "answer" => toServer[c] = Bytes(1) \o <<request[c].command>>
     \/ /\ thread[c] \in {"checkSize", "command"}
        /\ client[c] = "command" => toServer[c] = <<>>
        /\ client[c] = "answer" => toServer[c] = <<request[c].command>>
     \/ /\ thread[c] \in {"checkCommand", "handle"} /\ client[c] = "answer" /\ toServer[c] = <<>>
        /\ ipc_data[c].m_byCommand = request[c].command
     \/ thread[c] = "end"

\* The thread writes the answer's size and data, and the client reads them.
Answering(c) ==
  /\ sent[c] = handled[c] /\ toServer[c] = <<>> /\ ipc_data[c].m_byCommand = request[c].command
  /\ \/ client[c] = "answer" /\ thread[c] = "answer" /\ toClient[c] = <<>>
     \/ client[c] = "answer" /\ thread[c] = "checkAnswer" /\ toClient[c] = Bytes(Size(c))
     \/ /\ client[c] = "answerData" /\ Size(c) # 0 /\ m_dwIPCdataSizeInByte[c] = Size(c)
        /\ \/ thread[c] \in {"checkAnswer", "answerData", "end"} /\ toClient[c] = <<>>
           \/ thread[c] = "checkAnswerData" /\ toClient[c] = [i \in 1 .. Size(c) |-> handled[c]]

InOrder(c) ==
  /\ request[c].data = <<>>
  /\ Aligned(c)
  /\ pipe[c] = "open" => Resting(c) \/ Asking(c) \/ Answering(c)

\* The number of bytes that every thread reads and overwrites is then always that of a
\* message without data, or 0 before the first: which thread's it is makes no difference.
StepInv ==
  onlyCommands =>
    /\ static.dwNumberOfBytesToRead = Bytes(0) \/ static.dwNumberOfBytesToRead = Bytes(1)
    /\ \A c \in Clients : InOrder(c)

\* InOrder(d) depends on nothing but the connection d.
LEMMA FrameInOrder ==
  ASSUME NEW d \in Clients, InOrder(d), UNCHANGED Connection(d)
  PROVE  InOrder(d)'
BY DEF Connection, InOrder, Aligned, Resting, Asking, Answering, Size

\* A client that sends no data keeps its connection in order.
LEMMA ClientStepInOrder ==
  ASSUME TypeOK, NEW c \in Clients, InOrder(c), onlyCommands',
         Connect(c) \/ ClientLeaves(c) \/ WriteDataSizeInByte(c) \/ SendStep(c)
  PROVE  InOrder(c)'
<1>a. toServer \in [Clients -> Seq(Byte)] /\ toClient \in [Clients -> Seq(Nat)]
      /\ pipe \in [Clients -> {"none", "open", "left", "cut"}]
  BY DEF TypeOK, PipeTypes
<1>b. thread \in [Clients -> ThreadSteps] /\ ipc_data \in [Clients -> IPC_datas]
      /\ handled \in [Clients -> Nat]
  BY DEF TypeOK, ThreadTypes
<1>c. /\ client \in [Clients -> ClientSteps]
      /\ request \in [Clients -> [command : Commands, data : Seq(Byte)]]
      /\ m_dwIPCdataSizeInByte \in [Clients -> Nat] /\ sent \in [Clients -> Nat]
  BY DEF TypeOK, ClientTypes
<1>d. /\ request[c].command \in Byte /\ request[c].data = <<>> /\ NoMessage.data = <<>>
      /\ Size(c) \in Byte
  BY <1>c, SizeType DEF InOrder, Commands, start_DVFS, stop_service, get_current_CPU_data,
     setMaximumCPUcoreMultplier, Byte, NoMessage, Size
<1>e. Bytes(1) # <<>> /\ Bytes(1) \in Seq(Byte) /\ 1 \in Byte
  BY BytesNumber DEF Byte, DWords
<1>1. CASE Connect(c)
  <2>1. /\ thread'[c] = "size" /\ toServer'[c] = <<>> /\ toClient'[c] = <<>>
        /\ client'[c] = "idle" /\ sent'[c] = 0 /\ handled'[c] = 0 /\ request' = request
    BY <1>1, <1>a, <1>b, <1>c DEF Connect
  <2> QED
    BY <2>1, <1>d DEF InOrder, Aligned, Resting
<1>2. CASE ClientLeaves(c)
  <2>1. /\ pipe'[c] = "left" /\ UNCHANGED <<thread, toServer>> /\ request'[c] = NoMessage
    BY <1>2, <1>a, <1>c DEF ClientLeaves, threadVars
  <2> QED
    BY <2>1, <1>d DEF InOrder, Aligned
\* What Write(...) does: it fails when the pipe is not open.
<1>3. ASSUME NEW bytes, NEW next, NEW m, m.data = <<>>, ClientWrites(c, bytes, next, m)
      PROVE  /\ request'[c].data = <<>>
             /\ pipe[c] # "open" => InOrder(c)'
             /\ pipe[c] = "open" => /\ client'[c] = next
                                    /\ next # "idle" => request'[c] = m
                                    /\ toServer'[c] = toServer[c] \o bytes
             /\ UNCHANGED <<pipe, toClient, thread, ipc_data, handled>>
  <2>1. UNCHANGED <<pipe, toClient, thread, ipc_data, handled>>
    BY <1>3 DEF ClientWrites, threadVars
  <2>2. request'[c].data = <<>>
    BY <1>3, <1>c, <1>d DEF ClientWrites, ClientGoes
  <2>3. ASSUME pipe[c] # "open" PROVE InOrder(c)'
    <3>1. toServer' = toServer
      BY <1>3, <2>3 DEF ClientWrites
    <3> QED
      BY <2>1, <2>2, <2>3, <3>1 DEF InOrder, Aligned
  <2>4. ASSUME pipe[c] = "open"
        PROVE  /\ client'[c] = next /\ (next # "idle" => request'[c] = m)
               /\ toServer'[c] = toServer[c] \o bytes
    BY <1>3, <2>4, <1>a, <1>c DEF ClientWrites, ClientGoes
  <2> QED
    BY <2>1, <2>2, <2>3, <2>4
<1>4. CASE WriteDataSizeInByte(c)
  <2>1. PICK m \in Messages[c] :
          m.data = <<>> /\ ClientWrites(c, Bytes(1 + Len(m.data)), "command", m)
    BY <1>4 DEF WriteDataSizeInByte
  <2>2. Len(m.data) = 0 /\ 1 + 0 = 1
    BY <2>1, EmptySeq
  <2>3. ClientWrites(c, Bytes(1), "command", m)
    BY <2>1, <2>2
  <2>4. ASSUME pipe[c] = "open" PROVE InOrder(c)'
    <3>1. Resting(c)
      BY <1>4, <2>4 DEF WriteDataSizeInByte, InOrder, Asking, Answering
    <3>2. toServer'[c] = Bytes(1)
      BY <1>3, <1>e, <2>1, <2>3, <2>4, <3>1, ConcatEmptySeq DEF Resting
    <3>3. sent'[c] = handled[c] + 1
      BY <1>4, <1>c, <3>1 DEF WriteDataSizeInByte, Resting
    <3>4. /\ client'[c] = "command" /\ request'[c].data = <<>>
          /\ UNCHANGED <<pipe, toClient, thread, ipc_data, handled>>
      BY <1>3, <2>1, <2>3, <2>4
    <3>5. Asking(c)'
      BY <3>1, <3>2, <3>3, <3>4 DEF Resting, Asking, Size
    <3>6. Aligned(c)'
      BY <3>1, <3>2, <3>4 DEF Resting, Aligned
    <3> QED
      BY <3>4, <3>5, <3>6 DEF InOrder
  <2> QED
    BY <1>3, <2>1, <2>3, <2>4
<1>5. CASE WriteCommand(c)
  <2> DEFINE command == <<request[c].command>>
  <2>1. ClientWrites(c, command, "answer", request[c]) /\ client[c] = "command" /\ sent' = sent
    BY <1>5, <1>d DEF WriteCommand, KeepMessage
  <2>2. command \in Seq(Byte)
    BY <1>d
  <2> HIDE DEF command
  <2>3. ASSUME pipe[c] = "open" PROVE InOrder(c)'
    <3>1. Asking(c)
      BY <2>1, <2>3 DEF InOrder, Resting, Answering
    <3>2. /\ toServer'[c] = toServer[c] \o command
          /\ client'[c] = "answer" /\ request'[c] = request[c] /\ request'[c].data = <<>>
          /\ UNCHANGED <<pipe, toClient, thread, ipc_data, handled>>
      BY <1>3, <1>d, <2>1, <2>3
    <3>3. toServer[c] = <<>> => toServer'[c] = command
      BY <2>2, <3>2, ConcatEmptySeq
    <3>4. CASE thread[c] \in {"size", "checkAnswer", "checkAnswerData"}
      <4>1. toServer'[c] = Bytes(1) \o command
        BY <2>1, <3>1, <3>2, <3>4 DEF Asking
      <4>2. Asking(c)'
        BY <2>1, <3>1, <3>2, <3>4, <4>1 DEF Asking, Size, command
      <4>3. Aligned(c)'
        BY <1>d, <3>2, <3>4, <4>1 DEF Aligned, command
      <4> QED
        BY <3>2, <4>2, <4>3 DEF InOrder
    <3>5. CASE thread[c] \in {"checkSize", "command"}
      <4>1. toServer'[c] = command
        BY <2>1, <3>1, <3>3, <3>5 DEF Asking
      <4>2. Asking(c)'
        BY <2>1, <3>1, <3>2, <3>5, <4>1 DEF Asking, Size, command
      <4>3. Aligned(c)'
        BY <1>d, <3>2, <3>5, <4>1 DEF Aligned, command
      <4> QED
        BY <3>2, <4>2, <4>3 DEF InOrder
    <3>6. CASE thread[c] = "end"
      <4>1. Asking(c)'
        BY <2>1, <3>1, <3>2, <3>6 DEF Asking, Size
      <4>2. Aligned(c)'
        BY <3>2, <3>6 DEF Aligned
      <4> QED
        BY <3>2, <4>1, <4>2 DEF InOrder
    <3> QED
      BY <2>1, <3>1, <3>4, <3>5, <3>6 DEF Asking
  <2> QED
    BY <1>3, <1>d, <2>1, <2>3
<1>6. CASE WriteDataBelongingToCommand(c)
  <2>1. client[c] = "data" /\ \E bytes : ClientWrites(c, bytes, "answer", request[c])
    BY <1>6 DEF WriteDataBelongingToCommand
  <2>2. pipe[c] # "open"
    BY <2>1 DEF InOrder, Resting, Asking, Answering
  <2> QED
    BY <1>3, <1>d, <2>1, <2>2
<1>7. CASE ReadAnswerSize(c)
  <2>1. /\ client[c] = "answer" /\ AnswerReadReturns(c) /\ sent' = sent
        /\ toClient'[c] = Left(toClient[c], 4)
        /\ UNCHANGED <<pipe, toServer, thread, ipc_data, handled>>
    BY <1>7, <1>a DEF ReadAnswerSize, ClientReads, KeepMessage, threadVars
  <2>2. request'[c] = request[c] \/ request'[c] = NoMessage
    BY <1>7, <1>c DEF ReadAnswerSize, ClientGoes
  <2>3. CASE pipe[c] # "open"
    BY <1>d, <2>1, <2>2, <2>3 DEF InOrder, Aligned
  <2>4. CASE pipe[c] = "open"
    <3>1. toClient[c] = Bytes(Size(c)) /\ Answering(c) /\ thread[c] = "checkAnswer"
      BY <2>1, <2>4 DEF InOrder, Resting, Asking, Answering, AnswerReadReturns
    <3> DEFINE q == toClient[c]
    <3>2. q \in Seq(Nat) /\ Len(q) = 4 /\ Number(q) = Size(c)
      <4>1. Bytes(Size(c)) \in DWords /\ Number(Bytes(Size(c))) = Size(c)
        BY <1>d, BytesNumber
      <4>2. Len(Bytes(Size(c))) = 4
        BY <4>1 DEF DWords
      <4> QED
        BY <1>a, <3>1, <4>1, <4>2, Zenon
    <3>3. Taken(q, 4) = q /\ Left(q, 4) = <<>>
      BY <3>2, TakenLeft
    <3>4. ClientGoes(c, IF Size(c) > 0 THEN "answerData" ELSE "idle", request[c],
                     IF Size(c) > 0 THEN Size(c) ELSE 0)
      BY <1>7, <3>2, <3>3 DEF ReadAnswerSize
    <3>5. toClient'[c] = <<>> /\ Aligned(c)' /\ request'[c].data = <<>>
      BY <1>d, <2>1, <2>2, <3>3 DEF InOrder, Aligned
    <3> HIDE DEF q
    <3>6. CASE Size(c) = 0
      <4>1. client'[c] = "idle"
        BY <1>c, <3>4, <3>6 DEF ClientGoes
      <4>2. Resting(c)'
        BY <2>1, <3>1, <3>5, <3>6, <4>1 DEF Answering, Resting, Size
      <4> QED
        BY <3>5, <4>2 DEF InOrder
    <3>7. CASE Size(c) # 0
      <4>1. Size(c) > 0
        <5>1. \A n \in Byte : n # 0 => n > 0
          BY DEF Byte
        <5> QED
          BY <1>d, <3>7, <5>1
      <4>2. client'[c] = "answerData" /\ request'[c] = request[c] /\ m_dwIPCdataSizeInByte'[c] = Size(c)
        BY <1>c, <3>4, <4>1 DEF ClientGoes
      <4>3. Answering(c)'
        BY <2>1, <3>1, <3>5, <3>7, <4>2 DEF Answering, Size
      <4> QED
        BY <3>5, <4>3 DEF InOrder
    <3> QED
      BY <3>6, <3>7
  <2> QED
    BY <2>3, <2>4
<1>8. CASE ReadAnswerData(c)
  <2> DEFINE n == m_dwIPCdataSizeInByte[c]
  <2>1. /\ client[c] = "answerData" /\ AnswerReadReturns(c) /\ sent' = sent
        /\ toClient'[c] = Left(toClient[c], n)
        /\ client'[c] = "idle" /\ request'[c] = NoMessage
        /\ UNCHANGED <<pipe, toServer, thread, ipc_data, handled>>
    BY <1>8, <1>a, <1>c DEF ReadAnswerData, ClientReads, ClientGoes, KeepMessage, threadVars
  <2>2. CASE pipe[c] # "open"
    BY <1>d, <2>1, <2>2 DEF InOrder, Aligned
  <2>3. CASE pipe[c] = "open"
    <3>1. /\ toClient[c] = [i \in 1 .. n |-> handled[c]] /\ Answering(c)
          /\ thread[c] = "checkAnswerData" /\ n \in Nat /\ handled[c] \in Nat
      BY <1>b, <1>c, <2>1, <2>3 DEF InOrder, Resting, Asking, Answering, AnswerReadReturns
    <3>2. Len(toClient[c]) = n
      BY <3>1, ConstantSeq
    <3>3. Left(toClient[c], n) = <<>>
      <4>1. toClient[c] \in Seq(Nat) /\ n \in Nat
        BY <1>a, <3>1
      <4> QED
        BY <3>2, <4>1, TakenLeft, Zenon
    <3>4. Resting(c)'
      BY <2>1, <3>1, <3>3 DEF Answering, Resting, Size
    <3> QED
      BY <1>d, <2>1, <3>1, <3>4 DEF InOrder, Aligned
  <2> QED
    BY <2>2, <2>3
<1> QED
  BY <1>1, <1>2, <1>4, <1>5, <1>6, <1>7, <1>8 DEF SendStep

\* So does its thread, whatever the other threads have written to the results it tests.
LEMMA ThreadStepInOrder ==
  ASSUME TypeOK, AnswerInv, NEW c \in Clients, InOrder(c), ThreadStep(c),
         static.dwNumberOfBytesToRead = Bytes(0) \/ static.dwNumberOfBytesToRead = Bytes(1)
  PROVE  /\ InOrder(c)'
         /\ static'.dwNumberOfBytesToRead = Bytes(0) \/ static'.dwNumberOfBytesToRead = Bytes(1)
<1>a. toServer \in [Clients -> Seq(Byte)] /\ toClient \in [Clients -> Seq(Nat)]
      /\ pipe \in [Clients -> {"none", "open", "left", "cut"}]
  BY DEF TypeOK, PipeTypes
<1>b. thread \in [Clients -> ThreadSteps] /\ ipc_data \in [Clients -> IPC_datas]
      /\ handled \in [Clients -> Nat] /\ static \in Statics
  BY DEF TypeOK, ThreadTypes
<1>c. sent \in [Clients -> Nat]
  BY DEF TypeOK, ClientTypes
<1>d. Size(c) \in Byte /\ handled[c] \in Nat /\ request[c].data = <<>> /\ toServer[c] \in Seq(Byte)
  BY <1>a, SizeType DEF InOrder, Size
<1>e. Bytes(1) # <<>> /\ Bytes(1) \in Seq(Byte) /\ Len(Bytes(1)) = 4 /\ Number(Bytes(1)) = 1
      /\ Number(Bytes(0)) = 0
  BY BytesNumber DEF Byte, DWords
<1>f. KeepClient
  BY DEF ThreadStep, ReadNumberOfBytesToRead, HandleNumberOfBytesToRead, ReadCommand,
     HandleCommand, ReadDataBelongingToTheCommand, HandleData, IPC_Message, WriteSizeInByte,
     HandleSizeWritten, WriteAnswerData, HandleAnswerWritten, ThreadEnds, ServerReads, ServerWrites
<1>g. UNCHANGED <<client, request, m_dwIPCdataSizeInByte, sent>>
  BY <1>f DEF KeepClient, clientVars
<1>i. Size(c) \in Nat
  <2>1. Byte \subseteq Nat
    BY DEF Byte
  <2> QED
    BY <1>d, <2>1
<1>h. thread[c] \notin {"data", "checkData"}
  BY DEF InOrder, Aligned
<1>1. CASE ReadNumberOfBytesToRead(c)
  <2> DEFINE size == Taken(toServer[c], 4)
  <2>1. /\ thread[c] = "size" /\ thread'[c] = "checkSize" /\ ReadReturns(c)
        /\ toServer'[c] = Left(toServer[c], 4)
        /\ static'.dwNumberOfBytesToRead = Overwritten(static.dwNumberOfBytesToRead, size)
        /\ UNCHANGED <<pipe, toClient, handled, ipc_data>>
    <3>1. static'.dwNumberOfBytesToRead = Overwritten(static.dwNumberOfBytesToRead, size)
      BY <1>1, <1>b DEF ReadNumberOfBytesToRead, Statics
    <3> QED
      BY <1>1, <1>a, <1>b, <3>1 DEF ReadNumberOfBytesToRead, ServerReads, Goes
  <2>2. static.dwNumberOfBytesToRead \in DWords
    BY <1>b DEF Statics
  <2>3. CASE toServer[c] = <<>>
    <3>1. size = <<>> /\ toServer'[c] = <<>> /\ Len(size) = 0 /\ size \in Seq(Byte)
      <4>1. Len(toServer[c]) = 0 /\ Least(4, 0) = 0
        BY <2>3, EmptySeq DEF Least
      <4> QED
        BY <2>1, <2>3, <4>1, SubSeqEmpty, EmptySeq DEF Taken, Left
    <3>2. static'.dwNumberOfBytesToRead = static.dwNumberOfBytesToRead
      BY <2>1, <2>2, <3>1, OverwrittenDWord
    <3>3. pipe[c] # "open"
      BY <2>1, <2>3 DEF ReadReturns
    <3> QED
      BY <1>d, <1>g, <2>1, <3>1, <3>2, <3>3 DEF InOrder, Aligned
  <2>4. ASSUME toServer[c] # <<>>
        PROVE  /\ size = Bytes(1)
               /\ \/ toServer[c] = Bytes(1) /\ toServer'[c] = <<>>
                  \/ \E b \in Byte : toServer[c] = Bytes(1) \o <<b>> /\ toServer'[c] = <<b>>
    <3>1. CASE toServer[c] = Bytes(1)
      <4>1. Taken(Bytes(1), 4) = Bytes(1) /\ Left(Bytes(1), 4) = <<>>
        BY <1>e, TakenLeft
      <4> QED
        BY <2>1, <3>1, <4>1
    <3>2. CASE \E b \in Byte : toServer[c] = Bytes(1) \o <<b>>
      BY <2>1, <3>2, OneMessage
    <3> QED
      BY <2>1, <2>4, <3>1, <3>2 DEF InOrder, Aligned
  <2>5. CASE toServer[c] # <<>>
    <3>1. static'.dwNumberOfBytesToRead = Bytes(1)
      <4>1. size = Bytes(1)
        BY <2>4, <2>5
      <4>2. Overwritten(static.dwNumberOfBytesToRead, Bytes(1)) = Bytes(1)
        BY <1>e, <2>2, OverwrittenDWord
      <4> QED
        BY <2>1, <4>1, <4>2
    <3>2. Aligned(c)'
      BY <2>1, <2>4, <2>5 DEF Aligned
    <3>3. ASSUME pipe[c] = "open" PROVE Asking(c)'
      <4>1. Asking(c)
        BY <2>1, <2>5, <3>3 DEF InOrder, Resting, Answering
      <4>2. CASE client[c] = "command"
        <5>1. toServer[c] = Bytes(1)
          BY <2>1, <4>1, <4>2 DEF Asking
        <5>2. toServer'[c] = <<>>
          <6>1. Left(Bytes(1), 4) = <<>>
            BY <1>e, TakenLeft
          <6> QED
            BY <2>1, <5>1, <6>1
        <5> QED
          BY <1>g, <2>1, <4>1, <4>2, <5>2 DEF Asking
      <4>3. CASE client[c] = "answer"
        <5>1. toServer[c] = Bytes(1) \o <<request[c].command>>
          BY <2>1, <4>1, <4>3 DEF Asking
        <5>2. request[c].command \in Byte
          BY DEF TypeOK, ClientTypes, Commands, start_DVFS, stop_service, get_current_CPU_data,
             setMaximumCPUcoreMultplier, Byte
        <5>3. toServer'[c] = <<request[c].command>>
          BY <2>1, <5>1, <5>2, OneMessage
        <5> QED
          BY <1>g, <2>1, <4>1, <4>3, <5>3 DEF Asking
      <4> QED
        BY <4>1, <4>2, <4>3 DEF Asking
    <3> QED
      BY <1>d, <1>g, <2>1, <3>1, <3>2, <3>3 DEF InOrder
  <2> QED
    BY <2>3, <2>5
<1>2. CASE HandleNumberOfBytesToRead(c)
  <2>1. static'.dwNumberOfBytesToRead = static.dwNumberOfBytesToRead
    BY <1>2, <1>b, TestedType DEF HandleNumberOfBytesToRead
  <2>2. /\ thread[c] = "checkSize" /\ thread'[c] \in {"command", "end"}
        /\ UNCHANGED <<pipe, toServer, toClient, handled, ipc_data>>
    BY <1>2, <1>b DEF HandleNumberOfBytesToRead, Goes, pipeVars
  <2> QED
    BY <1>g, <2>1, <2>2 DEF InOrder, Aligned, Resting, Asking, Answering, Size
<1>3. CASE ReadCommand(c)
  <2> DEFINE command == Taken(toServer[c], 1)
  <2>1. /\ thread[c] = "command" /\ thread'[c] = "checkCommand" /\ ReadReturns(c)
        /\ toServer'[c] = Left(toServer[c], 1)
        /\ command # <<>> => ipc_data'[c].m_byCommand = command[1]
        /\ static'.dwNumberOfBytesToRead = static.dwNumberOfBytesToRead
        /\ UNCHANGED <<pipe, toClient, handled>>
    <3>1. static'.dwNumberOfBytesToRead = static.dwNumberOfBytesToRead
      BY <1>3, <1>b DEF ReadCommand, Statics
    <3>2. command # <<>> => ipc_data'[c].m_byCommand = command[1]
      <4>1. ASSUME command # <<>> PROVE ipc_data' = [ipc_data EXCEPT ![c].m_byCommand = command[1]]
        BY <1>3, <4>1 DEF ReadCommand
      <4> QED
        BY <1>b, <4>1 DEF IPC_datas
    <3> QED
      BY <1>3, <1>a, <1>b, <3>1, <3>2 DEF ReadCommand, ServerReads, Goes
  <2>2. ASSUME NEW b \in Byte, toServer[c] = <<b>> PROVE command = <<b>> /\ toServer'[c] = <<>>
    <3>1. Taken(<<b>>, 1) = <<b>> /\ Left(<<b>>, 1) = <<>>
      BY OneMessage, TakenLeft
    <3> QED
      BY <2>1, <2>2, <3>1
  <2>3. toServer'[c] = <<>>
    <3>1. CASE toServer[c] = <<>>
      <4>1. Len(toServer[c]) = 0 /\ Least(1, 0) = 0
        BY <3>1, EmptySeq DEF Least
      <4> QED
        BY <2>1, <3>1, <4>1, SubSeqEmpty DEF Left
    <3> QED
      BY <2>1, <2>2, <3>1 DEF InOrder, Aligned
  <2>4. Aligned(c)'
    BY <2>1, <2>3 DEF Aligned
  <2>5. ASSUME pipe[c] = "open" PROVE Asking(c)'
    <3>1. toServer[c] # <<>>
      BY <2>1, <2>5 DEF ReadReturns
    <3>2. Asking(c) /\ client[c] = "answer" /\ toServer[c] = <<request[c].command>>
      BY <2>1, <2>5, <3>1 DEF InOrder, Resting, Answering, Asking
    <3>3. request[c].command \in Byte
      BY DEF TypeOK, ClientTypes, Commands, start_DVFS, stop_service, get_current_CPU_data,
         setMaximumCPUcoreMultplier, Byte
    <3>4. command = <<request[c].command>>
      BY <2>2, <3>2, <3>3
    <3>5. ipc_data'[c].m_byCommand = request[c].command
      <4>1. command # <<>> /\ command[1] = request[c].command
        BY <3>4
      <4> QED
        BY <2>1, <4>1
    <3> QED
      BY <1>g, <2>1, <2>3, <3>2, <3>5 DEF Asking
  <2> QED
    BY <1>d, <1>g, <2>1, <2>4, <2>5 DEF InOrder
<1>4. CASE HandleCommand(c)
  <2>1. static'.dwNumberOfBytesToRead = static.dwNumberOfBytesToRead
    BY <1>4, <1>b, TestedType DEF HandleCommand
  <2>2. ~ (Number(static.dwNumberOfBytesToRead) > 1)
    BY <1>e
  <2>3. /\ thread[c] = "checkCommand" /\ thread'[c] \in {"handle", "end"}
        /\ UNCHANGED <<pipe, toServer, toClient, handled, ipc_data>>
    BY <1>4, <1>b, <2>2 DEF HandleCommand, Goes, pipeVars
  <2> QED
    BY <1>g, <2>1, <2>3 DEF InOrder, Aligned, Resting, Asking, Answering, Size
<1>5. CASE IPC_Message(c)
  <2>1. /\ thread[c] = "handle" /\ thread'[c] = "answer" /\ handled'[c] = handled[c] + 1
        /\ UNCHANGED <<pipe, toServer, toClient, static>>
    BY <1>5, <1>b DEF IPC_Message, Goes, pipeVars
  <2>2. ipc_data'[c].m_byCommand = ipc_data[c].m_byCommand
    <3>1. \/ ipc_data' = [ipc_data EXCEPT ![c].m_wDataToWriteSizeInByte = 0]
          \/ \E n \in AnswerSizes :
               ipc_data' = [ipc_data EXCEPT ![c] =
                 [@ EXCEPT !.m_ar_byDataToSend = "allocated", !.m_wDataToWriteSizeInByte = n]]
      BY <1>5 DEF IPC_Message
    <3>2. CASE ipc_data' = [ipc_data EXCEPT ![c].m_wDataToWriteSizeInByte = 0]
      BY <1>b, <3>2 DEF IPC_datas
    <3>3. CASE \E n \in AnswerSizes :
                 ipc_data' = [ipc_data EXCEPT ![c] =
                   [@ EXCEPT !.m_ar_byDataToSend = "allocated", !.m_wDataToWriteSizeInByte = n]]
      BY <1>b, <3>3 DEF IPC_datas
    <3> QED
      BY <3>1, <3>2, <3>3
  <2>3. Aligned(c)'
    BY <2>1 DEF InOrder, Aligned
  <2>4. ASSUME pipe[c] = "open" PROVE Answering(c)'
    <3>1. Asking(c)
      BY <2>1, <2>4 DEF InOrder, Resting, Answering
    <3> QED
      BY <1>g, <2>1, <2>2, <3>1 DEF Asking, Answering
  <2> QED
    BY <1>d, <1>g, <2>1, <2>3, <2>4 DEF InOrder
<1>6. CASE WriteSizeInByte(c)
  <2>1. /\ thread[c] = "answer" /\ thread'[c] = "checkAnswer"
        /\ pipe[c] = "open" => toClient'[c] = toClient[c] \o Bytes(Size(c))
        /\ UNCHANGED <<pipe, toServer, handled, ipc_data>>
    BY <1>6, <1>a, <1>b DEF WriteSizeInByte, ServerWrites, Goes, Size
  <2>2. static'.dwNumberOfBytesToRead = static.dwNumberOfBytesToRead
    BY <1>6, <1>b DEF WriteSizeInByte, Statics
  <2>3. Aligned(c)'
    BY <2>1 DEF InOrder, Aligned
  <2>4. ASSUME pipe[c] = "open" PROVE Answering(c)'
    <3>1. Answering(c) /\ client[c] = "answer" /\ toClient[c] = <<>>
      BY <2>1, <2>4 DEF InOrder, Resting, Asking, Answering
    <3>2. Bytes(Size(c)) \in Seq(Byte)
      BY <1>d, BytesNumber DEF DWords
    <3>3. toClient'[c] = Bytes(Size(c))
      BY <2>1, <2>4, <3>1, <3>2, ConcatEmptySeq
    <3> QED
      BY <1>g, <2>1, <3>1, <3>3 DEF Answering, Size
  <2> QED
    BY <1>d, <1>g, <2>1, <2>2, <2>3, <2>4 DEF InOrder
<1>7. CASE HandleSizeWritten(c)
  <2>1. static'.dwNumberOfBytesToRead = static.dwNumberOfBytesToRead
    BY <1>7, <1>b, TestedType DEF HandleSizeWritten
  <2>2. /\ thread[c] = "checkAnswer" /\ FlushReturns(c)
        /\ \/ thread'[c] = "end"
           \/ thread'[c] = "size" /\ (Size(c) = 0 \/ ipc_data[c].m_ar_byDataToSend = "NULL")
           \/ thread'[c] = "answerData" /\ Size(c) # 0
        /\ UNCHANGED <<pipe, toServer, toClient, handled, ipc_data>>
    BY <1>7, <1>b DEF HandleSizeWritten, Goes, Again, pipeVars, Size
  <2>3. ipc_data[c].m_ar_byDataToSend = "NULL" => Size(c) = 0
    BY <2>2 DEF AnswerInv, Size
  <2>4. Aligned(c)'
    BY <2>2 DEF InOrder, Aligned
  <2>5. ASSUME pipe[c] = "open" PROVE Resting(c)' \/ Asking(c)' \/ Answering(c)'
    <3>1. toClient[c] = <<>>
      BY <2>2, <2>5 DEF FlushReturns
    <3>2. Bytes(Size(c)) # <<>>
      BY <1>d, BytesNumber
    <3>3. CASE Resting(c)
      BY <1>g, <2>2, <3>3 DEF Resting, Size
    <3>4. CASE Asking(c)
      BY <1>g, <2>2, <3>4 DEF Asking, Size
    <3>5. CASE Answering(c)
      BY <1>g, <2>2, <2>3, <3>1, <3>2, <3>5 DEF Answering, Size
    <3> QED
      BY <2>5, <3>3, <3>4, <3>5 DEF InOrder
  <2> QED
    BY <1>d, <1>g, <2>1, <2>2, <2>4, <2>5 DEF InOrder
<1>8. CASE WriteAnswerData(c)
  <2> DEFINE data == [i \in 1 .. Size(c) |-> handled[c]]
  <2>1. /\ thread[c] = "answerData" /\ thread'[c] = "checkAnswerData"
        /\ pipe[c] = "open" => toClient'[c] = toClient[c] \o data
        /\ UNCHANGED <<pipe, toServer, handled, ipc_data>>
    BY <1>8, <1>a, <1>b DEF WriteAnswerData, ServerWrites, Goes, Size
  <2>2. static'.dwNumberOfBytesToRead = static.dwNumberOfBytesToRead
    BY <1>8, <1>b DEF WriteAnswerData, Statics
  <2>3. Aligned(c)'
    BY <2>1 DEF InOrder, Aligned
  <2>4. ASSUME pipe[c] = "open" PROVE Answering(c)'
    <3>1. Answering(c) /\ client[c] = "answerData" /\ toClient[c] = <<>> /\ Size(c) # 0
      BY <2>1, <2>4 DEF InOrder, Resting, Asking, Answering
    <3>2. data \in Seq(Nat)
      BY <1>d, <1>i, ConstantSeq
    <3>3. toClient'[c] = data
      BY <2>1, <2>4, <3>1, <3>2, ConcatEmptySeq
    <3> QED
      BY <1>g, <2>1, <3>1, <3>3 DEF Answering, Size
  <2> QED
    BY <1>d, <1>g, <2>1, <2>2, <2>3, <2>4 DEF InOrder
<1>9. CASE HandleAnswerWritten(c)
  <2>1. static'.dwNumberOfBytesToRead = static.dwNumberOfBytesToRead
    BY <1>9, <1>b, TestedType DEF HandleAnswerWritten
  <2>2. /\ thread[c] = "checkAnswerData" /\ FlushReturns(c) /\ thread'[c] \in {"size", "end"}
        /\ UNCHANGED <<pipe, toServer, toClient, handled>>
    BY <1>9, <1>b DEF HandleAnswerWritten, Goes, Again, pipeVars
  <2>3. Aligned(c)'
    BY <2>2 DEF InOrder, Aligned
  <2>4. ASSUME pipe[c] = "open" PROVE Resting(c)' \/ Asking(c)'
    <3>1. toClient[c] = <<>>
      BY <2>2, <2>4 DEF FlushReturns
    <3>2. ~ Answering(c)
      <4>1. Size(c) # 0 => [i \in 1 .. Size(c) |-> handled[c]] # <<>>
        BY <1>d, <1>i, ConstantSeq
      <4> QED
        BY <2>2, <3>1, <4>1 DEF Answering
    <3>3. CASE Resting(c)
      BY <1>g, <2>2, <3>3 DEF Resting
    <3>4. CASE Asking(c)
      BY <1>g, <2>2, <3>4 DEF Asking
    <3> QED
      BY <2>4, <3>2, <3>3, <3>4 DEF InOrder
  <2> QED
    BY <1>d, <1>g, <2>1, <2>2, <2>3, <2>4 DEF InOrder
<1>10. CASE ThreadEnds(c)
  <2>1. thread'[c] = "none" /\ pipe'[c] # "open" /\ static' = static
    BY <1>10, <1>a, <1>b DEF ThreadEnds, Goes
  <2> QED
    BY <1>d, <1>g, <2>1 DEF InOrder, Aligned
<1> QED
  BY <1>h, <1>1, <1>2, <1>3, <1>4, <1>5, <1>6, <1>7, <1>8, <1>9, <1>10
  DEF ThreadStep, ReadDataBelongingToTheCommand, HandleData

\* StepInv is inductive.
LEMMA InStepStep == TypeOK /\ AnswerInv /\ StepInv /\ [Next]_vars => StepInv'
<1> SUFFICES ASSUME TypeOK, AnswerInv, StepInv, [Next]_vars, onlyCommands'
    PROVE /\ static'.dwNumberOfBytesToRead = Bytes(0) \/ static'.dwNumberOfBytesToRead = Bytes(1)
          /\ \A c \in Clients : InOrder(c)'
  BY DEF StepInv
<1>1. ASSUME NEW c \in Clients,
             Connect(c) \/ ClientLeaves(c) \/ WriteDataSizeInByte(c) \/ SendStep(c)
      PROVE  onlyCommands /\ static' = static
  BY <1>1 DEF Connect, ClientLeaves, WriteDataSizeInByte, SendStep, WriteCommand,
     WriteDataBelongingToCommand, ReadAnswerSize, ReadAnswerData, ClientWrites, ClientReads,
     KeepMessage, threadVars
<1>2. ASSUME NEW c \in Clients, ThreadStep(c) PROVE onlyCommands
  BY <1>2 DEF ThreadStep, ReadNumberOfBytesToRead, HandleNumberOfBytesToRead, ReadCommand,
     HandleCommand, ReadDataBelongingToTheCommand, HandleData, IPC_Message, WriteSizeInByte,
     HandleSizeWritten, WriteAnswerData, HandleAnswerWritten, ThreadEnds, ServerReads, ServerWrites,
     KeepClient, clientVars
<1>3. ASSUME NEW c \in Clients,
             Connect(c) \/ ClientLeaves(c) \/ WriteDataSizeInByte(c) \/ SendStep(c)
      PROVE  StepInv'
  <2>1. ASSUME NEW d \in Clients PROVE InOrder(d)'
    <3>1. CASE d = c
      BY <1>1, <1>3, <3>1, ClientStepInOrder DEF StepInv
    <3>2. CASE d # c
      BY <1>1, <1>3, <3>2, ClientStepFrame, FrameInOrder DEF StepInv
    <3> QED
      BY <3>1, <3>2
  <2> QED
    BY <1>1, <1>3, <2>1 DEF StepInv
<1>4. ASSUME NEW c \in Clients, ThreadStep(c) PROVE StepInv'
  <2>1. ASSUME NEW d \in Clients PROVE InOrder(d)'
    <3>1. CASE d = c
      BY <1>2, <1>4, <3>1, ThreadStepInOrder DEF StepInv
    <3>2. CASE d # c
      BY <1>2, <1>4, <3>2, ThreadStepFrame, FrameInOrder DEF StepInv
    <3> QED
      BY <3>1, <3>2
  <2> QED
    BY <1>2, <1>4, <2>1, ThreadStepInOrder DEF StepInv
<1>5. CASE ServiceRestarts
  <2>1. onlyCommands /\ request' = request /\ static'.dwNumberOfBytesToRead = Bytes(0)
    BY <1>5 DEF ServiceRestarts, clientVars, NewStatic
  <2>2. ASSUME NEW c \in Clients PROVE InOrder(c)'
    <3>1. pipe'[c] # "open" /\ thread'[c] = "none"
      BY <1>5 DEF ServiceRestarts, TypeOK, PipeTypes
    <3> QED
      BY <2>1, <3>1 DEF StepInv, InOrder, Aligned
  <2> QED
    BY <2>1, <2>2
<1>6. CASE CreateDownPrivilegedPipe \/ UNCHANGED vars
  <2>1. onlyCommands /\ static' = static /\ \A c \in Clients : UNCHANGED Connection(c)
    BY <1>6 DEF CreateDownPrivilegedPipe, vars, clientVars, pipeVars, threadVars, Connection
  <2> QED
    BY <2>1, FrameInOrder DEF StepInv
<1> QED
  BY <1>3, <1>4, <1>5, <1>6 DEF Next, StepInv

\* While no client has sent data, each client and its thread agree on where they are, and
\* an answer is read by the client it belongs to, after the command it answers: for any
\* number of clients, messages and answers, although all threads share the variables that
\* ReadPipeData and WriteDataToPipe declare static.
THEOREM StaysInStep == Spec => []InStep
<1>1. Init => AnswerInv /\ StepInv
  <2> SUFFICES ASSUME Init PROVE AnswerInv /\ StepInv
    OBVIOUS
  <2>1. AnswerInv
    BY DEF Init, AnswerInv
  <2>2. static.dwNumberOfBytesToRead = Bytes(0)
    BY DEF Init, NewStatic
  <2>3. ASSUME NEW c \in Clients PROVE InOrder(c)
    <3>1. thread[c] = "none" /\ pipe[c] = "none" /\ request[c] = NoMessage
      BY DEF Init
    <3> QED
      BY <3>1 DEF InOrder, Aligned, NoMessage
  <2> QED
    BY <2>1, <2>2, <2>3 DEF StepInv
<1>2. TypeOK /\ StepInv => InStep
  <2> SUFFICES ASSUME TypeOK, StepInv, NEW c \in Clients, onlyCommands, pipe[c] = "open"
      PROVE  /\ handled[c] <= sent[c] /\ sent[c] <= handled[c] + 1
             /\ client[c] = "idle" => handled[c] = sent[c]
             /\ toClient[c] # <<>> =>
                  /\ handled[c] = sent[c] /\ ipc_data[c].m_byCommand = request[c].command
                  /\ client[c] = "answerData" =>
                       toClient[c] = [i \in 1 .. m_dwIPCdataSizeInByte[c] |-> sent[c]]
    BY DEF InStep
  <2>1. handled[c] \in Nat /\ sent[c] \in Nat
    BY DEF TypeOK, ThreadTypes, ClientTypes
  <2>2. Resting(c) \/ Asking(c) \/ Answering(c)
    BY DEF StepInv, InOrder
  <2>a. \A n \in Nat : n <= n /\ n <= n + 1 /\ n + 1 <= n + 1 /\ n # n + 1
    OBVIOUS
  <2>3. CASE Resting(c)
    BY <2>a, <2>1, <2>3 DEF Resting
  <2>4. CASE Asking(c)
    <3>1. /\ client[c] \in {"command", "answer"} /\ toClient[c] = <<>>
          /\ sent[c] = handled[c] + 1
      BY <2>4 DEF Asking
    <3> QED
      BY <2>a, <2>1, <3>1
  <2>5. CASE Answering(c)
    <3>1. CASE client[c] = "answer"
      BY <2>a, <2>1, <2>5, <3>1 DEF Answering
    <3>2. CASE client[c] = "answerData"
      BY <2>a, <2>1, <2>5, <3>2 DEF Answering
    <3> QED
      BY <2>5, <3>1, <3>2 DEF Answering
  <2> QED
    BY <2>2, <2>3, <2>4, <2>5
<1> QED
  BY <1>1, <1>2, AnswerStep, InStepStep, TypeCorrect, PTL DEF Spec
=============================================================================
