------------------------------ MODULE NamedPipe ------------------------------
(***************************************************************************)
(* The named pipe of the Windows service: NamedPipeClient sends a message    *)
(* (its size, a command, perhaps data) and reads the answer (its size,       *)
(* perhaps data); the service has one thread per connection.                 *)
(*                                                                         *)
(* The pipe is a stream of bytes: ReadFile waits for a byte and then takes    *)
(* what is there, up to the number asked for; it fails when the other end is  *)
(* gone and nothing is left.  FlushFileBuffers waits until the other end has  *)
(* read everything.                                                         *)
(*                                                                         *)
(* The variables that the functions of the server declare static are one for  *)
(* all its threads; here the result of a call and its number of bytes, which are     *)
(* written together, are one of them.  A call of ReadFile or WriteFile and the tests of what it *)
(* returned are two steps, between which another thread may write them.  (The *)
(* static byReturnValue repeats the outcome of those tests: who reads another *)
(* thread's has as well read the other statics of that thread.)              *)
(***************************************************************************)
EXTENDS Integers, Sequences, FiniteSets

CONSTANTS
  Clients,     \* the processes that use the pipe: per client one connection at a time
  Messages,    \* per client what it sends: [command, data]
  AnswerSizes, \* the sizes of answers with data
  Garbage,     \* what the byte after the caller's data may be
  MaxMessages  \* bound: the messages of each client

start_DVFS == 1
stop_service == 5
get_current_CPU_data == 14
setMaximumCPUcoreMultplier == 17
Commands == {start_DVFS, stop_service, get_current_CPU_data, setMaximumCPUcoreMultplier}

ASSUME PipeAssumption ==
  /\ \A c \in Clients : \A m \in Messages[c] :
       m \in [command : Commands, data : Seq(0 .. 255)] /\ Len(m.data) < 255
  /\ AnswerSizes \subseteq 1 .. 255
  /\ Garbage \subseteq 0 .. 255 /\ Garbage # {}
  /\ MaxMessages \in [Clients -> Nat]

VARIABLES
  listening, \* an instance of the pipe waits for a client
  m_vbAlterCPUcoreDataForIPC, \* the service's threads shall go on
  client,    \* per client: its next statement in SendCommandAndGetResponse
  m_bConnected,
  request,   \* per client: the message it sends
  m_dwIPCdataSizeInByte, \* per client: the size of the answer
  sent,      \* per client: its messages on this connection ...
  spent,     \* ... and on all, which MaxMessages bounds
  onlyCommands, \* history: no client has sent data
  pipe,      \* per client: "none", "open", "left" by the client or "cut" by the server
  toServer, toClient,    \* the bytes in it
  thread,    \* per client: the next statement of the server's thread for it
  ipc_data,  \* its IPC_data
  wanted, dwBytesRead,   \* its local variables
  handled,   \* the commands it handled
  static     \* the variables that are one for all threads

clientVars == <<client, m_bConnected, request, m_dwIPCdataSizeInByte, sent, spent, onlyCommands>>
pipeVars == <<pipe, toServer, toClient>>
threadVars == <<thread, ipc_data, wanted, dwBytesRead, handled>>
vars == <<listening, m_vbAlterCPUcoreDataForIPC, clientVars, pipeVars, threadVars, static>>

-----------------------------------------------------------------------------
(* Bytes *)

\* A DWORD of less than 256, and the number that four bytes make.
Bytes(n) == <<n, 0, 0, 0>>
Number(b) == b[1] + 256 * (b[2] + 256 * (b[3] + 256 * b[4]))

Least(a, b) == IF a < b THEN a ELSE b
Taken(q, n) == SubSeq(q, 1, Least(n, Len(q)))
Left(q, n) == SubSeq(q, Least(n, Len(q)) + 1, Len(q))

\* ReadFile by the server, by the client; FlushFileBuffers by the server.
ReadReturns(c) == toServer[c] # <<>> \/ pipe[c] # "open"
AnswerReadReturns(c) == toClient[c] # <<>> \/ pipe[c] # "open"
FlushReturns(c) == toClient[c] = <<>> \/ pipe[c] # "open"

NoMessage == [command |-> stop_service, data |-> <<>>]

\* m_byCommand is not set before the first command is read: it may be any then.
Unset == 256
NewIPC_data ==
  [m_byCommand |-> Unset, m_ar_byDataToSend |-> "NULL", m_wDataToWriteSizeInByte |-> 0]

NewStatic ==
  [sizeBytesRead |-> 0, dwNumberOfBytesToRead |-> Bytes(0), commandRead |-> FALSE,
   dataRead |-> FALSE, sizeWritten |-> FALSE, dataBytesWritten |-> 0]

Init ==
  /\ listening = FALSE
  /\ m_vbAlterCPUcoreDataForIPC = TRUE
  /\ client = [c \in Clients |-> "idle"]
  /\ m_bConnected = [c \in Clients |-> FALSE]
  /\ request = [c \in Clients |-> NoMessage]
  /\ m_dwIPCdataSizeInByte = [c \in Clients |-> 0]
  /\ sent = [c \in Clients |-> 0]
  /\ spent = [c \in Clients |-> 0]
  /\ onlyCommands = TRUE
  /\ pipe = [c \in Clients |-> "none"]
  /\ toServer = [c \in Clients |-> <<>>]
  /\ toClient = [c \in Clients |-> <<>>]
  /\ thread = [c \in Clients |-> "none"]
  /\ ipc_data = [c \in Clients |-> NewIPC_data]
  /\ wanted = [c \in Clients |-> 0]
  /\ dwBytesRead = [c \in Clients |-> 0]
  /\ handled = [c \in Clients |-> 0]
  /\ static = NewStatic

-----------------------------------------------------------------------------
(* Connecting *)

\* NamedPipeServer::Init(): the next instance of the pipe.
CreateDownPrivilegedPipe ==
  /\ ~ listening /\ listening' = TRUE
  /\ UNCHANGED <<m_vbAlterCPUcoreDataForIPC, clientVars, pipeVars, threadVars, static>>

\* ConnectToDataProvider(...) takes the instance, and Init() starts a thread for it.
Connect(c) ==
  /\ client[c] = "idle" /\ ~ m_bConnected[c] /\ spent[c] < MaxMessages[c]
  /\ listening /\ thread[c] = "none"
  /\ listening' = FALSE
  /\ m_bConnected' = [m_bConnected EXCEPT ![c] = TRUE]
  /\ sent' = [sent EXCEPT ![c] = 0]
  /\ pipe' = [pipe EXCEPT ![c] = "open"]
  /\ toServer' = [toServer EXCEPT ![c] = <<>>]
  /\ toClient' = [toClient EXCEPT ![c] = <<>>]
  /\ thread' = [thread EXCEPT ![c] = "size"]
  /\ ipc_data' = [ipc_data EXCEPT ![c] = NewIPC_data]
  /\ handled' = [handled EXCEPT ![c] = 0]
  /\ UNCHANGED <<m_vbAlterCPUcoreDataForIPC, client, request, m_dwIPCdataSizeInByte, spent,
                 onlyCommands, wanted, dwBytesRead, static>>

\* The client's process ends.
ClientLeaves(c) ==
  /\ pipe[c] = "open"
  /\ pipe' = [pipe EXCEPT ![c] = "left"]
  /\ client' = [client EXCEPT ![c] = "idle"]
  /\ request' = [request EXCEPT ![c] = NoMessage]
  /\ m_dwIPCdataSizeInByte' = [m_dwIPCdataSizeInByte EXCEPT ![c] = 0]
  /\ m_bConnected' = [m_bConnected EXCEPT ![c] = FALSE]
  /\ toClient' = [toClient EXCEPT ![c] = <<>>]
  /\ UNCHANGED <<listening, m_vbAlterCPUcoreDataForIPC, sent, spent, onlyCommands, toServer,
                 threadVars, static>>

\* The service's process ends or is killed, and is started again.
ServiceRestarts ==
  /\ listening' = FALSE
  /\ m_vbAlterCPUcoreDataForIPC' = TRUE
  /\ thread' = [c \in Clients |-> "none"]
  /\ pipe' = [c \in Clients |-> IF pipe[c] = "open" THEN "cut" ELSE pipe[c]]
  /\ static' = NewStatic
  /\ ipc_data' = [c \in Clients |-> NewIPC_data]
  /\ toServer' = [c \in Clients |-> <<>>]
  /\ wanted' = [c \in Clients |-> 0]
  /\ dwBytesRead' = [c \in Clients |-> 0]
  /\ handled' = [c \in Clients |-> 0]
  /\ UNCHANGED <<clientVars, toClient>>

-----------------------------------------------------------------------------
(* NamedPipeClient::SendCommandAndGetResponse(...) *)

\* The next statement of the client.  Its message is a variable of the caller, and the
\* size of the answer is not read again when the call has returned.
ClientGoes(c, next, message, size) ==
  /\ client' = [client EXCEPT ![c] = next]
  /\ request' = [request EXCEPT ![c] = IF next = "idle" THEN NoMessage ELSE message]
  /\ m_dwIPCdataSizeInByte' = [m_dwIPCdataSizeInByte EXCEPT ![c] = IF next = "idle" THEN 0 ELSE size]

\* Write(...): the client goes on at a statement, or has failed.
ClientWrites(c, bytes, next, message) ==
  /\ m_bConnected' = [m_bConnected EXCEPT ![c] = pipe[c] = "open"]
  /\ toServer' = IF pipe[c] = "open" THEN [toServer EXCEPT ![c] = @ \o bytes] ELSE toServer
  /\ ClientGoes(c, IF pipe[c] = "open" THEN next ELSE "idle", message, 0)
  /\ UNCHANGED <<listening, m_vbAlterCPUcoreDataForIPC, pipe, toClient, threadVars, static>>

KeepMessage == UNCHANGED <<sent, spent, onlyCommands>>

\* Whoever calls this connects first if m_bConnected says that it is not.
WriteDataSizeInByte(c) ==
  /\ client[c] = "idle" /\ m_bConnected[c] /\ spent[c] < MaxMessages[c]
  /\ spent' = [spent EXCEPT ![c] = @ + 1]
  /\ sent' = [sent EXCEPT ![c] = @ + 1]
  /\ \E m \in Messages[c] :
       /\ onlyCommands' = (onlyCommands /\ m.data = <<>>)
       /\ ClientWrites(c, Bytes(1 + Len(m.data)), "command", m)

\* A plausible fault: nobody waits for the answer of a service that stops.
WriteCommandThenLeave(c) ==
  /\ client[c] = "command"
  /\ ClientWrites(c, <<request[c].command>>,
                  IF request[c].data # <<>> THEN "data"
                  ELSE IF request[c].command = stop_service THEN "idle" ELSE "answer",
                  request[c])
  /\ KeepMessage

WriteCommand(c) ==
  /\ client[c] = "command"
  /\ ClientWrites(c, <<request[c].command>>,
                  IF request[c].data # <<>> THEN "data" ELSE "answer", request[c])
  /\ KeepMessage

\* The size that is written includes the command, which was written before: one byte
\* more than the caller has is read from its memory.
WriteDataBelongingToCommand(c) ==
  /\ client[c] = "data"
  /\ \E g \in Garbage : ClientWrites(c, Append(request[c].data, g), "answer", request[c])
  /\ KeepMessage

\* Read(...) fails unless it gets what was asked for.
ClientReads(c, n) ==
  /\ AnswerReadReturns(c)
  /\ m_bConnected' = [m_bConnected EXCEPT ![c] = Len(Taken(toClient[c], n)) = n]
  /\ toClient' = [toClient EXCEPT ![c] = Left(@, n)]
  /\ UNCHANGED <<listening, m_vbAlterCPUcoreDataForIPC, pipe, toServer, threadVars, static>>
  /\ KeepMessage

\* A plausible fault: the data of an answer that has none are read as well.
ReadAnswerSizeThenData(c) ==
  /\ client[c] = "answer"
  /\ ClientReads(c, 4)
  /\ LET size == Taken(toClient[c], 4)
     IN ClientGoes(c, IF Len(size) = 4 THEN "answerData" ELSE "idle", request[c],
                   IF Len(size) = 4 THEN Number(size) ELSE 0)

\* An answer of no data is not read.
ReadAnswerSize(c) ==
  /\ client[c] = "answer"
  /\ ClientReads(c, 4)
  /\ LET size == Taken(toClient[c], 4)
         hasData == Len(size) = 4 /\ Number(size) > 0
     IN ClientGoes(c, IF hasData THEN "answerData" ELSE "idle", request[c],
                   IF hasData THEN Number(size) ELSE 0)

ReadAnswerData(c) ==
  /\ client[c] = "answerData"
  /\ ClientReads(c, m_dwIPCdataSizeInByte[c])
  /\ ClientGoes(c, "idle", NoMessage, 0)

-----------------------------------------------------------------------------
(* PipeClientThread(...): ReadPipeData(...) *)

Goes(c, next) == thread' = [thread EXCEPT ![c] = next]

\* After its test nobody reads the result of a call, unless another thread is at the same
\* test: that the result is forgotten then changes nothing.
Tested(c, result, nothing) ==
  static' = IF \E other \in Clients \ {c} : thread[other] = thread[c] THEN static
            ELSE [static EXCEPT ![result] = nothing]
KeepClient == UNCHANGED <<listening, clientVars>>

\* What is read, up to n bytes, is the next of the pipe.
ServerReads(c, n) ==
  /\ ReadReturns(c)
  /\ toServer' = [toServer EXCEPT ![c] = Left(@, n)]
  /\ UNCHANGED <<pipe, toClient, m_vbAlterCPUcoreDataForIPC, handled>>
  /\ KeepClient

Overwritten(old, new) == new \o SubSeq(old, Len(new) + 1, 4)

ReadNumberOfBytesToRead(c) ==
  /\ thread[c] = "size" /\ Goes(c, "checkSize")
  /\ ServerReads(c, 4)
  /\ LET size == Taken(toServer[c], 4)
     IN static' = [static EXCEPT !.sizeBytesRead = Len(size),
                                 !.dwNumberOfBytesToRead = Overwritten(@, size)]
  /\ UNCHANGED <<ipc_data, wanted, dwBytesRead>>

HandleNumberOfBytesToRead(c) ==
  /\ thread[c] = "checkSize"
  /\ Goes(c, IF /\ static.sizeBytesRead = 4
                /\ Number(static.dwNumberOfBytesToRead) >= 1
             THEN "command" ELSE "end")
  /\ Tested(c, "sizeBytesRead", 0)
  /\ UNCHANGED <<pipeVars, m_vbAlterCPUcoreDataForIPC, ipc_data, wanted, dwBytesRead, handled>>
  /\ KeepClient

ReadCommand(c) ==
  /\ thread[c] = "command" /\ Goes(c, "checkCommand")
  /\ ServerReads(c, 1)
  /\ LET command == Taken(toServer[c], 1)
     IN /\ static' = [static EXCEPT !.commandRead = command # <<>>]
        /\ dwBytesRead' = [dwBytesRead EXCEPT ![c] = Len(command)]
        /\ ipc_data' = IF command = <<>> THEN ipc_data
                       ELSE [ipc_data EXCEPT ![c].m_byCommand = command[1]]
  /\ UNCHANGED wanted

\* The number of bytes is copied when ReadDataBelongingToTheCommand(...) is called.
HandleCommand(c) ==
  /\ thread[c] = "checkCommand"
  /\ LET read == static.commandRead /\ dwBytesRead[c] = 1
         number == Number(static.dwNumberOfBytesToRead)
     IN /\ Goes(c, IF ~ read THEN "end" ELSE IF number > 1 THEN "data" ELSE "handle")
        /\ wanted' = [wanted EXCEPT ![c] = IF read /\ number > 1 THEN number - 1 ELSE 0]
  /\ dwBytesRead' = [dwBytesRead EXCEPT ![c] = 0]
  /\ Tested(c, "commandRead", FALSE)
  /\ UNCHANGED <<pipeVars, m_vbAlterCPUcoreDataForIPC, ipc_data, handled>>
  /\ KeepClient

ReadDataBelongingToTheCommand(c) ==
  /\ thread[c] = "data" /\ Goes(c, "checkData")
  /\ ServerReads(c, wanted[c])
  /\ LET data == Taken(toServer[c], wanted[c])
     IN /\ static' = [static EXCEPT !.dataRead = data # <<>>]
        /\ dwBytesRead' = [dwBytesRead EXCEPT ![c] = Len(data)]
  /\ UNCHANGED <<ipc_data, wanted>>

HandleData(c) ==
  /\ thread[c] = "checkData"
  /\ Goes(c, IF static.dataRead /\ dwBytesRead[c] # 0 THEN "handle" ELSE "end")
  /\ wanted' = [wanted EXCEPT ![c] = 0]
  /\ dwBytesRead' = [dwBytesRead EXCEPT ![c] = 0]
  /\ Tested(c, "dataRead", FALSE)
  /\ UNCHANGED <<pipeVars, m_vbAlterCPUcoreDataForIPC, ipc_data, handled>>
  /\ KeepClient


-----------------------------------------------------------------------------
(* PipeClientThread(...): IPC_Message(...), WriteDataToPipe(...) *)

\* A plausible fault: a command without an answer does not set the size of the answer.
IPC_MessageKeepsSize(c) ==
  /\ thread[c] = "handle" /\ Goes(c, "answer")
  /\ m_vbAlterCPUcoreDataForIPC' =
       (m_vbAlterCPUcoreDataForIPC /\ ipc_data[c].m_byCommand # stop_service)
  /\ IF ipc_data[c].m_byCommand = get_current_CPU_data
     THEN \E n \in AnswerSizes :
            ipc_data' = [ipc_data EXCEPT ![c] =
              [@ EXCEPT !.m_ar_byDataToSend = "allocated", !.m_wDataToWriteSizeInByte = n]]
     ELSE UNCHANGED ipc_data
  /\ handled' = [handled EXCEPT ![c] = @ + 1]
  /\ UNCHANGED <<pipeVars, wanted, dwBytesRead, static>>
  /\ KeepClient

\* What CPUcontrolService::IPC_Message(...) does to the threads and the answer, for the
\* commands of Commands; then the data that were read are freed.  One step here, which
\* ends: the sections, the mutex and the join inside it, on which it may wait, are in IPCData
\* (EveryRequestAnswered, StopJoins, BroadcastIsReceived) and DVFSService.
IPC_Message(c) ==
  /\ thread[c] = "handle" /\ Goes(c, "answer")
  /\ \E command \in IF ipc_data[c].m_byCommand = Unset THEN Commands ELSE {ipc_data[c].m_byCommand} :
       /\ m_vbAlterCPUcoreDataForIPC' = (m_vbAlterCPUcoreDataForIPC /\ command # stop_service)
       /\ IF command = get_current_CPU_data
          THEN \E n \in AnswerSizes :
                 ipc_data' = [ipc_data EXCEPT ![c] =
                   [@ EXCEPT !.m_ar_byDataToSend = "allocated", !.m_wDataToWriteSizeInByte = n]]
          ELSE ipc_data' = [ipc_data EXCEPT ![c].m_wDataToWriteSizeInByte = 0]
  /\ handled' = [handled EXCEPT ![c] = @ + 1]
  /\ UNCHANGED <<pipeVars, wanted, dwBytesRead, static>>
  /\ KeepClient

ServerWrites(c, bytes) ==
  /\ toClient' = IF pipe[c] = "open" THEN [toClient EXCEPT ![c] = @ \o bytes] ELSE toClient
  /\ UNCHANGED <<pipe, toServer, m_vbAlterCPUcoreDataForIPC, ipc_data, wanted, dwBytesRead, handled>>
  /\ KeepClient

\* WriteSizeInByte(...)
WriteSizeInByte(c) ==
  /\ thread[c] = "answer" /\ Goes(c, "checkAnswer")
  /\ ServerWrites(c, Bytes(ipc_data[c].m_wDataToWriteSizeInByte))
  /\ static' = [static EXCEPT !.sizeWritten = pipe[c] = "open"]

\* The loop of the thread.
Again == IF m_vbAlterCPUcoreDataForIPC THEN "size" ELSE "end"

HandleSizeWritten(c) ==
  /\ thread[c] = "checkAnswer" /\ FlushReturns(c)
  /\ Goes(c, IF ~ static.sizeWritten THEN "end"
             ELSE IF \/ ipc_data[c].m_wDataToWriteSizeInByte = 0
                     \/ ipc_data[c].m_ar_byDataToSend = "NULL"
             THEN Again ELSE "answerData")
  /\ Tested(c, "sizeWritten", FALSE)
  /\ UNCHANGED <<pipeVars, m_vbAlterCPUcoreDataForIPC, ipc_data, wanted, dwBytesRead, handled>>
  /\ KeepClient

\* WriteAndHandleCommandData(...).  Every byte of an answer names the command it answers.
WriteAnswerData(c) ==
  /\ thread[c] = "answerData" /\ Goes(c, "checkAnswerData")
  /\ LET size == ipc_data[c].m_wDataToWriteSizeInByte
     IN /\ ServerWrites(c, [i \in 1 .. size |-> handled[c]])
        /\ static' = [static EXCEPT !.dataBytesWritten = IF pipe[c] = "open" THEN size ELSE 0]

HandleAnswerWritten(c) ==
  /\ thread[c] = "checkAnswerData" /\ FlushReturns(c)
  /\ ipc_data' = [ipc_data EXCEPT ![c].m_ar_byDataToSend = "freed"]
  /\ Goes(c, IF static.dataBytesWritten = ipc_data[c].m_wDataToWriteSizeInByte
             THEN Again ELSE "end")
  /\ Tested(c, "dataBytesWritten", 0)
  /\ UNCHANGED <<pipeVars, m_vbAlterCPUcoreDataForIPC, wanted, dwBytesRead, handled>>
  /\ KeepClient

\* After the loop: FlushFileBuffers, DisconnectNamedPipe, CloseHandle.
ThreadEnds(c) ==
  /\ thread[c] = "end" /\ FlushReturns(c) /\ Goes(c, "none")
  /\ pipe' = [pipe EXCEPT ![c] = IF @ = "open" THEN "cut" ELSE @]
  /\ toServer' = [toServer EXCEPT ![c] = <<>>]
  /\ ipc_data' = [ipc_data EXCEPT ![c] = NewIPC_data]
  /\ handled' = [handled EXCEPT ![c] = 0]
  /\ UNCHANGED <<toClient, m_vbAlterCPUcoreDataForIPC, wanted, dwBytesRead, static>>
  /\ KeepClient


-----------------------------------------------------------------------------
SendStep(c) ==
  \/ WriteCommand(c) \/ WriteDataBelongingToCommand(c)
  \/ ReadAnswerSize(c) \/ ReadAnswerData(c)

ThreadStep(c) ==
  \/ ReadNumberOfBytesToRead(c) \/ HandleNumberOfBytesToRead(c)
  \/ ReadCommand(c) \/ HandleCommand(c)
  \/ ReadDataBelongingToTheCommand(c) \/ HandleData(c)
  \/ IPC_Message(c)
  \/ WriteSizeInByte(c) \/ HandleSizeWritten(c)
  \/ WriteAnswerData(c) \/ HandleAnswerWritten(c)
  \/ ThreadEnds(c)

Next ==
  \/ CreateDownPrivilegedPipe \/ ServiceRestarts
  \/ \E c \in Clients :
       Connect(c) \/ ClientLeaves(c) \/ WriteDataSizeInByte(c) \/ SendStep(c) \/ ThreadStep(c)

Spec == Init /\ [][Next]_vars

\* A thread that can go on does.  Who starts, what is sent and when something ends is free.
FairSpec ==
  /\ Spec
  /\ \A c \in Clients : WF_vars(SendStep(c)) /\ WF_vars(ThreadStep(c))

-----------------------------------------------------------------------------
\* The thread of a connection and its client agree on where they are, whatever the
\* threads of other clients do to the static variables and whoever ends in between: a
\* command is handled once, in its turn, and what the client reads is the answer to the
\* command it sent last (ReadPipeData, WriteDataToPipe, SendCommandAndGetResponse).  Not
\* after a client has sent data: WriteDataBelongingToCommand writes a byte more than the
\* server reads, and that byte stays in the pipe.
InStep ==
  \A c \in Clients : onlyCommands /\ pipe[c] = "open" =>
    /\ handled[c] <= sent[c] /\ sent[c] <= handled[c] + 1
    /\ client[c] = "idle" => handled[c] = sent[c]
    /\ toClient[c] # <<>> =>
         /\ handled[c] = sent[c] /\ ipc_data[c].m_byCommand = request[c].command
         /\ client[c] = "answerData" => toClient[c] = [i \in 1 .. m_dwIPCdataSizeInByte[c] |-> sent[c]]

\* The array of an answer is deleted after it was sent and the pointer is kept: no later
\* command sends or deletes it again, or sends more than there is
\* (WriteAndHandleCommandData; IPC_Message sets the size with every command).
NeverSendsFreed ==
  \A c \in Clients :
    thread[c] \in {"answerData", "checkAnswerData"} => ipc_data[c].m_ar_byDataToSend = "allocated"

\* A client that sends a command does not wait forever, whether it gets the answer or its
\* connection is cut (SendCommandAndGetResponse blocks the user interface's thread), given
\* that the handlers themselves end (IPC_Message).
\* Not after a client has sent data: a thread that read the size of that message in the
\* place of its own waits for data which its client does not send.
SendEnds == \A c \in Clients : client[c] # "idle" ~> client[c] = "idle" \/ ~ onlyCommands
=============================================================================
