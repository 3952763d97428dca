--------------------------- MODULE CoreDataBoard ---------------------------
(***************************************************************************)
(* What the service promises a client that asks for the CPU core data       *)
(* (get_current_CPU_data): an answer that is, as a whole, the tree that was  *)
(* the last one published at some moment between question and answer, or     *)
(* nothing if none was published by then.  How a tree comes to be published  *)
(* is the business of IPCData, which implements this specification.          *)
(***************************************************************************)
CONSTANTS
  Clients, \* the threads that serve pipe clients
  Trees,   \* XML documents of the core data, as byte arrays
  NULL

VARIABLES
  board,   \* the tree last published, or NULL
  request, \* per client: "none", "asked" or "answered"
  answer   \* per client: what it is given

boardVars == <<board, request, answer>>

BoardInit ==
  /\ board = NULL
  /\ request = [c \in Clients |-> "none"]
  /\ answer = [c \in Clients |-> NULL]

Publish ==
  /\ board' \in Trees
  /\ UNCHANGED <<request, answer>>

Turn(c, from, to) ==
  /\ request[c] = from
  /\ request' = [request EXCEPT ![c] = to]

BoardAsk(c) ==
  /\ Turn(c, "none", "asked")
  /\ UNCHANGED <<board, answer>>

BoardAnswer(c) ==
  /\ Turn(c, "asked", "answered")
  /\ answer' = [answer EXCEPT ![c] = board]
  /\ UNCHANGED board

BoardSent(c) ==
  /\ Turn(c, "answered", "none")
  /\ answer' = [answer EXCEPT ![c] = NULL]
  /\ UNCHANGED board

BoardNext == Publish \/ \E c \in Clients : BoardAsk(c) \/ BoardAnswer(c) \/ BoardSent(c)

BoardSpec == BoardInit /\ [][BoardNext]_boardVars

=============================================================================
